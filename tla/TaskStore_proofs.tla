-------------------------- MODULE TaskStore_proofs --------------------------
(***************************************************************************)
(* What every operation of the task store preserves, whoever calls it, for *)
(* any tasks, subscribers, table size and queue size.                      *)
(***************************************************************************)
EXTENDS TaskStore, SequenceTheorems, FiniteSetTheorems, TLAPS

(* The parts of StoreOK.                                                   *)
SubOK(r) ==
    /\ r \in Subscription
    /\ Len(r.queue) <= Capacity
    /\ r.phase = "streaming" => r.task \in Tasks

LEMMA StoreOKSub ==
    ASSUME NEW st, StoreOK(st), NEW s \in Subs
    PROVE  SubOK(st.sub[s])
  BY DEF StoreOK, StoreValue, SubOK, Streaming

-----------------------------------------------------------------------------
(* One subscription.                                                       *)

(* An event that is put is the last of the queue, and nothing else but the *)
(* queue and the warning changes.                                          *)
LEMMA PutOK ==
    ASSUME StoreAssumption, NEW r, SubOK(r), NEW ev \in Event
    PROVE  /\ SubOK(Put(r, ev))
           /\ Put(r, ev).task = r.task /\ Put(r, ev).phase = r.phase
           /\ Put(r, ev).closed = r.closed
           /\ Put(r, ev).seen = r.seen /\ Put(r, ev).fin = r.fin
           /\ \/ Put(r, ev).queue = Append(r.queue, ev) /\ Put(r, ev).lost = r.lost
              \/ r.queue # <<>> /\ Put(r, ev).queue = Append(Tail(r.queue), ev) /\ Put(r, ev).lost
  <1>1. /\ r.queue \in Seq(Event) /\ Capacity \in Nat /\ Capacity >= 3
        /\ Len(r.queue) <= Capacity /\ r.lost \in BOOLEAN
    BY DEF SubOK, Subscription, StoreAssumption
  <1> DEFINE x == Put(r, ev)
  <1>2. ASSUME NEW q \in Seq(Event), Len(q) <= Capacity, NEW b \in BOOLEAN,
               x = [r EXCEPT !.queue = q, !.lost = b]
        PROVE  /\ SubOK(x)
               /\ x.queue = q /\ x.lost = b
               /\ x.task = r.task /\ x.phase = r.phase /\ x.closed = r.closed
               /\ x.seen = r.seen /\ x.fin = r.fin
    <2> HIDE DEF x
    <2> QED
      BY <1>2 DEF SubOK, Subscription
  <1>3. CASE Len(r.queue) < Capacity
    <2> DEFINE q == Append(r.queue, ev)
    <2>1. q \in Seq(Event) /\ Len(q) <= Capacity
      BY <1>1, <1>3
    <2>2. x = [r EXCEPT !.queue = q, !.lost = r.lost]
      BY <1>3 DEF Put, SubOK, Subscription
    <2> HIDE DEF q, x
    <2>3. /\ SubOK(x)
          /\ x.queue = q /\ x.lost = r.lost
          /\ x.task = r.task /\ x.phase = r.phase /\ x.closed = r.closed
          /\ x.seen = r.seen /\ x.fin = r.fin
      BY <1>1, <1>2, <2>1, <2>2
    <2> QED
      BY <2>3 DEF q, x
  <1>4. CASE ~(Len(r.queue) < Capacity)
    <2> DEFINE q == Append(Tail(r.queue), ev)
    <2>1. r.queue # <<>>
      BY <1>1, <1>4
    <2>2. /\ Tail(r.queue) \in Seq(Event)
          /\ Len(Tail(r.queue)) = Len(r.queue) - 1
      BY <1>1, <2>1
    <2>3. q \in Seq(Event) /\ Len(q) <= Capacity
      BY <1>1, <1>4, <2>2
    <2>4. x = [r EXCEPT !.queue = q, !.lost = TRUE]
      BY <1>4 DEF Put
    <2> HIDE DEF q, x
    <2>5. /\ SubOK(x)
          /\ x.queue = q /\ x.lost = TRUE
          /\ x.task = r.task /\ x.phase = r.phase /\ x.closed = r.closed
          /\ x.seen = r.seen /\ x.fin = r.fin
      BY <1>2, <2>3, <2>4
    <2> QED
      BY <2>1, <2>5 DEF q, x
  <1> QED
    BY <1>3, <1>4

-----------------------------------------------------------------------------
(* The promises of one stream, given the revision n of its task.           *)
SubInv(r, n) ==
    /\ SubOK(r)
    /\ r.phase = "streaming" =>
          /\ ~r.lost => NoGap(r) /\ CaughtUp(r, n)
          /\ r.closed => Ends(r)

(* What an appended event does to a queue.                                 *)
LEMMA AppendNoGap ==
    ASSUME NEW r, NEW x, NEW ev \in Event,
           r.queue \in Seq(Event), r.seen \in Nat,
           x.queue = Append(r.queue, ev), x.seen = r.seen, NoGap(r),
           \/ ev = Closed
           \/ \E i \in DOMAIN r.queue : r.queue[i] = Closed
           \/ ev.rev = r.seen + Len(r.queue) + 1
    PROVE  NoGap(x)
  <1> DEFINE q == Append(r.queue, ev)
  <1>1. /\ DOMAIN q = 1..(Len(r.queue) + 1) /\ DOMAIN r.queue = 1..Len(r.queue)
        /\ Len(r.queue) \in Nat
        /\ q[Len(r.queue) + 1] = ev
        /\ \A i \in 1..Len(r.queue) : q[i] = r.queue[i]
    OBVIOUS
  <1> HIDE DEF q
  <1>2. SUFFICES ASSUME NEW i \in 1..(Len(r.queue) + 1)
                 PROVE  q[i].rev = r.seen + i \/ \E j \in 1..i : q[j] = Closed
    BY <1>1 DEF NoGap, q
  <1>3. CASE i \in 1..Len(r.queue)
    <2>1. CASE r.queue[i].rev = r.seen + i
      BY <1>1, <1>3, <2>1
    <2>2. ASSUME NEW j \in 1..i, r.queue[j] = Closed
          PROVE  q[j] = Closed
      BY <1>1, <1>3, <2>2
    <2> QED
      BY <1>1, <1>3, <2>1, <2>2 DEF NoGap
  <1>4. CASE i = Len(r.queue) + 1
    <2>1. CASE ev = Closed
      BY <1>1, <1>4, <2>1
    <2>2. ASSUME NEW j \in DOMAIN r.queue, r.queue[j] = Closed
          PROVE  j \in 1..i /\ q[j] = Closed
      BY <1>1, <1>4, <2>2
    <2>3. CASE ev.rev = r.seen + Len(r.queue) + 1
      BY <1>1, <1>4, <2>3
    <2> QED
      BY <2>1, <2>2, <2>3
  <1> QED
    BY <1>1, <1>3, <1>4

(* Broadcasting the next revision keeps them.                              *)
LEMMA PutInv ==
    ASSUME StoreAssumption, NEW r, NEW n \in Nat, NEW b \in BOOLEAN,
           SubInv(r, n), ~r.closed,
           NEW ev, ev = [rev |-> n + 1, final |-> b]
    PROVE  SubInv(Put(r, ev), n + 1) /\ (b => Ends(Put(r, ev)))
  <1> DEFINE x == Put(r, ev)
  <1>1. ev \in Event /\ ev.rev = n + 1 /\ ev.final = b /\ ev # Closed
    BY DEF Event, Closed
  <1>2. /\ SubOK(x)
        /\ x.phase = r.phase /\ x.closed = r.closed /\ x.seen = r.seen /\ x.fin = r.fin
        /\ \/ x.queue = Append(r.queue, ev) /\ x.lost = r.lost
           \/ r.queue # <<>> /\ x.queue = Append(Tail(r.queue), ev) /\ x.lost
    BY <1>1, PutOK DEF SubInv
  <1>3. r.queue \in Seq(Event) /\ r.seen \in Nat
    BY DEF SubInv, SubOK, Subscription
  <1> HIDE DEF x
  <1>4. b => Ends(x)
    <2>1. \E i \in DOMAIN x.queue : x.queue[i] = ev
      <3>1. CASE x.queue = Append(r.queue, ev)
        BY <1>1, <1>3, <3>1
      <3>2. CASE r.queue # <<>> /\ x.queue = Append(Tail(r.queue), ev)
        <4>1. Tail(r.queue) \in Seq(Event)
          BY <1>3, <3>2
        <4> QED
          BY <1>1, <3>2, <4>1
      <3> QED
        BY <1>2, <3>1, <3>2
    <2> QED
      BY <1>1, <2>1 DEF Ends
  <1>5. ASSUME x.phase = "streaming", ~x.lost
        PROVE  NoGap(x) /\ CaughtUp(x, n + 1)
    <2>1. /\ x.queue = Append(r.queue, ev) /\ ~r.lost
          /\ NoGap(r) /\ CaughtUp(r, n)
      BY <1>2, <1>5 DEF SubInv
    <2>2. CASE \E i \in DOMAIN r.queue : r.queue[i] = Closed
      <3>1. NoGap(x)
        BY <1>1, <1>2, <1>3, <2>1, <2>2, AppendNoGap
      <3>2. PICK i \in DOMAIN r.queue : r.queue[i] = Closed
        BY <2>2
      <3>3. i \in DOMAIN x.queue /\ x.queue[i] = Closed
        BY <1>1, <1>3, <2>1, <3>2
      <3> QED
        BY <3>1, <3>3 DEF CaughtUp
    <2>3. CASE r.seen + Len(r.queue) = n
      <3>1. NoGap(x)
        BY <1>1, <1>2, <1>3, <2>1, <2>3, AppendNoGap
      <3>2. x.seen + Len(x.queue) = n + 1
        BY <1>1, <1>2, <1>3, <2>1, <2>3
      <3> QED
        BY <3>1, <3>2 DEF CaughtUp
    <2> QED
      BY <2>1, <2>2, <2>3 DEF CaughtUp
  <1> QED
    BY <1>2, <1>4, <1>5 DEF SubInv, x

(* So does the end marker, after the final event.                          *)
LEMMA MarkInv ==
    ASSUME StoreAssumption, NEW r, NEW n \in Nat, SubInv(r, n), Ends(r)
    PROVE  /\ SubInv(Mark(r), n) /\ Ends(Mark(r))
           /\ Mark(r).task = r.task /\ Mark(r).phase = r.phase
  <1> DEFINE x == Mark(r)
  <1>1. /\ r \in Subscription /\ r.queue \in Seq(Event) /\ r.seen \in Nat
        /\ Capacity \in Nat /\ Len(r.queue) <= Capacity /\ Closed \in Event
    BY DEF SubInv, SubOK, Subscription, StoreAssumption, Closed, Event
  <1>2. CASE Len(r.queue) < Capacity
    <2>1. x = [r EXCEPT !.queue = Append(r.queue, Closed)]
      BY <1>2 DEF Mark
    <2> HIDE DEF x
    <2> DEFINE q == Append(r.queue, Closed)
    <2>2. /\ q \in Seq(Event) /\ Len(q) <= Capacity
          /\ \A i \in DOMAIN r.queue : i \in DOMAIN q /\ q[i] = r.queue[i]
          /\ DOMAIN q = DOMAIN r.queue \cup {Len(q)} /\ Len(q) \in Nat /\ Len(q) # 0 /\ q[Len(q)] = Closed
      BY <1>1, <1>2
    <2> HIDE DEF q
    <2>3. /\ x \in Subscription /\ x.queue = q /\ x.task = r.task /\ x.phase = r.phase
          /\ x.closed = r.closed /\ x.seen = r.seen /\ x.fin = r.fin /\ x.lost = r.lost
      BY <1>1, <2>1, <2>2 DEF Subscription, q
    <2>4. SubOK(x) /\ Ends(x)
      BY <2>2, <2>3 DEF SubInv, SubOK, Ends
    <2>5. ASSUME x.phase = "streaming", ~x.lost
          PROVE  NoGap(x) /\ CaughtUp(x, n)
      <3>1. NoGap(r)
        BY <2>3, <2>5 DEF SubInv
      <3>2. x.queue = Append(r.queue, Closed)
        BY <2>3 DEF q
      <3> QED
        BY <1>1, <2>2, <2>3, <3>1, <3>2, AppendNoGap DEF CaughtUp
    <2> QED
      BY <2>3, <2>4, <2>5 DEF SubInv, x
  <1>3. CASE ~(Len(r.queue) < Capacity)
    <2>1. x = [r EXCEPT !.closed = TRUE]
      BY <1>3 DEF Mark
    <2> HIDE DEF x
    <2>2. /\ x \in Subscription /\ x.queue = r.queue /\ x.task = r.task /\ x.phase = r.phase
          /\ x.closed = TRUE /\ x.seen = r.seen /\ x.fin = r.fin /\ x.lost = r.lost
      BY <1>1, <2>1 DEF Subscription
    <2> QED
      BY <2>2 DEF SubInv, SubOK, Ends, NoGap, CaughtUp, x
  <1> QED
    BY <1>2, <1>3

(* The consumer takes the event at the head of its queue.                  *)
LEMMA ShownInv ==
    ASSUME StoreAssumption, NEW r, NEW n \in Nat, SubInv(r, n),
           r.phase = "streaming", ~r.fin, r.queue # <<>>, Head(r.queue) # Closed
    PROVE  /\ SubInv(Shown(r), n)
           /\ Shown(r).task = r.task /\ Shown(r).phase = r.phase
           /\ Ends(r) => Ends(Shown(r))
           /\ ~r.lost => Shown(r).seen = r.seen + 1
  <1> DEFINE x == Shown(r)  q == Tail(r.queue)
  <1>1. /\ r \in Subscription /\ r.queue \in Seq(Event) /\ r.seen \in Nat
        /\ Capacity \in Nat /\ Len(r.queue) <= Capacity
    BY DEF SubInv, SubOK, Subscription, StoreAssumption
  <1>2. /\ q \in Seq(Event) /\ Len(q) = Len(r.queue) - 1
        /\ Head(r.queue) \in Event /\ Head(r.queue) = r.queue[1]
        /\ 1 \in DOMAIN r.queue
        /\ DOMAIN q = 1..Len(q) /\ DOMAIN r.queue = 1..Len(r.queue) /\ Len(r.queue) \in Nat
        /\ \A i \in DOMAIN q : i + 1 \in DOMAIN r.queue /\ q[i] = r.queue[i + 1]
        /\ \A i \in DOMAIN r.queue : i # 1 => i - 1 \in DOMAIN q /\ q[i - 1] = r.queue[i]
    <2>1. q \in Seq(Event) /\ Len(q) = Len(r.queue) - 1
      BY <1>1
    <2>2. /\ Head(r.queue) \in Event /\ Head(r.queue) = r.queue[1]
          /\ 1 \in DOMAIN r.queue
      BY <1>1
    <2>3. DOMAIN q = 1..Len(q) /\ DOMAIN r.queue = 1..Len(r.queue) /\ Len(r.queue) \in Nat
      BY <1>1, <2>1
    <2>4. \A i \in DOMAIN q : i + 1 \in DOMAIN r.queue /\ q[i] = r.queue[i + 1]
      BY <1>1, <2>1, <2>3
    <2>5. ASSUME NEW i \in DOMAIN r.queue, i # 1
          PROVE  i - 1 \in DOMAIN q /\ q[i - 1] = r.queue[i]
      <3>1. i - 1 \in DOMAIN q /\ (i - 1) + 1 = i
        BY <2>1, <2>3, <2>5
      <3> QED
        BY <2>4, <3>1
    <2> QED
      BY <2>1, <2>2, <2>3, <2>4, <2>5
  <1>3. x = [[[r EXCEPT !.queue = q] EXCEPT !.seen = r.queue[1].rev] EXCEPT !.fin = r.queue[1].final]
    BY <1>2 DEF Shown
  <1> HIDE DEF x, q
  <1>4. /\ x \in Subscription /\ x.queue = q /\ x.task = r.task /\ x.phase = r.phase
        /\ x.closed = r.closed /\ x.lost = r.lost
        /\ x.seen = r.queue[1].rev /\ x.fin = r.queue[1].final
    BY <1>1, <1>2, <1>3 DEF Subscription, Event
  <1>5. SubOK(x)
    BY <1>1, <1>2, <1>4 DEF SubInv, SubOK
  <1>6. Ends(r) => Ends(x)
    <2>1. SUFFICES ASSUME NEW i \in DOMAIN r.queue, r.queue[i].final \/ r.queue[i] = Closed
                   PROVE  Ends(x)
      BY DEF Ends
    <2>2. CASE i = 1
      BY <1>2, <1>4, <2>1, <2>2 DEF Ends
    <2>3. CASE i # 1
      BY <1>2, <1>4, <2>1, <2>3 DEF Ends
    <2> QED
      BY <2>2, <2>3
  <1>7. ASSUME ~r.lost
        PROVE  x.seen = r.seen + 1 /\ NoGap(x) /\ CaughtUp(x, n)
    <2>1. NoGap(r) /\ CaughtUp(r, n)
      BY <1>7 DEF SubInv
    <2>2. x.seen = r.seen + 1
      BY <1>1, <1>2, <1>4, <2>1 DEF NoGap
    <2>3. NoGap(x)
      <3>1. SUFFICES ASSUME NEW i \in DOMAIN q
                     PROVE  q[i].rev = x.seen + i \/ \E j \in 1..i : q[j] = Closed
        BY <1>4 DEF NoGap
      <3>2. i \in Nat /\ i >= 1
        BY <1>2
      <3>3. CASE r.queue[i + 1].rev = r.seen + (i + 1)
        <4>1. q[i] = r.queue[i + 1] /\ r.seen \in Nat
          BY <1>1, <1>2
        <4>2. x.seen + i = r.seen + (i + 1)
          BY <2>2, <3>2, <4>1
        <4> QED
          BY <3>3, <4>1, <4>2
      <3>4. ASSUME NEW j \in 1..(i + 1), r.queue[j] = Closed
            PROVE  \E k \in 1..i : q[k] = Closed
        <4>1. j # 1 /\ j - 1 \in 1..i /\ j - 1 \in DOMAIN q
          BY <1>1, <1>2, <3>2, <3>4
        <4>2. q[j - 1] = Closed
          BY <1>2, <3>4, <4>1
        <4> QED
          BY <4>1, <4>2
      <3> QED
        BY <1>2, <2>1, <3>3, <3>4 DEF NoGap
    <2>4. CaughtUp(x, n)
      <3>1. CASE r.closed
        BY <1>4, <3>1 DEF CaughtUp
      <3>2. ASSUME NEW i \in DOMAIN r.queue, r.queue[i] = Closed
            PROVE  CaughtUp(x, n)
        BY <1>2, <1>4, <3>2 DEF CaughtUp
      <3>3. CASE r.seen + Len(r.queue) = n
        <4>1. x.seen + Len(x.queue) = n
          <5>1. r.seen \in Nat /\ Len(r.queue) \in Nat /\ Len(x.queue) = Len(r.queue) - 1
            BY <1>1, <1>2, <1>4
          <5> QED
            BY <2>2, <3>3, <5>1
        <4> QED
          BY <4>1 DEF CaughtUp
      <3> QED
        BY <2>1, <3>1, <3>2, <3>3 DEF CaughtUp
    <2> QED
      BY <2>2, <2>3, <2>4
  <1> QED
    BY <1>4, <1>5, <1>6, <1>7 DEF SubInv, x

-----------------------------------------------------------------------------
(* The whole store.  Its invariant is the table's and every stream's.      *)
StoreInv(st) == StoreOK(st) /\ GapFree(st) /\ ClosedEnds(st)

TableOK(dict, task) ==
    /\ dict \in Seq(Tasks) /\ Len(dict) <= MaxTasks
    /\ \A i, j \in DOMAIN dict : dict[i] = dict[j] => i = j
    /\ task \in [Tasks -> TaskValue]
    /\ \A i \in DOMAIN dict : task[dict[i]].state # "ABSENT"

RevSeen(task, r) == task[r.task].rev

LEMMA StoreSplit ==
    ASSUME NEW st, StoreInv(st)
    PROVE  /\ st = [dict |-> st.dict, task |-> st.task, sub |-> st.sub]
           /\ TableOK(st.dict, st.task)
           /\ st.sub \in [Subs -> Subscription]
           /\ \A s \in Subs : SubInv(st.sub[s], RevSeen(st.task, st.sub[s]))
  <1>1. st \in StoreValue
    BY DEF StoreInv, StoreOK
  <1>2. /\ st = [dict |-> st.dict, task |-> st.task, sub |-> st.sub]
        /\ st.dict \in Seq(Tasks) /\ st.task \in [Tasks -> TaskValue]
        /\ st.sub \in [Subs -> Subscription]
    BY <1>1 DEF StoreValue
  <1>3. TableOK(st.dict, st.task)
    <2>1. \A i \in DOMAIN st.dict : st.dict[i] \in Live(st) /\ st.dict[i] \in Tasks
      BY <1>2 DEF Live
    <2> QED
      BY <1>2, <2>1 DEF StoreInv, StoreOK, TableOK
  <1>4. ASSUME NEW s \in Subs
        PROVE  SubInv(st.sub[s], RevSeen(st.task, st.sub[s]))
    BY StoreOKSub DEF StoreInv, GapFree, ClosedEnds, SubInv, RevSeen, Streaming
  <1> QED
    BY <1>2, <1>3, <1>4

LEMMA StoreJoin ==
    ASSUME NEW dict, NEW task, NEW sub, TableOK(dict, task),
           sub \in [Subs -> Subscription],
           \A s \in Subs : SubInv(sub[s], RevSeen(task, sub[s])),
           NEW st, st = [dict |-> dict, task |-> task, sub |-> sub]
    PROVE  StoreInv(st)
  <1>1. /\ st.dict = dict /\ st.task = task /\ st.sub = sub
        /\ st \in StoreValue
    BY DEF TableOK, StoreValue
  <1>2. \A t \in Tasks : t \in Live(st) => st.task[t].state # "ABSENT"
    BY <1>1 DEF TableOK, Live
  <1>3. StoreOK(st)
    BY <1>1, <1>2 DEF StoreOK, TableOK, SubInv, SubOK, Streaming
  <1>4. GapFree(st) /\ ClosedEnds(st)
    BY <1>1 DEF GapFree, ClosedEnds, SubInv, RevSeen, Streaming
  <1> QED
    BY <1>3, <1>4 DEF StoreInv

(* A revision of t that is announced to its followers.                     *)
LEMMA BroadcastInv ==
    ASSUME StoreAssumption, NEW st, StoreInv(st), NEW t \in Tasks, NEW b \in BOOLEAN,
           NEW v \in TaskValue, v.rev = st.task[t].rev + 1
    PROVE  LET told == Broadcast(st.sub, t, [rev |-> st.task[t].rev + 1, final |-> b])
               task == [st.task EXCEPT ![t] = v]
           IN /\ task \in [Tasks -> TaskValue]
              /\ told \in [Subs -> Subscription]
              /\ \A s \in Subs :
                    /\ SubInv(told[s], RevSeen(task, told[s]))
                    /\ told[s].task = st.sub[s].task /\ told[s].phase = st.sub[s].phase
                    /\ ~Follows(st.sub[s], t) => told[s] = st.sub[s]
                    /\ b /\ Follows(st.sub[s], t) => Ends(told[s])
  <1> DEFINE ev == [rev |-> st.task[t].rev + 1, final |-> b]
             told == Broadcast(st.sub, t, ev)
             task == [st.task EXCEPT ![t] = v]
  <1>0. /\ ev = [rev |-> st.task[t].rev + 1, final |-> b]
        /\ told = Broadcast(st.sub, t, ev) /\ task = [st.task EXCEPT ![t] = v]
    OBVIOUS
  <1> HIDE DEF ev, told, task
  <1>1. /\ TableOK(st.dict, st.task) /\ st.sub \in [Subs -> Subscription]
        /\ \A s \in Subs : SubInv(st.sub[s], RevSeen(st.task, st.sub[s]))
    BY StoreSplit
  <1>2. task \in [Tasks -> TaskValue] /\ st.task[t].rev \in Nat /\ ev \in Event
    BY <1>0, <1>1 DEF TableOK, TaskValue, Event
  <1>3. ASSUME NEW s \in Subs
        PROVE  /\ told[s] \in Subscription
               /\ SubInv(told[s], RevSeen(task, told[s]))
               /\ told[s].task = st.sub[s].task /\ told[s].phase = st.sub[s].phase
               /\ told[s].fin = st.sub[s].fin /\ told[s].seen = st.sub[s].seen
               /\ ~Follows(st.sub[s], t) => told[s] = st.sub[s]
               /\ b /\ Follows(st.sub[s], t) => Ends(told[s])
    <2> DEFINE r == st.sub[s]
    <2>1. /\ r \in Subscription /\ SubOK(r) /\ SubInv(r, RevSeen(st.task, r))
      BY <1>1 DEF SubInv
    <2>2. CASE Follows(r, t) /\ ~r.closed
      <3>1. told[s] = Put(r, ev)
        BY <1>0, <2>2 DEF Broadcast
      <3>2. RevSeen(st.task, r) = st.task[t].rev
        BY <2>2 DEF Follows, RevSeen
      <3>3. SubInv(Put(r, ev), st.task[t].rev + 1) /\ (b => Ends(Put(r, ev)))
        BY <1>0, <1>2, <2>1, <2>2, <3>2, PutInv
      <3>4. /\ Put(r, ev).task = r.task /\ Put(r, ev).phase = r.phase
            /\ Put(r, ev).fin = r.fin /\ Put(r, ev).seen = r.seen
        BY <1>2, <2>1, PutOK
      <3>5. RevSeen(task, Put(r, ev)) = st.task[t].rev + 1
        BY <1>0, <1>1, <2>2, <3>4 DEF Follows, RevSeen, TableOK
      <3>6. Put(r, ev) \in Subscription
        BY <3>3 DEF SubInv, SubOK
      <3> QED
        BY <2>2, <3>1, <3>3, <3>4, <3>5, <3>6
    <2>3. CASE ~(Follows(r, t) /\ ~r.closed)
      <3>1. told[s] = r
        BY <1>0, <2>3 DEF Broadcast
      <3>2. SubInv(r, RevSeen(task, r))
        <4>1. CASE r.phase # "streaming" \/ r.closed
          BY <2>1, <4>1 DEF SubInv, CaughtUp
        <4>2. CASE r.phase = "streaming" /\ r.task # t
          <5>1. RevSeen(task, r) = RevSeen(st.task, r)
            BY <1>0, <1>1, <2>1, <4>2 DEF RevSeen, TableOK, SubOK
          <5> QED
            BY <2>1, <5>1
        <4> QED
          BY <2>3, <4>1, <4>2 DEF Follows
      <3>3. b /\ Follows(r, t) => Ends(r)
        BY <2>1, <2>3 DEF Follows, SubInv
      <3> QED
        BY <2>1, <3>1, <3>2, <3>3
    <2> QED
      BY <2>2, <2>3
  <1>4. told = [s \in Subs |-> told[s]]
    BY <1>0 DEF Broadcast
  <1> QED
    BY <1>0, <1>2, <1>3, <1>4 DEF ev, told, task

-----------------------------------------------------------------------------
(* Eviction.                                                               *)

(* The initial segments of a set of naturals are finite sets, and these are *)
(* well-founded under inclusion.                                           *)
LEMMA LeastNatural ==
    ASSUME NEW T, T \subseteq Nat, T # {}
    PROVE  \E x \in T : \A y \in T : x <= y
  <1> DEFINE R == StrictSubsetOrdering(Nat)
             W == {1..n : n \in T}
  <1>1. IsWellFoundedOn(R, FiniteSubsetsOf(Nat))
    BY FS_StrictSubsetOrderingWellFounded
  <1>2. W \subseteq FiniteSubsetsOf(Nat) /\ W # {}
    <2>1. ASSUME NEW n \in T
          PROVE  1..n \in SUBSET Nat /\ IsFiniteSet(1..n)
      <3>1. 1 \in Int /\ n \in Int
        OBVIOUS
      <3> QED
        BY <3>1, FS_Interval
    <2> QED
      BY <2>1 DEF FiniteSubsetsOf
  <1>3. PICK w \in W : \A v \in W : ~ (<<v, w>> \in R)
    <2> HIDE DEF R, W
    <2> QED
      BY <1>1, <1>2, WFMin
  <1>4. PICK x \in T : w = 1..x
    OBVIOUS
  <1>5. ASSUME NEW y \in T, y < x
        PROVE  FALSE
    <2>1. 1..y \in SUBSET Nat /\ 1..x \in SUBSET Nat
      OBVIOUS
    <2>2. 1..y \subseteq 1..x /\ x \in 1..x /\ x \notin 1..y
      BY <1>5
    <2>3. <<1..y, 1..x>> \in R
      BY <2>1, <2>2 DEF StrictSubsetOrdering
    <2> QED
      BY <1>3, <1>4, <2>3
  <1> QED
    BY <1>5

(* min() finds a task in a table that is not empty.                        *)
LEMMA OldestInTable ==
    ASSUME NEW st, TableOK(st.dict, st.task), st.dict # <<>>
    PROVE  Oldest(st) \in DOMAIN st.dict
  <1> DEFINE stamp(i) == st.task[st.dict[i]].stamp
             before(i, j) == stamp(i) < stamp(j) \/ (stamp(i) = stamp(j) /\ i <= j)
             T == {stamp(i) : i \in DOMAIN st.dict}
  <1>1. /\ DOMAIN st.dict = 1..Len(st.dict) /\ Len(st.dict) \in Nat
        /\ Len(st.dict) # 0
        /\ \A i \in DOMAIN st.dict : stamp(i) \in Nat
    BY DEF TableOK, TaskValue
  <1>2. PICK m \in T : \A y \in T : m <= y
    <2>1. T \subseteq Nat
      BY <1>1
    <2>2. 1 \in DOMAIN st.dict
      BY <1>1
    <2>3. stamp(1) \in T
      BY <2>2
    <2> HIDE DEF T
    <2> QED
      BY <2>1, <2>3, LeastNatural
  <1> DEFINE I == {i \in DOMAIN st.dict : stamp(i) = m}
  <1>3. PICK i \in I : \A j \in I : i <= j
    <2>1. I \subseteq Nat /\ I # {}
      BY <1>1, <1>2
    <2> HIDE DEF I
    <2> QED
      BY <2>1, LeastNatural
  <1>4. \A j \in DOMAIN st.dict : before(i, j)
    <2>1. SUFFICES ASSUME NEW j \in DOMAIN st.dict
                   PROVE  before(i, j)
      OBVIOUS
    <2>2. m \in Nat /\ stamp(i) = m /\ stamp(j) \in Nat /\ m <= stamp(j)
      BY <1>1, <1>2, <1>3
    <2>3. CASE stamp(j) = m
      BY <1>3, <2>2, <2>3
    <2> QED
      BY <2>2, <2>3
  <1>5. Oldest(st) = CHOOSE k \in DOMAIN st.dict : \A j \in DOMAIN st.dict : before(k, j)
    BY DEF Oldest
  <1> HIDE DEF before
  <1> QED
    BY <1>3, <1>4, <1>5

LEMMA RemoveAtOK ==
    ASSUME NEW S, NEW q \in Seq(S), NEW k \in DOMAIN q
    PROVE  /\ Seqs!RemoveAt(q, k) \in Seq(S)
           /\ Len(Seqs!RemoveAt(q, k)) = Len(q) - 1
           /\ \A i \in 1..(Len(q) - 1) :
                 Seqs!RemoveAt(q, k)[i] = IF i < k THEN q[i] ELSE q[i + 1]
  <1> DEFINE front == SubSeq(q, 1, k - 1)
             back == SubSeq(q, k + 1, Len(q))
  <1>1. Len(q) \in Nat /\ k \in 1..Len(q)
    OBVIOUS
  <1>2. /\ front \in Seq(S) /\ Len(front) = k - 1
        /\ \A i \in 1..(k - 1) : front[i] = q[i]
    <2>1. 1 \in Int /\ k - 1 \in Int /\ \A i \in 1..(k - 1) : q[i] \in S
      BY <1>1
    <2>2. /\ front \in Seq(S) /\ Len(front) = IF 1 <= k - 1 THEN (k - 1) - 1 + 1 ELSE 0
          /\ \A i \in 1..((k - 1) - 1 + 1) : front[i] = q[1 + i - 1]
      BY <2>1, SubSeqProperties
    <2> QED
      BY <1>1, <2>2
  <1>3. /\ back \in Seq(S) /\ Len(back) = Len(q) - k
        /\ \A i \in 1..(Len(q) - k) : back[i] = q[k + i]
    <2>1. k + 1 \in Int /\ Len(q) \in Int /\ \A i \in (k + 1)..Len(q) : q[i] \in S
      BY <1>1
    <2>2. /\ back \in Seq(S) /\ Len(back) = IF k + 1 <= Len(q) THEN Len(q) - (k + 1) + 1 ELSE 0
          /\ \A i \in 1..(Len(q) - (k + 1) + 1) : back[i] = q[(k + 1) + i - 1]
      BY <2>1, SubSeqProperties
    <2> QED
      BY <1>1, <2>2
  <1>4. Seqs!RemoveAt(q, k) = front \o back
    BY DEF Seqs!RemoveAt
  <1> HIDE DEF front, back
  <1>5. /\ front \o back \in Seq(S)
        /\ Len(front \o back) = Len(front) + Len(back)
        /\ \A i \in 1..(Len(front) + Len(back)) :
              (front \o back)[i] = IF i <= Len(front) THEN front[i] ELSE back[i - Len(front)]
    BY <1>2, <1>3, ConcatProperties
  <1>6. ASSUME NEW i \in 1..(Len(q) - 1)
        PROVE  (front \o back)[i] = IF i < k THEN q[i] ELSE q[i + 1]
    <2>1. (front \o back)[i] = IF i <= Len(front) THEN front[i] ELSE back[i - Len(front)]
      <3>1. i \in 1..(Len(front) + Len(back))
        BY <1>1, <1>2, <1>3
      <3> QED
        BY <1>5, <3>1
    <2>2. CASE i < k
      <3>1. i <= Len(front) /\ i \in 1..(k - 1)
        BY <1>1, <1>2, <2>2
      <3> QED
        BY <1>2, <2>1, <2>2, <3>1
    <2>3. CASE ~(i < k)
      <3>1. /\ ~(i <= Len(front)) /\ i - Len(front) \in 1..(Len(q) - k)
            /\ k + (i - Len(front)) = i + 1
        BY <1>1, <1>2, <2>3
      <3>2. back[i - Len(front)] = q[k + (i - Len(front))]
        BY <1>3, <3>1
      <3> QED
        BY <2>1, <2>3, <3>1, <3>2
    <2> QED
      BY <2>2, <2>3
  <1>7. Len(front \o back) = Len(q) - 1
    BY <1>1, <1>2, <1>3, <1>5
  <1> QED
    BY <1>4, <1>5, <1>6, <1>7

-----------------------------------------------------------------------------
(* The operations.                                                         *)

(* What stays put while an operation on t runs: the table, and the         *)
(* streams of the other tasks.                                             *)
Touches(st, x, t, task) ==
    /\ x.dict = st.dict
    /\ x.task = task
    /\ \A s \in Subs :
          /\ x.sub[s].task = st.sub[s].task /\ x.sub[s].phase = st.sub[s].phase
          /\ ~Follows(st.sub[s], t) => x.sub[s] = st.sub[s]

(* A status: and after a terminal one, every follower has its end.         *)
LEMMA RecordStatusInv ==
    ASSUME StoreAssumption, now \in Nat, NEW st, StoreInv(st), NEW t \in Tasks,
           NEW state \in Terminal \cup Active
    PROVE  LET x == RecordStatus(st, t, state)
           IN /\ StoreInv(x)
              /\ Touches(st, x, t,
                   [st.task EXCEPT ![t] = [state |-> state, stamp |-> now,
                                           rev |-> st.task[t].rev + 1]])
              /\ state \in Terminal =>
                    \A s \in Subs : Follows(st.sub[s], t) => Ends(x.sub[s])
  <1> DEFINE x == RecordStatus(st, t, state)
             b == state \in Terminal
             v == [state |-> state, stamp |-> now, rev |-> st.task[t].rev + 1]
             ev == [rev |-> st.task[t].rev + 1, final |-> b]
             told == Broadcast(st.sub, t, ev)
             task == [st.task EXCEPT ![t] = v]
             sub == IF b THEN CloseSubscribers(told, t) ELSE told
  <1>1. /\ st = [dict |-> st.dict, task |-> st.task, sub |-> st.sub]
        /\ TableOK(st.dict, st.task) /\ st.sub \in [Subs -> Subscription]
        /\ \A s \in Subs : SubInv(st.sub[s], RevSeen(st.task, st.sub[s]))
    BY StoreSplit
  <1>2. v \in TaskValue /\ v.rev = st.task[t].rev + 1 /\ b \in BOOLEAN
    BY <1>1 DEF TableOK, TaskValue
  <1>3. x = [dict |-> st.dict, task |-> task, sub |-> sub]
    <2>1. x = [st EXCEPT !.task = task, !.sub = sub]
      BY DEF RecordStatus
    <2> HIDE DEF x, task, sub
    <2> QED
      BY <1>1, <2>1
  <1>4. /\ task \in [Tasks -> TaskValue]
        /\ told \in [Subs -> Subscription]
        /\ \A s \in Subs :
              /\ SubInv(told[s], RevSeen(task, told[s]))
              /\ told[s].task = st.sub[s].task /\ told[s].phase = st.sub[s].phase
              /\ ~Follows(st.sub[s], t) => told[s] = st.sub[s]
              /\ b /\ Follows(st.sub[s], t) => Ends(told[s])
    <2> HIDE DEF v, b, x, sub
    <2> QED
      BY <1>2, BroadcastInv
  <1> HIDE DEF told, v
  <1>5. ASSUME NEW s \in Subs
        PROVE  /\ sub[s] \in Subscription
               /\ SubInv(sub[s], RevSeen(task, sub[s]))
               /\ sub[s].task = st.sub[s].task /\ sub[s].phase = st.sub[s].phase
               /\ ~Follows(st.sub[s], t) => sub[s] = st.sub[s]
               /\ b /\ Follows(st.sub[s], t) => Ends(sub[s])
    <2>1. Follows(told[s], t) <=> Follows(st.sub[s], t)
      BY <1>4 DEF Follows
    <2>2. CASE b /\ Follows(st.sub[s], t)
      <3>1. sub[s] = Mark(told[s])
        BY <2>1, <2>2 DEF CloseSubscribers
      <3>2. RevSeen(task, told[s]) = task[t].rev /\ task[t].rev \in Nat
        BY <1>4, <2>2 DEF RevSeen, Follows, TaskValue
      <3>3. SubInv(told[s], task[t].rev) /\ Ends(told[s])
        BY <1>4, <2>2, <3>2
      <3> HIDE DEF task
      <3>4. /\ SubInv(Mark(told[s]), task[t].rev) /\ Ends(Mark(told[s]))
            /\ Mark(told[s]).task = told[s].task /\ Mark(told[s]).phase = told[s].phase
        BY <3>2, <3>3, MarkInv
      <3>5. RevSeen(task, Mark(told[s])) = task[t].rev /\ Mark(told[s]) \in Subscription
        BY <3>2, <3>4 DEF RevSeen, SubInv, SubOK
      <3> HIDE DEF sub
      <3> QED
        BY <1>4, <2>2, <3>1, <3>4, <3>5
    <2>3. CASE ~(b /\ Follows(st.sub[s], t))
      <3>1. sub[s] = told[s]
        BY <2>1, <2>3 DEF CloseSubscribers
      <3> HIDE DEF sub, task
      <3> QED
        BY <1>4, <2>3, <3>1
    <2> QED
      BY <2>2, <2>3
  <1>6. sub \in [Subs -> Subscription]
    <2>1. sub = [s \in Subs |-> sub[s]]
      BY <1>4 DEF CloseSubscribers
    <2> HIDE DEF sub
    <2> QED
      BY <1>5, <2>1
  <1>7. TableOK(st.dict, task)
    <2>1. \A i \in DOMAIN st.dict : task[st.dict[i]].state # "ABSENT"
      <3>1. \A i \in DOMAIN st.dict : st.dict[i] \in Tasks
        BY <1>1 DEF TableOK
      <3> QED
        BY <1>1, <3>1 DEF TableOK, v, Terminal, Active
    <2> QED
      BY <1>1, <1>4, <2>1 DEF TableOK
  <1> HIDE DEF sub, task, x, b
  <1>8. StoreInv(x)
    BY <1>3, <1>5, <1>6, <1>7, StoreJoin
  <1>9. x.dict = st.dict /\ x.task = task /\ x.sub = sub
    BY <1>3
  <1> QED
    BY <1>5, <1>8, <1>9 DEF Touches, x, task, b, v

(* Cancelling a task that is not terminal; a terminal one is left alone.   *)
LEMMA CancelTaskInv ==
    ASSUME StoreAssumption, now \in Nat, NEW st, StoreInv(st), NEW t \in Tasks
    PROVE  LET x == CancelTask(st, t)
           IN /\ StoreInv(x)
              /\ \/ StateOf(st, t) \in Terminal /\ x = st
                 \/ StateOf(st, t) \notin Terminal /\ x = RecordStatus(st, t, "CANCELED")
  <1>1. StoreInv(RecordStatus(st, t, "CANCELED"))
    BY RecordStatusInv DEF Terminal
  <1> QED
    BY <1>1 DEF CancelTask

(* A message or an artifact.                                               *)
LEMMA AppendDataInv ==
    ASSUME StoreAssumption, NEW st, StoreInv(st), NEW t \in Tasks
    PROVE  LET x == AppendData(st, t)
           IN /\ StoreInv(x)
              /\ Touches(st, x, t,
                   [st.task EXCEPT ![t] = [st.task[t] EXCEPT !.rev = @ + 1]])
  <1> DEFINE x == AppendData(st, t)
             b == FALSE
             v == [st.task[t] EXCEPT !.rev = @ + 1]
             ev == [rev |-> st.task[t].rev + 1, final |-> b]
             told == Broadcast(st.sub, t, ev)
             task == [st.task EXCEPT ![t] = v]
  <1>1. /\ st = [dict |-> st.dict, task |-> st.task, sub |-> st.sub]
        /\ TableOK(st.dict, st.task) /\ st.sub \in [Subs -> Subscription]
        /\ \A s \in Subs : SubInv(st.sub[s], RevSeen(st.task, st.sub[s]))
    BY StoreSplit
  <1>2. /\ v \in TaskValue /\ v.rev = st.task[t].rev + 1
        /\ v.state = st.task[t].state /\ b \in BOOLEAN
    <2> DEFINE r == st.task[t]
    <2>1. r \in TaskValue
      BY <1>1 DEF TableOK
    <2>2. v = [r EXCEPT !.rev = r.rev + 1]
      OBVIOUS
    <2> HIDE DEF r, v
    <2>3. v \in TaskValue /\ v.rev = r.rev + 1 /\ v.state = r.state
      BY <2>1, <2>2 DEF TaskValue
    <2> QED
      BY <2>3 DEF r
  <1>3. x = [dict |-> st.dict, task |-> task, sub |-> told]
    <2>1. x = [st EXCEPT !.task = task, !.sub = told]
      BY DEF AppendData
    <2> HIDE DEF x, task, told
    <2> QED
      BY <1>1, <2>1
  <1>4. /\ task \in [Tasks -> TaskValue]
        /\ told \in [Subs -> Subscription]
        /\ \A s \in Subs :
              /\ SubInv(told[s], RevSeen(task, told[s]))
              /\ told[s].task = st.sub[s].task /\ told[s].phase = st.sub[s].phase
              /\ ~Follows(st.sub[s], t) => told[s] = st.sub[s]
    <2> HIDE DEF v, x, b
    <2> QED
      BY <1>2, BroadcastInv
  <1> HIDE DEF told, v
  <1>5. TableOK(st.dict, task)
    BY <1>1, <1>2, <1>4 DEF TableOK
  <1> HIDE DEF task, x
  <1>6. StoreInv(x)
    BY <1>3, <1>4, <1>5, StoreJoin
  <1>7. x.dict = st.dict /\ x.task = task /\ x.sub = told
    BY <1>3
  <1> QED
    BY <1>4, <1>6, <1>7 DEF Touches, x, task, v

(* A new task in the place of the oldest one, if the table is full.  No    *)
(* stream follows it yet.                                                  *)
LEMMA CreateTaskInv ==
    ASSUME StoreAssumption, now \in Nat, NEW st, StoreInv(st), NEW t \in Tasks,
           st.task[t].state = "ABSENT", \A s \in Subs : ~Follows(st.sub[s], t)
    PROVE  LET x == CreateTask(st, t)
           IN /\ StoreInv(x)
              /\ x.task = [st.task EXCEPT ![t] = [state |-> "SUBMITTED",
                                                  stamp |-> now, rev |-> 0]]
              /\ x.sub = st.sub
              /\ t \in Live(x) /\ Live(x) \subseteq Live(st) \cup {t}
  <1> DEFINE x == CreateTask(st, t)
             kept == IF Len(st.dict) >= MaxTasks
                     THEN Seqs!RemoveAt(st.dict, Oldest(st)) ELSE st.dict
             dict == Append(kept, t)
             v == [state |-> "SUBMITTED", stamp |-> now, rev |-> 0]
             task == [st.task EXCEPT ![t] = v]
  <1>1. /\ st = [dict |-> st.dict, task |-> st.task, sub |-> st.sub]
        /\ TableOK(st.dict, st.task) /\ st.sub \in [Subs -> Subscription]
        /\ \A s \in Subs : SubInv(st.sub[s], RevSeen(st.task, st.sub[s]))
    BY StoreSplit
  <1>2. /\ st.dict \in Seq(Tasks) /\ Len(st.dict) <= MaxTasks /\ Len(st.dict) \in Nat
        /\ MaxTasks \in Nat /\ MaxTasks # 0
        /\ DOMAIN st.dict = 1..Len(st.dict)
        /\ \A i, j \in 1..Len(st.dict) : st.dict[i] = st.dict[j] => i = j
        /\ \A i \in 1..Len(st.dict) : st.dict[i] # t
    BY <1>1 DEF TableOK, StoreAssumption
  <1>3. x = [dict |-> dict, task |-> task, sub |-> st.sub]
    <2>1. x = [st EXCEPT !.dict = dict, !.task = task]
      BY DEF CreateTask
    <2> HIDE DEF x, task, dict
    <2> QED
      BY <1>1, <2>1
  <1>4. /\ kept \in Seq(Tasks) /\ Len(kept) \in Nat /\ Len(kept) < MaxTasks
        /\ Len(kept) <= Len(st.dict)
        /\ \A i \in 1..Len(kept) : \E k \in {i, i + 1} :
              /\ k \in 1..Len(st.dict) /\ kept[i] = st.dict[k]
        /\ \A i, j \in 1..Len(kept) : kept[i] = kept[j] => i = j
    <2>1. CASE Len(st.dict) >= MaxTasks
      <3> DEFINE k == Oldest(st)  q == Seqs!RemoveAt(st.dict, k)
      <3>1. st.dict # <<>>
        BY <1>2, <2>1
      <3>2. k \in DOMAIN st.dict
        BY <1>1, <3>1, OldestInTable
      <3> HIDE DEF k
      <3>3. /\ q \in Seq(Tasks) /\ Len(q) = Len(st.dict) - 1
            /\ \A i \in 1..(Len(st.dict) - 1) :
                  q[i] = IF i < k THEN st.dict[i] ELSE st.dict[i + 1]
        BY <1>2, <3>2, RemoveAtOK
      <3>4. kept = q
        BY <2>1 DEF k
      <3> HIDE DEF q, kept
      <3>5. Len(q) < MaxTasks /\ Len(q) <= Len(st.dict) /\ Len(q) \in Nat
        BY <1>2, <3>2, <3>3
      <3>6. ASSUME NEW i \in 1..Len(q)
            PROVE  /\ i \in 1..Len(st.dict) /\ i + 1 \in 1..Len(st.dict)
                   /\ q[i] = IF i < k THEN st.dict[i] ELSE st.dict[i + 1]
        BY <1>2, <3>3
      <3>7. ASSUME NEW i \in 1..Len(q), NEW j \in 1..Len(q), q[i] = q[j]
            PROVE  i = j
        <4> DEFINE a == IF i < k THEN i ELSE i + 1
                   b == IF j < k THEN j ELSE j + 1
        <4>1. /\ a \in 1..Len(st.dict) /\ q[i] = st.dict[a]
              /\ b \in 1..Len(st.dict) /\ q[j] = st.dict[b]
          BY <3>6
        <4>2. a = b
          BY <1>2, <3>7, <4>1
        <4> QED
          BY <1>2, <3>2, <4>2
      <3> QED
        BY <3>3, <3>4, <3>5, <3>6, <3>7
    <2>2. CASE ~(Len(st.dict) >= MaxTasks)
      <3>1. kept = st.dict
        BY <2>2
      <3> HIDE DEF kept
      <3> QED
        BY <1>2, <2>2, <3>1
    <2> QED
      BY <2>1, <2>2
  <1> HIDE DEF kept
  <1>5. /\ dict \in Seq(Tasks) /\ Len(dict) = Len(kept) + 1
        /\ DOMAIN dict = 1..(Len(kept) + 1)
        /\ dict[Len(kept) + 1] = t
        /\ \A i \in 1..Len(kept) : dict[i] = kept[i]
    BY <1>4
  <1> HIDE DEF dict
  <1>6. \A i \in 1..Len(kept) : kept[i] # t /\ \E k \in DOMAIN st.dict : kept[i] = st.dict[k]
    BY <1>2, <1>4
  <1>7. \A i, j \in DOMAIN dict : dict[i] = dict[j] => i = j
    BY <1>4, <1>5, <1>6
  <1>8. task \in [Tasks -> TaskValue] /\ v \in TaskValue
    BY <1>1 DEF TableOK, TaskValue, Active
  <1>9. TableOK(dict, task)
    <2>1. Len(dict) <= MaxTasks
      BY <1>2, <1>4, <1>5
    <2>2. ASSUME NEW i \in DOMAIN dict
          PROVE  task[dict[i]].state # "ABSENT"
      <3>1. CASE i = Len(kept) + 1
        BY <1>1, <1>5, <3>1 DEF TableOK
      <3>2. CASE i \in 1..Len(kept)
        <4>1. /\ dict[i] = kept[i] /\ dict[i] # t
              /\ \E k \in DOMAIN st.dict : dict[i] = st.dict[k]
          BY <1>5, <1>6, <3>2
        <4>2. dict[i] \in Tasks /\ st.task[dict[i]].state # "ABSENT"
          <5>1. PICK k \in DOMAIN st.dict : dict[i] = st.dict[k]
            BY <4>1
          <5>2. st.dict[k] \in Tasks
            BY <1>1, <5>1 DEF TableOK
          <5> QED
            BY <1>1, <5>1, <5>2 DEF TableOK
        <4> QED
          BY <1>1, <4>1, <4>2 DEF TableOK
      <3> QED
        BY <1>4, <1>5, <3>1, <3>2
    <2> HIDE DEF task
    <2> QED
      BY <1>5, <1>7, <1>8, <2>1, <2>2 DEF TableOK
  <1>10. ASSUME NEW s \in Subs
         PROVE  SubInv(st.sub[s], RevSeen(task, st.sub[s]))
    <2>1. CASE st.sub[s].phase = "streaming"
      <3>1. st.sub[s].task # t
        BY <2>1 DEF Follows
      <3>2. st.sub[s].task \in Tasks
        BY <1>1, <2>1 DEF SubInv, SubOK
      <3>3. RevSeen(task, st.sub[s]) = RevSeen(st.task, st.sub[s])
        BY <1>1, <3>1, <3>2 DEF RevSeen, TableOK
      <3> QED
        BY <1>1, <3>3
    <2>2. CASE st.sub[s].phase # "streaming"
      BY <1>1, <2>2 DEF SubInv
    <2> QED
      BY <2>1, <2>2
  <1> HIDE DEF task, x
  <1>11. StoreInv(x)
    BY <1>1, <1>3, <1>9, <1>10, StoreJoin
  <1>12. x.dict = dict /\ x.task = task /\ x.sub = st.sub
    BY <1>3
  <1>13. t \in Live(x) /\ Live(x) \subseteq Live(st) \cup {t}
    <2>1. Len(kept) + 1 \in DOMAIN dict
      BY <1>4, <1>5
    <2>2. \A i \in DOMAIN dict : i # Len(kept) + 1 => i \in 1..Len(kept)
      BY <1>4, <1>5
    <2> QED
      BY <1>5, <1>6, <1>12, <2>1, <2>2 DEF Live
  <1> QED
    BY <1>11, <1>12, <1>13 DEF x, task

(* TerminalEnds for the streams that do not follow t.                      *)
EndsBut(st, t) == \A s \in Subs :
    Streaming(st, s) /\ ~Follows(st.sub[s], t) /\ StateOf(st, st.sub[s].task) \in Terminal
        => Ends(st.sub[s])

(* Whatever was still to come, a terminal status leaves every follower of  *)
(* the task its end; any other status leaves nothing to end.               *)
LEMMA RecordStatusEnds ==
    ASSUME StoreAssumption, now \in Nat, NEW st, StoreInv(st), NEW t \in Tasks,
           NEW state \in Terminal \cup Active,
           EndsBut(st, t)
    PROVE  TerminalEnds(RecordStatus(st, t, state))
  <1> DEFINE x == RecordStatus(st, t, state)
             v == [state |-> state, stamp |-> now, rev |-> st.task[t].rev + 1]
  <1>1. /\ Touches(st, x, t, [st.task EXCEPT ![t] = v])
        /\ state \in Terminal => \A s \in Subs : Follows(st.sub[s], t) => Ends(x.sub[s])
    BY RecordStatusInv
  <1>2. st.task \in [Tasks -> TaskValue] /\ \A s \in Subs : SubOK(st.sub[s])
    BY StoreSplit DEF TableOK, SubInv
  <1> HIDE DEF x
  <1>3. SUFFICES ASSUME NEW s \in Subs, Streaming(x, s),
                        StateOf(x, x.sub[s].task) \in Terminal
                 PROVE  Ends(x.sub[s])
    BY DEF TerminalEnds, x
  <1>4. /\ Streaming(st, s) /\ st.sub[s].task = x.sub[s].task /\ st.sub[s].task \in Tasks
        /\ x.task = [st.task EXCEPT ![t] = v]
    BY <1>1, <1>2, <1>3 DEF Touches, Streaming, SubOK
  <1>5. CASE Follows(st.sub[s], t)
    <2>1. StateOf(x, t) = state /\ x.sub[s].task = t
      BY <1>2, <1>4, <1>5 DEF StateOf, Follows
    <2> QED
      BY <1>1, <1>3, <1>5, <2>1
  <1>6. CASE ~Follows(st.sub[s], t)
    <2>1. st.sub[s].task # t /\ x.sub[s] = st.sub[s]
      BY <1>1, <1>4, <1>6 DEF Follows, Streaming, Touches
    <2>2. StateOf(st, st.sub[s].task) \in Terminal
      BY <1>2, <1>3, <1>4, <2>1 DEF StateOf
    <2> QED
      BY <1>4, <1>6, <2>1, <2>2 DEF EndsBut
  <1> QED
    BY <1>5, <1>6

(* An update of t does not disturb the streams of the other tasks.         *)
LEMMA TouchesEnds ==
    ASSUME NEW st, NEW x, NEW t \in Tasks, NEW v, StoreInv(st), TerminalEnds(st),
           Touches(st, x, t, [st.task EXCEPT ![t] = v])
    PROVE  EndsBut(x, t)
  <1>1. st.task \in [Tasks -> TaskValue] /\ \A s \in Subs : SubOK(st.sub[s])
    BY StoreSplit DEF TableOK, SubInv
  <1>2. SUFFICES ASSUME NEW s \in Subs, Streaming(x, s), ~Follows(x.sub[s], t),
                        StateOf(x, x.sub[s].task) \in Terminal
                 PROVE  Ends(x.sub[s])
    BY DEF EndsBut
  <1>3. /\ ~Follows(st.sub[s], t) /\ x.sub[s] = st.sub[s] /\ Streaming(st, s)
        /\ x.task = [st.task EXCEPT ![t] = v]
    BY <1>2 DEF Touches, Follows, Streaming
  <1>4. st.sub[s].task # t /\ st.sub[s].task \in Tasks
    BY <1>1, <1>3 DEF Follows, Streaming, SubOK
  <1>5. StateOf(st, st.sub[s].task) \in Terminal
    BY <1>1, <1>2, <1>3, <1>4 DEF StateOf
  <1> QED
    BY <1>3, <1>5 DEF TerminalEnds

(* One stream changes and nothing else does.                               *)
LEMMA OneSubInv ==
    ASSUME NEW st, StoreInv(st), NEW s \in Subs, NEW r,
           SubInv(r, RevSeen(st.task, r))
    PROVE  LET x == [st EXCEPT !.sub[s] = r]
           IN /\ StoreInv(x)
              /\ x.dict = st.dict /\ x.task = st.task
              /\ x.sub = [st.sub EXCEPT ![s] = r]
  <1> DEFINE x == [st EXCEPT !.sub[s] = r]
             sub == [st.sub EXCEPT ![s] = r]
  <1>1. /\ st = [dict |-> st.dict, task |-> st.task, sub |-> st.sub]
        /\ TableOK(st.dict, st.task) /\ st.sub \in [Subs -> Subscription]
        /\ \A u \in Subs : SubInv(st.sub[u], RevSeen(st.task, st.sub[u]))
    BY StoreSplit
  <1>2. x = [dict |-> st.dict, task |-> st.task, sub |-> sub]
    <2>1. x = [st EXCEPT !.sub = sub]
      OBVIOUS
    <2> HIDE DEF x, sub
    <2> QED
      BY <1>1, <2>1
  <1>3. r \in Subscription
    BY DEF SubInv, SubOK
  <1>4. /\ sub \in [Subs -> Subscription]
        /\ \A u \in Subs : SubInv(sub[u], RevSeen(st.task, sub[u]))
    BY <1>1, <1>3
  <1> HIDE DEF x
  <1>5. StoreInv(x)
    <2> HIDE DEF sub
    <2> QED
      BY <1>1, <1>2, <1>4, StoreJoin
  <1>6. x.dict = st.dict /\ x.task = st.task /\ x.sub = sub
    <2> HIDE DEF sub
    <2> QED
      BY <1>2
  <1> QED
    BY <1>5, <1>6 DEF x, sub

(* Every step of a stream keeps the store's promises.                      *)
StreamStep(s) ==
    \/ \E t \in Tasks : Subscribe(s, t)
    \/ Return(s)
    \/ Deliver(s)
    \/ Disconnect(s)

StreamKeeps(s) ==
    /\ StoreInv(store')
    /\ store'.dict = store.dict /\ store'.task = store.task
    /\ now' = now
    /\ TerminalEnds(store) => TerminalEnds(store')
    /\ ~Streaming(store, s) /\ Streaming(store', s)
          => store'.sub[s].task \in Live(store)
    /\ Streaming(store, s) /\ Streaming(store', s)
          => store'.sub[s].task = store.sub[s].task
    /\ \A u \in Subs : u # s => store'.sub[u] = store.sub[u]

(* The stream becomes r.                                                   *)
Becomes(s, r) ==
    /\ store' = [store EXCEPT !.sub[s] = r] /\ now' = now
    /\ SubInv(r, RevSeen(store.task, r))
    /\ TerminalEnds(store) => r.phase # "streaming" \/ Ends(r)
                                \/ StateOf(store, r.task) \notin Terminal
    /\ r.phase = "streaming" /\ Streaming(store, s) => r.task = store.sub[s].task
    /\ r.phase = "streaming" /\ ~Streaming(store, s) => r.task \in Live(store)

LEMMA BecomesInv ==
    ASSUME StoreAssumption, StoreInv(store), NEW s \in Subs, NEW r, Becomes(s, r)
    PROVE  StreamKeeps(s)
  <1>1. store.sub \in [Subs -> Subscription]
    BY StoreSplit
  <1>2. /\ StoreInv(store')
        /\ store'.dict = store.dict /\ store'.task = store.task
        /\ store'.sub = [store.sub EXCEPT ![s] = r]
    BY OneSubInv DEF Becomes
  <1>3. /\ store'.sub[s] = r
        /\ \A u \in Subs : u # s => store'.sub[u] = store.sub[u]
    BY <1>1, <1>2
  <1>4. ASSUME TerminalEnds(store), NEW u \in Subs, Streaming(store', u),
               StateOf(store', store'.sub[u].task) \in Terminal
        PROVE  Ends(store'.sub[u])
    <2>1. CASE u = s
      BY <1>2, <1>3, <1>4, <2>1 DEF Streaming, StateOf, Becomes
    <2>2. CASE u # s
      BY <1>2, <1>3, <1>4, <2>2 DEF TerminalEnds, Streaming, StateOf
    <2> QED
      BY <2>1, <2>2
  <1>5. TerminalEnds(store) => TerminalEnds(store')
    BY <1>4 DEF TerminalEnds
  <1> QED
    BY <1>2, <1>3, <1>5 DEF Streaming, StreamKeeps, Becomes

LEMMA StreamStepInv ==
    ASSUME StoreAssumption, StoreInv(store), NEW s \in Subs, StreamStep(s)
    PROVE  StreamKeeps(s)
  <1>1. /\ TableOK(store.dict, store.task) /\ store.sub \in [Subs -> Subscription]
        /\ \A u \in Subs : SubInv(store.sub[u], RevSeen(store.task, store.sub[u]))
    BY StoreSplit
  <1>2. ASSUME NEW t \in Tasks, Subscribe(s, t)
        PROVE  StreamKeeps(s)
    <2> DEFINE b == store.task[t].state \in Terminal
               n == store.task[t].rev
               r == [NoSub EXCEPT !.task = t, !.phase = "streaming",
                                  !.seen = n, !.fin = b]
    <2>1. /\ store' = [store EXCEPT !.sub[s] = r] /\ now' = now
          /\ t \in Live(store) /\ ~Streaming(store, s)
      BY <1>2 DEF Subscribe, Attach, Streaming
    <2>2. store.task[t].rev \in Nat
      BY <1>1 DEF TableOK, TaskValue
    <2>3. /\ NoSub \in Subscription /\ NoSub.queue = <<>>
          /\ ~NoSub.closed /\ ~NoSub.lost
      BY DEF NoSub, Subscription
    <2>4. n \in Nat /\ b \in BOOLEAN
      BY <2>2
    <2>5. /\ r.task = t /\ r.phase = "streaming" /\ ~r.closed /\ ~r.lost
          /\ r.queue = <<>> /\ r.seen = n /\ r.fin = b
          /\ r \in Subscription
      <3>1. r = [NoSub EXCEPT !.task = t, !.phase = "streaming", !.seen = n, !.fin = b]
        OBVIOUS
      <3> HIDE DEF b, n, r
      <3> QED
        BY <2>3, <2>4, <3>1 DEF Subscription
    <2> HIDE DEF r
    <2>6. SubInv(r, RevSeen(store.task, r))
      <3>1. SubOK(r) /\ NoGap(r)
        BY <2>5 DEF SubOK, NoGap, StoreAssumption
      <3>2. CaughtUp(r, RevSeen(store.task, r))
        BY <2>2, <2>5 DEF CaughtUp, RevSeen
      <3> QED
        BY <2>5, <3>1, <3>2 DEF SubInv
    <2>7. Becomes(s, r)
      BY <2>1, <2>5, <2>6 DEF Becomes, Ends, StateOf
    <2> QED
      BY <2>7, BecomesInv
  <1>3. ASSUME NEW how \in {"returned", "left"}, store' = Detach(store, s, how), now' = now
        PROVE  StreamKeeps(s)
    <2> DEFINE r == [store.sub[s] EXCEPT !.phase = how, !.closed = TRUE]
    <2>1. store' = [store EXCEPT !.sub[s] = r]
      BY <1>3 DEF Detach
    <2>2. SubOK(r) /\ r.phase # "streaming"
      BY <1>1 DEF SubInv, SubOK, Subscription
    <2> HIDE DEF r
    <2>3. SubInv(r, RevSeen(store.task, r))
      BY <2>2 DEF SubInv
    <2>4. Becomes(s, r)
      BY <1>3, <2>1, <2>2, <2>3 DEF Becomes
    <2> QED
      BY <2>4, BecomesInv
  <1>4. ASSUME Deliver(s)
        PROVE  StreamKeeps(s)
    <2> DEFINE r == Shown(store.sub[s])
    <2>1. store' = [store EXCEPT !.sub[s] = r] /\ now' = now /\ Streaming(store, s)
      BY <1>4 DEF Deliver, Yield
    <2>2. RevSeen(store.task, store.sub[s]) \in Nat
      BY <1>1, <2>1 DEF RevSeen, SubInv, SubOK, TableOK, TaskValue, Streaming
    <2>3. /\ SubInv(r, RevSeen(store.task, store.sub[s]))
          /\ r.task = store.sub[s].task /\ r.phase = store.sub[s].phase
          /\ Ends(store.sub[s]) => Ends(r)
      BY <1>1, <1>4, <2>2, ShownInv DEF Deliver, Streaming
    <2> HIDE DEF r
    <2>4. RevSeen(store.task, r) = RevSeen(store.task, store.sub[s])
      BY <2>3 DEF RevSeen
    <2>5. Becomes(s, r)
      BY <2>1, <2>3, <2>4 DEF Becomes, TerminalEnds, StateOf
    <2> QED
      BY <2>5, BecomesInv
  <1> QED
    BY <1>2, <1>3, <1>4 DEF StreamStep, Return, Disconnect

-----------------------------------------------------------------------------
(* What a caller of the store needs to know of its writes.                 *)

(* A followed task was created.                                            *)
Followed(st) == \A s \in Subs :
    Streaming(st, s) => StateOf(st, st.sub[s].task) # "ABSENT"

(* From st to x, t was given a new state and no other task was touched.    *)
Written(st, x, t, state) ==
    /\ StoreInv(x)
    /\ Followed(st) => Followed(x)
    /\ x.dict = st.dict
    /\ \A s \in Subs : x.sub[s].task = st.sub[s].task /\ x.sub[s].phase = st.sub[s].phase
    /\ \A u \in Tasks : StateOf(x, u) = IF u = t THEN state ELSE StateOf(st, u)

LEMMA TouchesWritten ==
    ASSUME NEW st, StoreInv(st), NEW x, StoreInv(x), NEW t \in Tasks, NEW v,
           v.state # "ABSENT", Touches(st, x, t, [st.task EXCEPT ![t] = v])
    PROVE  Written(st, x, t, v.state)
  <1>1. st.task \in [Tasks -> TaskValue] /\ \A s \in Subs : SubOK(st.sub[s])
    BY StoreSplit DEF TableOK, SubInv
  <1>2. \A u \in Tasks : StateOf(x, u) = IF u = t THEN v.state ELSE StateOf(st, u)
    BY <1>1 DEF Touches, StateOf
  <1>3. Followed(st) => Followed(x)
    BY <1>1, <1>2 DEF Followed, Streaming, SubOK, Touches
  <1> QED
    BY <1>2, <1>3 DEF Written, Touches

LEMMA RecordWritten ==
    ASSUME StoreAssumption, now \in Nat, NEW st, StoreInv(st), NEW t \in Tasks,
           NEW state \in Terminal \cup Active
    PROVE  /\ Written(st, RecordStatus(st, t, state), t, state)
           /\ EndsBut(st, t) => TerminalEnds(RecordStatus(st, t, state))
  <1> DEFINE x == RecordStatus(st, t, state)
             v == [state |-> state, stamp |-> now, rev |-> st.task[t].rev + 1]
  <1>1. StoreInv(x) /\ Touches(st, x, t, [st.task EXCEPT ![t] = v])
    BY RecordStatusInv
  <1>2. v.state = state /\ state # "ABSENT"
    BY DEF Terminal, Active
  <1>3. Written(st, x, t, state)
    <2> HIDE DEF x, v
    <2> QED
      BY <1>1, <1>2, TouchesWritten
  <1>4. EndsBut(st, t) => TerminalEnds(x)
    BY RecordStatusEnds
  <1> QED
    BY <1>3, <1>4

LEMMA AppendWritten ==
    ASSUME StoreAssumption, NEW st, StoreInv(st), NEW t \in Tasks,
           StateOf(st, t) # "ABSENT"
    PROVE  /\ Written(st, AppendData(st, t), t, StateOf(st, t))
           /\ TerminalEnds(st) => EndsBut(AppendData(st, t), t)
  <1> DEFINE x == AppendData(st, t)
             v == [st.task[t] EXCEPT !.rev = @ + 1]
  <1>1. StoreInv(x) /\ Touches(st, x, t, [st.task EXCEPT ![t] = v])
    BY AppendDataInv
  <1>2. v.state = StateOf(st, t)
    <2>1. st.task[t] \in TaskValue
      BY StoreSplit DEF TableOK
    <2> QED
      BY <2>1 DEF StateOf, TaskValue
  <1> HIDE DEF x, v
  <1>3. Written(st, x, t, StateOf(st, t))
    BY <1>1, <1>2, TouchesWritten
  <1>4. TerminalEnds(st) => EndsBut(x, t)
    BY <1>1, TouchesEnds
  <1> QED
    BY <1>3, <1>4 DEF x

(* Two writes to the same task are one write of the last state.            *)
LEMMA WrittenTwice ==
    ASSUME NEW st, NEW x, NEW y, NEW t \in Tasks, NEW a, NEW b,
           Written(st, x, t, a), Written(x, y, t, b)
    PROVE  Written(st, y, t, b)
  BY DEF Written

LEMMA EndsWeaken ==
    ASSUME NEW st, NEW t, TerminalEnds(st)
    PROVE  EndsBut(st, t)
  BY DEF EndsBut, TerminalEnds

LEMMA LiveState ==
    ASSUME NEW st, StoreInv(st), NEW t \in Tasks, t \in Live(st)
    PROVE  StateOf(st, t) # "ABSENT"
  BY DEF StoreInv, StoreOK, StateOf

LEMMA LiveTasks ==
    ASSUME NEW st, StoreInv(st)
    PROVE  Live(st) \subseteq Tasks
  BY StoreSplit DEF TableOK, Live

LEMMA InitStoreInv ==
    ASSUME StoreAssumption, InitStore
    PROVE  StoreInv(store) /\ TerminalEnds(store) /\ Followed(store)
  <1>1. /\ store.dict = <<>> /\ store.task = [t \in Tasks |-> NoRecord]
        /\ store.sub = [s \in Subs |-> NoSub]
        /\ store = [dict |-> store.dict, task |-> store.task, sub |-> store.sub]
        /\ now = 0
    BY DEF InitStore
  <1>2. TableOK(store.dict, store.task)
    <2>1. NoRecord \in TaskValue
      BY DEF NoRecord, TaskValue
    <2>2. <<>> \in Seq(Tasks) /\ Len(<<>>) = 0 /\ DOMAIN <<>> = {}
      OBVIOUS
    <2> QED
      BY <1>1, <2>1, <2>2 DEF TableOK, StoreAssumption
  <1>3. /\ NoSub \in Subscription /\ Len(NoSub.queue) <= Capacity
        /\ NoSub.phase # "streaming"
    <2>1. <<>> \in Seq(Event) /\ Len(<<>>) = 0
      OBVIOUS
    <2>2. /\ NoSub.queue = <<>> /\ NoSub.phase = "new"
          /\ NoSub \in Subscription
      BY <2>1 DEF NoSub, Subscription
    <2> QED
      BY <2>1, <2>2 DEF StoreAssumption
  <1>4. /\ store.sub \in [Subs -> Subscription]
        /\ \A s \in Subs : SubInv(store.sub[s], RevSeen(store.task, store.sub[s]))
    BY <1>1, <1>3 DEF SubInv, SubOK
  <1>5. StoreInv(store)
    BY <1>1, <1>2, <1>4, StoreJoin
  <1>6. TerminalEnds(store) /\ Followed(store)
    BY <1>1, <1>3 DEF TerminalEnds, Followed, Streaming
  <1> QED
    BY <1>5, <1>6

(* A new task, and the table it is in.                                     *)
Created(st, x, t) ==
    /\ StateOf(x, t) = "SUBMITTED" /\ t \in Live(x)
    /\ Live(x) \subseteq Live(st) \cup {t}
    /\ \A u \in Tasks : u # t => StateOf(x, u) = StateOf(st, u)

LEMMA CreateTaskCreates ==
    ASSUME StoreAssumption, now \in Nat, NEW st, StoreInv(st), Followed(st),
           NEW t \in Tasks, StateOf(st, t) = "ABSENT"
    PROVE  LET x == CreateTask(st, t)
           IN /\ StoreInv(x) /\ Followed(x) /\ Created(st, x, t)
              /\ TerminalEnds(st) => TerminalEnds(x)
  <1> DEFINE x == CreateTask(st, t)
             v == [state |-> "SUBMITTED", stamp |-> now, rev |-> 0]
  <1>1. \A s \in Subs : ~Follows(st.sub[s], t)
    BY DEF Followed, Follows, Streaming
  <1>2. /\ StoreInv(x) /\ x.sub = st.sub
        /\ x.task = [st.task EXCEPT ![t] = v]
        /\ t \in Live(x) /\ Live(x) \subseteq Live(st) \cup {t}
    BY <1>1, CreateTaskInv DEF StateOf
  <1> HIDE DEF x
  <1>3. st.task \in [Tasks -> TaskValue] /\ \A s \in Subs : SubOK(st.sub[s])
    BY StoreSplit DEF TableOK, SubInv
  <1>4. /\ StateOf(x, t) = "SUBMITTED"
        /\ \A u \in Tasks : u # t => StateOf(x, u) = StateOf(st, u)
    BY <1>2, <1>3 DEF StateOf
  <1>5. "SUBMITTED" \notin Terminal
    BY DEF Terminal
  <1>6. Followed(x) /\ (TerminalEnds(st) => TerminalEnds(x))
    BY <1>2, <1>3, <1>4, <1>5 DEF TerminalEnds, Followed, Streaming, SubOK
  <1> QED
    BY <1>2, <1>4, <1>6 DEF Created, x

(* The table lists its tasks once each, so its length counts them.         *)
LEMMA TableCounts ==
    ASSUME NEW st, StoreInv(st)
    PROVE  Cardinality(Live(st)) = Len(st.dict)
  <1> DEFINE n == Len(st.dict)
  <1>1. /\ st.dict \in Seq(Tasks) /\ n \in Nat /\ DOMAIN st.dict = 1..n
        /\ \A i, j \in 1..n : st.dict[i] = st.dict[j] => i = j
    BY StoreSplit DEF TableOK
  <1>2. st.dict \in [1..n -> Live(st)]
    <2>1. \A i \in 1..n : st.dict[i] \in Live(st)
      BY <1>1 DEF Live
    <2> QED
      BY <1>1, <2>1
  <1>3. \A u \in Live(st) : \E i \in 1..n : st.dict[i] = u
    BY <1>1 DEF Live
  <1>4. st.dict \in Bijection(1..n, Live(st))
    BY <1>1, <1>2, <1>3 DEF Bijection, Injection, Surjection, IsInjective
  <1>5. ExistsBijection(1..n, Live(st))
    BY <1>4 DEF ExistsBijection
  <1> QED
    BY <1>1, <1>5, FS_CountingElements

(* A new task joins the table while there is room, and otherwise takes the *)
(* place of exactly one other.                                             *)
LEMMA CreateTaskEvicts ==
    ASSUME StoreAssumption, NEW st, StoreInv(st), NEW t \in Tasks, t \notin Live(st)
    PROVE  LET x == CreateTask(st, t)
           IN \/ /\ Cardinality(Live(st)) < MaxTasks
                 /\ Live(x) = Live(st) \cup {t}
              \/ /\ Cardinality(Live(st)) = MaxTasks
                 /\ \E victim \in Live(st) : Live(x) = (Live(st) \ {victim}) \cup {t}
  <1> DEFINE x == CreateTask(st, t)
             n == Len(st.dict)
             k == Oldest(st)
             q == Seqs!RemoveAt(st.dict, k)
             kept == IF n >= MaxTasks THEN q ELSE st.dict
  <1>1. /\ st = [dict |-> st.dict, task |-> st.task, sub |-> st.sub]
        /\ TableOK(st.dict, st.task)
        /\ st.dict \in Seq(Tasks) /\ n \in Nat /\ DOMAIN st.dict = 1..n
        /\ \A i, j \in 1..n : st.dict[i] = st.dict[j] => i = j
        /\ n <= MaxTasks /\ MaxTasks \in Nat /\ MaxTasks # 0
    BY StoreSplit DEF TableOK, StoreAssumption
  <1>2. Cardinality(Live(st)) = n
    BY TableCounts
  <1>3. x.dict = Append(kept, t)
    BY <1>1 DEF CreateTask
  <1>4. ASSUME NEW dict \in Seq(Tasks), x.dict = Append(dict, t)
        PROVE  Live(x) = {dict[i] : i \in 1..Len(dict)} \cup {t}
    <2>1. /\ Len(dict) \in Nat
          /\ DOMAIN x.dict = 1..(Len(dict) + 1) /\ x.dict[Len(dict) + 1] = t
          /\ \A i \in 1..Len(dict) : x.dict[i] = dict[i]
      BY <1>4
    <2>2. \A i \in DOMAIN x.dict : i = Len(dict) + 1 \/ i \in 1..Len(dict)
      BY <2>1
    <2>3. Len(dict) + 1 \in DOMAIN x.dict /\ 1..Len(dict) \subseteq DOMAIN x.dict
      BY <2>1
    <2> HIDE DEF x
    <2> QED
      BY <2>1, <2>2, <2>3 DEF Live
  <1> HIDE DEF x
  <1>5. CASE n < MaxTasks
    <2>1. x.dict = Append(st.dict, t)
      BY <1>1, <1>3, <1>5
    <2>2. Live(x) = {st.dict[i] : i \in 1..n} \cup {t}
      BY <1>1, <1>4, <2>1
    <2> QED
      BY <1>1, <1>2, <1>5, <2>2 DEF Live, x
  <1>6. CASE n = MaxTasks
    <2>1. st.dict # <<>>
      BY <1>1, <1>6
    <2>2. k \in 1..n
      BY <1>1, <2>1, OldestInTable
    <2>3. x.dict = Append(q, t)
      BY <1>1, <1>3, <1>6
    <2> HIDE DEF k
    <2>4. /\ q \in Seq(Tasks) /\ Len(q) = n - 1
          /\ \A i \in 1..(n - 1) : q[i] = IF i < k THEN st.dict[i] ELSE st.dict[i + 1]
      BY <1>1, <2>2, RemoveAtOK
    <2> HIDE DEF q
    <2>5. Live(x) = {q[i] : i \in 1..(n - 1)} \cup {t}
      BY <1>4, <2>3, <2>4
    <2>6. {q[i] : i \in 1..(n - 1)} = Live(st) \ {st.dict[k]}
      <3>1. ASSUME NEW i \in 1..(n - 1)
            PROVE  q[i] \in Live(st) /\ q[i] # st.dict[k]
        <4> DEFINE a == IF i < k THEN i ELSE i + 1
        <4>1. a \in 1..n /\ a # k /\ q[i] = st.dict[a]
          BY <1>1, <2>2, <2>4
        <4> QED
          BY <1>1, <2>2, <4>1 DEF Live
      <3>2. ASSUME NEW j \in 1..n, j # k
            PROVE  \E i \in 1..(n - 1) : q[i] = st.dict[j]
        <4>1. CASE j < k
          <5>1. j \in 1..(n - 1) /\ q[j] = st.dict[j]
            BY <1>1, <2>2, <2>4, <4>1
          <5> QED
            BY <5>1
        <4>2. CASE ~(j < k)
          <5>1. j - 1 \in 1..(n - 1) /\ ~(j - 1 < k) /\ (j - 1) + 1 = j
            BY <1>1, <2>2, <3>2, <4>2
          <5>2. q[j - 1] = st.dict[(j - 1) + 1]
            BY <2>4, <5>1
          <5> QED
            BY <5>1, <5>2
        <4> QED
          BY <4>1, <4>2
      <3>3. ASSUME NEW u \in Live(st), u # st.dict[k]
            PROVE  u \in {q[i] : i \in 1..(n - 1)}
        <4>1. PICK j \in 1..n : u = st.dict[j]
          BY <1>1 DEF Live
        <4>2. \E i \in 1..(n - 1) : q[i] = u
          BY <3>2, <3>3, <4>1
        <4> QED
          BY <4>2
      <3> QED
        BY <3>1, <3>3
    <2>7. st.dict[k] \in Live(st)
      BY <1>1, <2>2 DEF Live
    <2> QED
      BY <1>2, <1>6, <2>5, <2>6, <2>7 DEF x
  <1> QED
    BY <1>1, <1>5, <1>6

LEMMA StreamStepFollowed ==
    ASSUME StoreAssumption, StoreInv(store), Followed(store), NEW s \in Subs, StreamStep(s)
    PROVE  Followed(store')
  <1>1. StreamKeeps(s)
    BY StreamStepInv
  <1>2. ASSUME NEW u \in Subs, Streaming(store', u)
        PROVE  StateOf(store', store'.sub[u].task) # "ABSENT"
    <2>1. CASE u # s \/ Streaming(store, u)
      BY <1>1, <1>2, <2>1 DEF StreamKeeps, Followed, Streaming, StateOf
    <2>2. CASE u = s /\ ~Streaming(store, u)
      <3>1. store'.sub[s].task \in Live(store) /\ store'.sub[s].task \in Tasks
        BY <1>1, <1>2, <2>2, StoreSplit DEF StreamKeeps, Streaming, SubInv, SubOK
      <3>2. StateOf(store, store'.sub[s].task) # "ABSENT"
        BY <1>1, <3>1, LiveState
      <3> QED
        BY <1>1, <2>2, <3>2 DEF StreamKeeps, StateOf
    <2> QED
      BY <2>1, <2>2
  <1> QED
    BY <1>2 DEF Followed

-----------------------------------------------------------------------------
(* The order of a queue.                                                   *)

(* The events of q, end markers aside, announce revisions after m, up to n *)
(* and in ascending order.                                                 *)
Sorted(q, m, n) == \A i \in DOMAIN q :
    \/ q[i] = Closed
    \/ /\ m < q[i].rev /\ q[i].rev <= n
       /\ \A j \in DOMAIN q : i < j => q[j] = Closed \/ q[i].rev < q[j].rev

(* What a consumer still has to see, whether or not it was warned: later   *)
(* revisions than the last, in order, and at the end of the queue the      *)
(* present one, unless the stream is about to end.                         *)
Ordered(r, n) == r.phase = "streaming" =>
    /\ r.seen <= n
    /\ Sorted(r.queue, r.seen, n)
    /\ r.queue # <<>> /\ ~Ends(r) => r.queue[Len(r.queue)].rev = n

LEMMA AppendSorted ==
    ASSUME NEW q \in Seq(Event), NEW m \in Nat, NEW n \in Nat, m <= n,
           NEW ev \in Event, Sorted(q, m, n), NEW k \in Nat, n <= k,
           ev = Closed \/ (n < ev.rev /\ ev.rev = k)
    PROVE  /\ Sorted(Append(q, ev), m, k)
           /\ Append(q, ev) # <<>> /\ Append(q, ev)[Len(Append(q, ev))] = ev
  <1> DEFINE x == Append(q, ev)
  <1>1. /\ Len(q) \in Nat /\ DOMAIN q = 1..Len(q)
        /\ x \in Seq(Event) /\ Len(x) = Len(q) + 1 /\ DOMAIN x = 1..(Len(q) + 1)
        /\ x[Len(q) + 1] = ev
        /\ \A i \in 1..Len(q) : x[i] = q[i]
        /\ \A i \in 1..Len(q) : q[i].rev \in Nat
        /\ ev.rev \in Nat
    <2>1. /\ Len(q) \in Nat /\ DOMAIN q = 1..Len(q)
          /\ x \in Seq(Event) /\ Len(x) = Len(q) + 1 /\ DOMAIN x = 1..(Len(q) + 1)
          /\ x[Len(q) + 1] = ev
          /\ \A i \in 1..Len(q) : x[i] = q[i]
          /\ \A i \in 1..Len(q) : q[i] \in Event
      OBVIOUS
    <2> QED
      BY <2>1 DEF Event
  <1> HIDE DEF x
  <1>2. ASSUME NEW i \in 1..(Len(q) + 1), x[i] # Closed
        PROVE  /\ m < x[i].rev /\ x[i].rev <= k
               /\ \A j \in 1..(Len(q) + 1) : i < j => x[j] = Closed \/ x[i].rev < x[j].rev
    <2>1. CASE i \in 1..Len(q)
      <3>1. /\ x[i] = q[i] /\ m < q[i].rev /\ q[i].rev <= n
            /\ \A j \in 1..Len(q) : i < j => q[j] = Closed \/ q[i].rev < q[j].rev
        BY <1>1, <1>2, <2>1 DEF Sorted
      <3>2. q[i].rev \in Nat
        BY <1>1, <2>1
      <3>3. ASSUME NEW j \in 1..(Len(q) + 1), i < j, x[j] # Closed
            PROVE  x[i].rev < x[j].rev
        <4>1. CASE j \in 1..Len(q)
          BY <1>1, <3>1, <3>3, <4>1
        <4>2. CASE j = Len(q) + 1
          BY <1>1, <3>1, <3>2, <3>3, <4>2
        <4> QED
          BY <1>1, <4>1, <4>2
      <3> QED
        BY <3>1, <3>2, <3>3
    <2>2. CASE i = Len(q) + 1
      BY <1>1, <1>2, <2>2
    <2> QED
      BY <1>1, <2>1, <2>2
  <1>3. Sorted(x, m, k)
    BY <1>1, <1>2 DEF Sorted
  <1>4. x # <<>> /\ x[Len(x)] = ev
    BY <1>1
  <1> QED
    BY <1>3, <1>4 DEF x

LEMMA TailSorted ==
    ASSUME NEW q \in Seq(Event), q # <<>>, NEW m \in Nat, NEW n \in Nat, Sorted(q, m, n)
    PROVE  /\ Sorted(Tail(q), m, n)
           /\ Head(q) # Closed => /\ m < Head(q).rev /\ Head(q).rev <= n
                                  /\ Sorted(Tail(q), Head(q).rev, n)
           /\ Tail(q) # <<>> => Tail(q)[Len(Tail(q))] = q[Len(q)]
  <1> DEFINE x == Tail(q)
  <1>1. x \in Seq(Event) /\ Len(x) = Len(q) - 1 /\ Len(q) \in Nat /\ Len(q) # 0
    OBVIOUS
  <1>2. /\ DOMAIN q = 1..Len(q) /\ DOMAIN x = 1..(Len(q) - 1)
        /\ Head(q) = q[1] /\ 1 \in DOMAIN q
    BY <1>1
  <1>3. \A i \in DOMAIN x : i + 1 \in DOMAIN q /\ x[i] = q[i + 1] /\ 1 < i + 1
    BY <1>1, <1>2
  <1>4. \A i \in DOMAIN x, j \in DOMAIN x : i < j => i + 1 < j + 1
    BY <1>1, <1>2
  <1> HIDE DEF x
  <1>5. Sorted(x, m, n)
    BY <1>3, <1>4 DEF Sorted
  <1>6. ASSUME q[1] # Closed
        PROVE  /\ m < q[1].rev /\ q[1].rev <= n
               /\ Sorted(x, q[1].rev, n)
    <2>1. /\ m < q[1].rev /\ q[1].rev <= n
          /\ \A j \in DOMAIN q : 1 < j => q[j] = Closed \/ q[1].rev < q[j].rev
      BY <1>2, <1>6 DEF Sorted
    <2> QED
      BY <1>3, <1>5, <2>1 DEF Sorted
  <1>7. x # <<>> => x[Len(x)] = q[Len(q)]
    <2> SUFFICES ASSUME x # <<>>
                 PROVE  x[Len(x)] = q[Len(q)]
      OBVIOUS
    <2>1. Len(x) # 0
      <3>1. x = <<>> \/ Len(x) # 0
        BY ONLY <1>1, EmptySeq
      <3> QED
        BY <3>1
    <2>2. Len(x) \in DOMAIN x /\ Len(x) + 1 = Len(q)
      BY <1>1, <1>2, <2>1
    <2> QED
      BY <1>3, <2>2
  <1> QED
    BY <1>2, <1>5, <1>6, <1>7 DEF x

LEMMA PutOrdered ==
    ASSUME StoreAssumption, NEW r, NEW n \in Nat, NEW b \in BOOLEAN,
           SubOK(r), Ordered(r, n),
           NEW ev, ev = [rev |-> n + 1, final |-> b]
    PROVE  Ordered(Put(r, ev), n + 1)
  <1> DEFINE x == Put(r, ev)
  <1>1. ev \in Event /\ ev.rev = n + 1
    BY DEF Event
  <1>2. /\ x.phase = r.phase /\ x.seen = r.seen
        /\ \/ x.queue = Append(r.queue, ev)
           \/ r.queue # <<>> /\ x.queue = Append(Tail(r.queue), ev)
    BY <1>1, PutOK
  <1>3. r.queue \in Seq(Event) /\ r.seen \in Nat
    BY DEF SubOK, Subscription
  <1> HIDE DEF x
  <1> SUFFICES ASSUME r.phase = "streaming"
               PROVE  Ordered(x, n + 1)
    BY <1>2 DEF Ordered, x
  <1>4. ASSUME NEW q \in Seq(Event), Sorted(q, r.seen, n), x.queue = Append(q, ev)
        PROVE  Ordered(x, n + 1)
    <2>1. r.seen <= n /\ n + 1 \in Nat /\ n <= n + 1 /\ n < n + 1 /\ r.seen <= n + 1
      BY <1>3 DEF Ordered
    <2>2. /\ Sorted(x.queue, x.seen, n + 1) /\ x.queue[Len(x.queue)] = ev
      BY <1>1, <1>2, <1>3, <1>4, <2>1, AppendSorted
    <2> QED
      BY <1>1, <1>2, <2>1, <2>2 DEF Ordered
  <1>5. CASE x.queue = Append(r.queue, ev)
    BY <1>3, <1>4, <1>5 DEF Ordered
  <1>6. CASE r.queue # <<>> /\ x.queue = Append(Tail(r.queue), ev)
    <2>1. Tail(r.queue) \in Seq(Event) /\ Sorted(Tail(r.queue), r.seen, n)
      BY <1>3, <1>6, TailSorted DEF Ordered
    <2> QED
      BY <1>4, <1>6, <2>1
  <1> QED
    BY <1>2, <1>5, <1>6

LEMMA MarkOrdered ==
    ASSUME StoreAssumption, NEW r, NEW n \in Nat, SubInv(r, n), Ends(r), Ordered(r, n)
    PROVE  Ordered(Mark(r), n) /\ Mark(r).seen = r.seen
  <1> DEFINE x == Mark(r)
  <1>1. /\ r \in Subscription /\ r.queue \in Seq(Event) /\ r.seen \in Nat
        /\ Closed \in Event
    BY DEF SubInv, SubOK, Subscription, Closed, Event
  <1>2. Ends(x) /\ x.phase = r.phase
    BY MarkInv
  <1>3. /\ x.seen = r.seen
        /\ x.queue = r.queue \/ x.queue = Append(r.queue, Closed)
    BY <1>1 DEF Mark, Subscription
  <1> HIDE DEF x
  <1>4. ASSUME r.phase = "streaming"
        PROVE  Sorted(x.queue, x.seen, n)
    <2>1. r.seen <= n /\ n <= n /\ Sorted(r.queue, r.seen, n)
      BY <1>4 DEF Ordered
    <2>2. Sorted(Append(r.queue, Closed), r.seen, n)
      BY <1>1, <2>1, AppendSorted
    <2> QED
      BY <1>3, <2>1, <2>2
  <1> QED
    BY <1>2, <1>3, <1>4 DEF Ordered, x

LEMMA ShownOrdered ==
    ASSUME StoreAssumption, NEW r, NEW n \in Nat, SubInv(r, n), Ordered(r, n),
           r.phase = "streaming", ~r.fin, r.queue # <<>>, Head(r.queue) # Closed
    PROVE  /\ Ordered(Shown(r), n)
           /\ Shown(r).seen >= r.seen
           /\ r.lost \/ Shown(r).seen = r.seen + 1
           /\ Shown(r).lost = r.lost
  <1> DEFINE x == Shown(r)
  <1>1. /\ r \in Subscription /\ r.queue \in Seq(Event) /\ r.seen \in Nat
        /\ Head(r.queue) \in Event /\ Head(r.queue).rev \in Nat
    <2>1. r \in Subscription /\ r.queue \in Seq(Event) /\ r.seen \in Nat
      BY DEF SubInv, SubOK, Subscription
    <2>2. Head(r.queue) \in Event
      BY <2>1
    <2> QED
      BY <2>1, <2>2 DEF Event
  <1>2. /\ x.queue = Tail(r.queue) /\ x.seen = Head(r.queue).rev /\ x.lost = r.lost
    BY <1>1 DEF Shown, Subscription
  <1>3. /\ Ends(r) => Ends(x)
        /\ ~r.lost => x.seen = r.seen + 1
    BY ShownInv
  <1> HIDE DEF x
  <1>4. /\ r.seen < x.seen /\ x.seen <= n
        /\ Sorted(x.queue, x.seen, n)
        /\ x.queue # <<>> => x.queue[Len(x.queue)] = r.queue[Len(r.queue)]
    BY <1>1, <1>2, TailSorted DEF Ordered
  <1>5. Ordered(x, n)
    BY <1>3, <1>4 DEF Ordered
  <1> QED
    BY <1>1, <1>2, <1>3, <1>4, <1>5 DEF x

-----------------------------------------------------------------------------
(* The order of every queue.                                               *)
StoreOrdered(st) == \A s \in Subs : Ordered(st.sub[s], RevSeen(st.task, st.sub[s]))

(* A write shows no consumer anything.                                     *)
SeenKept(st, x) == \A s \in Subs : x.sub[s].seen = st.sub[s].seen

LEMMA BroadcastOrdered ==
    ASSUME StoreAssumption, NEW st, StoreInv(st), StoreOrdered(st), NEW t \in Tasks,
           NEW b \in BOOLEAN, NEW v \in TaskValue, v.rev = st.task[t].rev + 1
    PROVE  LET told == Broadcast(st.sub, t, [rev |-> st.task[t].rev + 1, final |-> b])
               task == [st.task EXCEPT ![t] = v]
           IN \A s \in Subs : /\ Ordered(told[s], RevSeen(task, told[s]))
                             /\ told[s].seen = st.sub[s].seen
  <1> DEFINE ev == [rev |-> st.task[t].rev + 1, final |-> b]
             told == Broadcast(st.sub, t, ev)
             task == [st.task EXCEPT ![t] = v]
  <1>0. /\ ev = [rev |-> st.task[t].rev + 1, final |-> b]
        /\ told = Broadcast(st.sub, t, ev) /\ task = [st.task EXCEPT ![t] = v]
    OBVIOUS
  <1> HIDE DEF ev, told, task
  <1>1. /\ st.task \in [Tasks -> TaskValue]
        /\ \A s \in Subs : SubInv(st.sub[s], RevSeen(st.task, st.sub[s]))
    BY StoreSplit DEF TableOK
  <1>2. st.task[t].rev \in Nat /\ ev \in Event
    BY <1>0, <1>1 DEF TaskValue, Event
  <1>3. ASSUME NEW s \in Subs
        PROVE  Ordered(told[s], RevSeen(task, told[s])) /\ told[s].seen = st.sub[s].seen
    <2> DEFINE r == st.sub[s]
    <2>1. /\ SubInv(r, RevSeen(st.task, r)) /\ SubOK(r)
          /\ Ordered(r, RevSeen(st.task, r))
      BY <1>1 DEF SubInv, StoreOrdered
    <2>2. CASE Follows(r, t) /\ ~r.closed
      <3>1. told[s] = Put(r, ev)
        BY <1>0, <2>2 DEF Broadcast
      <3>2. RevSeen(st.task, r) = st.task[t].rev
        BY <2>2 DEF Follows, RevSeen
      <3> HIDE DEF r
      <3>3. Ordered(Put(r, ev), st.task[t].rev + 1)
        BY <1>0, <1>2, <2>1, <3>2, PutOrdered
      <3>4. Put(r, ev).task = r.task /\ Put(r, ev).seen = r.seen
        BY <1>2, <2>1, PutOK
      <3>5. RevSeen(task, Put(r, ev)) = st.task[t].rev + 1
        BY <1>0, <1>1, <2>2, <3>4 DEF Follows, RevSeen
      <3> QED
        BY <3>1, <3>3, <3>4, <3>5 DEF r
    <2>3. CASE ~(Follows(r, t) /\ ~r.closed)
      <3>1. told[s] = r
        BY <1>0, <2>3 DEF Broadcast
      <3>2. CASE r.phase # "streaming"
        BY <3>1, <3>2 DEF Ordered
      <3>3. CASE r.phase = "streaming" /\ r.task # t
        <4>1. RevSeen(task, r) = RevSeen(st.task, r)
          BY <1>0, <1>1, <2>1, <3>3 DEF RevSeen, SubOK
        <4> QED
          BY <2>1, <3>1, <4>1
      <3>4. CASE Follows(r, t) /\ r.closed
        <4>1. /\ RevSeen(st.task, r) = st.task[t].rev
              /\ RevSeen(task, r) = st.task[t].rev + 1
          BY <1>0, <1>1, <3>4 DEF RevSeen, Follows
        <4>2. Ends(r) /\ r.queue \in Seq(Event) /\ r.seen \in Nat
          BY <2>1, <3>4 DEF SubInv, SubOK, Subscription, Follows
        <4> HIDE DEF r
        <4>3. ASSUME NEW n \in Nat, Ordered(r, n)
              PROVE  Ordered(r, n + 1)
          <5>1. \A i \in DOMAIN r.queue : r.queue[i].rev \in Nat
            <6>1. \A i \in DOMAIN r.queue : r.queue[i] \in Event
              BY <4>2
            <6> QED
              BY <6>1 DEF Event
          <5> QED
            BY <4>2, <4>3, <5>1 DEF Ordered, Sorted
        <4> QED
          BY <1>2, <2>1, <3>1, <4>1, <4>3 DEF r
      <3> QED
        BY <2>3, <3>2, <3>3, <3>4 DEF Follows
    <2> QED
      BY <2>2, <2>3
  <1> QED
    BY <1>3 DEF ev, told, task

LEMMA RecordOrdered ==
    ASSUME StoreAssumption, now \in Nat, NEW st, StoreInv(st), StoreOrdered(st),
           NEW t \in Tasks, NEW state \in Terminal \cup Active
    PROVE  LET x == RecordStatus(st, t, state) IN StoreOrdered(x) /\ SeenKept(st, x)
  <1> DEFINE x == RecordStatus(st, t, state)
             b == state \in Terminal
             v == [state |-> state, stamp |-> now, rev |-> st.task[t].rev + 1]
             ev == [rev |-> st.task[t].rev + 1, final |-> b]
             told == Broadcast(st.sub, t, ev)
             task == [st.task EXCEPT ![t] = v]
             sub == IF b THEN CloseSubscribers(told, t) ELSE told
  <1>1. /\ st = [dict |-> st.dict, task |-> st.task, sub |-> st.sub]
        /\ st.task \in [Tasks -> TaskValue]
    BY StoreSplit DEF TableOK
  <1>2. v \in TaskValue /\ v.rev = st.task[t].rev + 1 /\ b \in BOOLEAN
    BY <1>1 DEF TaskValue
  <1>3. x.task = task /\ x.sub = sub
    <2>1. x = [st EXCEPT !.task = task, !.sub = sub]
      BY DEF RecordStatus
    <2> HIDE DEF x, task, sub
    <2> QED
      BY <1>1, <2>1
  <1>4. /\ task \in [Tasks -> TaskValue]
        /\ \A s \in Subs :
              /\ SubInv(told[s], RevSeen(task, told[s]))
              /\ told[s].task = st.sub[s].task /\ told[s].phase = st.sub[s].phase
              /\ b /\ Follows(st.sub[s], t) => Ends(told[s])
              /\ Ordered(told[s], RevSeen(task, told[s])) /\ told[s].seen = st.sub[s].seen
    <2> HIDE DEF v, b, x, sub
    <2> QED
      BY <1>2, BroadcastInv, BroadcastOrdered
  <1> HIDE DEF told, v
  <1>5. ASSUME NEW s \in Subs
        PROVE  Ordered(sub[s], RevSeen(task, sub[s])) /\ sub[s].seen = st.sub[s].seen
    <2>1. CASE b /\ Follows(told[s], t)
      <3>1. sub[s] = Mark(told[s])
        BY <2>1 DEF CloseSubscribers
      <3>2. RevSeen(task, told[s]) = task[t].rev /\ task[t].rev \in Nat
        BY <1>4, <2>1 DEF RevSeen, Follows, TaskValue
      <3>3. /\ SubInv(told[s], task[t].rev) /\ Ends(told[s])
            /\ Ordered(told[s], task[t].rev)
        BY <1>4, <2>1, <3>2 DEF Follows
      <3> HIDE DEF task
      <3>4. /\ Ordered(Mark(told[s]), task[t].rev) /\ Mark(told[s]).seen = told[s].seen
            /\ Mark(told[s]).task = told[s].task
        BY <3>2, <3>3, MarkInv, MarkOrdered
      <3>5. RevSeen(task, Mark(told[s])) = task[t].rev
        BY <3>2, <3>4 DEF RevSeen
      <3> HIDE DEF sub
      <3> QED
        BY <1>4, <3>1, <3>4, <3>5
    <2>2. CASE ~(b /\ Follows(told[s], t))
      <3>1. sub[s] = told[s]
        BY <2>2 DEF CloseSubscribers
      <3> HIDE DEF sub, task
      <3> QED
        BY <1>4, <3>1
    <2> QED
      BY <2>1, <2>2
  <1> HIDE DEF sub, task, x
  <1> QED
    BY <1>3, <1>5 DEF StoreOrdered, SeenKept, x

LEMMA AppendOrdered ==
    ASSUME StoreAssumption, NEW st, StoreInv(st), StoreOrdered(st), NEW t \in Tasks
    PROVE  LET x == AppendData(st, t) IN StoreOrdered(x) /\ SeenKept(st, x)
  <1> DEFINE x == AppendData(st, t)
             b == FALSE
             v == [st.task[t] EXCEPT !.rev = @ + 1]
             ev == [rev |-> st.task[t].rev + 1, final |-> b]
             told == Broadcast(st.sub, t, ev)
             task == [st.task EXCEPT ![t] = v]
  <1>1. /\ st = [dict |-> st.dict, task |-> st.task, sub |-> st.sub]
        /\ st.task[t] \in TaskValue
    BY StoreSplit DEF TableOK
  <1>2. v \in TaskValue /\ v.rev = st.task[t].rev + 1 /\ b \in BOOLEAN
    <2> DEFINE r == st.task[t]
    <2>1. v = [r EXCEPT !.rev = r.rev + 1]
      OBVIOUS
    <2> HIDE DEF r, v
    <2>2. v \in TaskValue /\ v.rev = r.rev + 1
      BY <1>1, <2>1 DEF TaskValue, r
    <2> QED
      BY <2>2 DEF r
  <1>3. x.task = task /\ x.sub = told
    <2>1. x = [st EXCEPT !.task = task, !.sub = told]
      BY DEF AppendData
    <2> HIDE DEF x, task, told
    <2> QED
      BY <1>1, <2>1
  <1>4. \A s \in Subs : /\ Ordered(told[s], RevSeen(task, told[s]))
                       /\ told[s].seen = st.sub[s].seen
    <2> HIDE DEF v, x, b
    <2> QED
      BY <1>2, BroadcastOrdered
  <1> HIDE DEF told, task, x
  <1> QED
    BY <1>3, <1>4 DEF StoreOrdered, SeenKept, x

LEMMA CreateOrdered ==
    ASSUME StoreAssumption, now \in Nat, NEW st, StoreInv(st), StoreOrdered(st), Followed(st),
           NEW t \in Tasks, StateOf(st, t) = "ABSENT"
    PROVE  LET x == CreateTask(st, t) IN StoreOrdered(x) /\ x.sub = st.sub
  <1> DEFINE x == CreateTask(st, t)
  <1>1. \A s \in Subs : ~Follows(st.sub[s], t)
    BY DEF Followed, Follows, Streaming
  <1>2. /\ x.sub = st.sub
        /\ \E v : x.task = [st.task EXCEPT ![t] = v]
    BY <1>1, CreateTaskInv DEF StateOf
  <1> HIDE DEF x
  <1>3. st.task \in [Tasks -> TaskValue] /\ \A s \in Subs : SubOK(st.sub[s])
    BY StoreSplit DEF TableOK, SubInv
  <1>4. ASSUME NEW s \in Subs
        PROVE  Ordered(x.sub[s], RevSeen(x.task, x.sub[s]))
    <2>1. CASE st.sub[s].phase = "streaming"
      <3>1. st.sub[s].task \in Tasks /\ st.sub[s].task # t
        BY <1>1, <1>3, <2>1 DEF SubOK, Follows
      <3>2. RevSeen(x.task, x.sub[s]) = RevSeen(st.task, st.sub[s])
        BY <1>2, <1>3, <3>1 DEF RevSeen
      <3> QED
        BY <1>2, <3>2 DEF StoreOrdered
    <2>2. CASE st.sub[s].phase # "streaming"
      BY <1>2, <2>2 DEF Ordered
    <2> QED
      BY <2>1, <2>2
  <1> QED
    BY <1>2, <1>4 DEF StoreOrdered, x

(* A consumer moves forward, and by one revision unless it was warned.     *)
Moves(r, x) ==
    /\ x.seen >= r.seen
    /\ x.seen = r.seen \/ x.lost \/ x.seen = r.seen + 1

LEMMA StreamStepOrdered ==
    ASSUME StoreAssumption, StoreInv(store), StoreOrdered(store),
           NEW s \in Subs, StreamStep(s)
    PROVE  /\ StoreOrdered(store')
           /\ \A u \in Subs : Streaming(store, u) => Moves(store.sub[u], store'.sub[u])
  <1>1. /\ store.task \in [Tasks -> TaskValue] /\ store.sub \in [Subs -> Subscription]
        /\ \A u \in Subs : SubInv(store.sub[u], RevSeen(store.task, store.sub[u]))
        /\ store = [dict |-> store.dict, task |-> store.task, sub |-> store.sub]
    BY StoreSplit DEF TableOK
  <1>2. \A u \in Subs : store.sub[u].seen \in Nat
    BY <1>1 DEF Subscription
  <1>3. ASSUME NEW r, store' = [store EXCEPT !.sub[s] = r],
               Ordered(r, RevSeen(store.task, r)),
               Streaming(store, s) => Moves(store.sub[s], r)
        PROVE  /\ StoreOrdered(store')
               /\ \A u \in Subs : Streaming(store, u) => Moves(store.sub[u], store'.sub[u])
    <2>1. store'.task = store.task /\ store'.sub = [store.sub EXCEPT ![s] = r]
      BY <1>1, <1>3
    <2>2. store'.sub[s] = r /\ \A u \in Subs : u # s => store'.sub[u] = store.sub[u]
      BY <1>1, <2>1
    <2> QED
      BY <1>2, <1>3, <2>1, <2>2 DEF StoreOrdered, Moves
  <1>4. ASSUME NEW t \in Tasks, Subscribe(s, t)
        PROVE  \E r : /\ store' = [store EXCEPT !.sub[s] = r]
                      /\ Ordered(r, RevSeen(store.task, r))
                      /\ ~Streaming(store, s)
    <2> DEFINE n == store.task[t].rev
               b == store.task[t].state \in Terminal
               r == [NoSub EXCEPT !.task = t, !.phase = "streaming", !.seen = n, !.fin = b]
    <2>1. store' = [store EXCEPT !.sub[s] = r] /\ ~Streaming(store, s)
      BY <1>4 DEF Subscribe, Attach, Streaming
    <2>2. n \in Nat
      BY <1>1 DEF TaskValue
    <2>3. r.task = t /\ r.queue = <<>> /\ r.seen = n
      BY DEF NoSub
    <2> HIDE DEF r
    <2>4. Ordered(r, RevSeen(store.task, r))
      BY <2>2, <2>3 DEF Ordered, Sorted, RevSeen
    <2> QED
      BY <2>1, <2>4
  <1>5. ASSUME NEW how \in {"returned", "left"}, store' = Detach(store, s, how)
        PROVE  \E r : /\ store' = [store EXCEPT !.sub[s] = r]
                      /\ Ordered(r, RevSeen(store.task, r)) /\ Moves(store.sub[s], r)
    <2> DEFINE r == [store.sub[s] EXCEPT !.phase = how, !.closed = TRUE]
    <2>1. store' = [store EXCEPT !.sub[s] = r]
      BY <1>5 DEF Detach
    <2>2. r.phase # "streaming" /\ r.seen = store.sub[s].seen
      BY <1>1 DEF Subscription
    <2> HIDE DEF r
    <2>3. Ordered(r, RevSeen(store.task, r))
      BY <2>2 DEF Ordered
    <2>4. Moves(store.sub[s], r)
      BY <1>2, <2>2 DEF Moves
    <2> QED
      BY <2>1, <2>3, <2>4
  <1>6. ASSUME Deliver(s)
        PROVE  \E r : /\ store' = [store EXCEPT !.sub[s] = r]
                      /\ Ordered(r, RevSeen(store.task, r)) /\ Moves(store.sub[s], r)
    <2> DEFINE q == store.sub[s]
               r == Shown(q)
    <2>1. store' = [store EXCEPT !.sub[s] = r] /\ Streaming(store, s)
      BY <1>6 DEF Deliver, Yield
    <2>2. /\ RevSeen(store.task, q) \in Nat /\ SubInv(q, RevSeen(store.task, q))
          /\ Ordered(q, RevSeen(store.task, q)) /\ q.phase = "streaming"
          /\ ~q.fin /\ q.queue # <<>> /\ Head(q.queue) # Closed
      BY <1>1, <1>6 DEF RevSeen, SubInv, SubOK, TaskValue, Deliver, Streaming, StoreOrdered
    <2> HIDE DEF q
    <2>3. /\ Ordered(r, RevSeen(store.task, q)) /\ r.task = q.task
          /\ r.seen >= q.seen /\ (q.lost \/ r.seen = q.seen + 1) /\ r.lost = q.lost
      BY <2>2, ShownInv, ShownOrdered
    <2> HIDE DEF r
    <2>4. Moves(q, r) /\ RevSeen(store.task, r) = RevSeen(store.task, q)
      BY <2>3 DEF Moves, RevSeen
    <2> QED
      BY <2>1, <2>3, <2>4 DEF q
  <1> QED
    BY <1>3, <1>4, <1>5, <1>6 DEF StreamStep, Return, Disconnect

LEMMA InitOrdered ==
    ASSUME InitStore
    PROVE  StoreOrdered(store)
  <1>1. store.sub = [s \in Subs |-> NoSub] /\ NoSub.phase # "streaming"
    BY DEF InitStore, NoSub
  <1> QED
    BY <1>1 DEF StoreOrdered, Ordered

-----------------------------------------------------------------------------
(* What the end of a stream tells.                                         *)

(* The converse of TerminalEnds: nothing ends the stream of a task that is *)
(* not terminal.                                                           *)
EndsHonestly(st) == \A s \in Subs :
    Streaming(st, s) /\ Ends(st.sub[s]) => StateOf(st, st.sub[s].task) \in Terminal

LEMMA PutEndsNothing ==
    ASSUME StoreAssumption, NEW r, SubOK(r), NEW n \in Nat,
           NEW ev, ev = [rev |-> n + 1, final |-> FALSE], Ends(Put(r, ev))
    PROVE  Ends(r)
  <1> DEFINE x == Put(r, ev)
  <1>1. ev \in Event /\ ~ev.final /\ ev # Closed
    BY DEF Event, Closed
  <1>2. /\ x.fin = r.fin
        /\ \/ x.queue = Append(r.queue, ev)
           \/ r.queue # <<>> /\ x.queue = Append(Tail(r.queue), ev)
    BY <1>1, PutOK
  <1>3. r.queue \in Seq(Event)
    BY DEF SubOK, Subscription
  <1> HIDE DEF x
  <1>4. CASE r.fin
    BY <1>4 DEF Ends
  <1>5. ASSUME NEW i \in DOMAIN x.queue, x.queue[i].final \/ x.queue[i] = Closed
        PROVE  Ends(r)
    <2>1. CASE x.queue = Append(r.queue, ev)
      <3>1. i \in DOMAIN r.queue /\ x.queue[i] = r.queue[i]
        <4>1. i # Len(r.queue) + 1
          BY <1>1, <1>3, <1>5, <2>1
        <4> QED
          BY <1>3, <2>1, <4>1
      <3> QED
        BY <1>5, <3>1 DEF Ends
    <2>2. CASE r.queue # <<>> /\ x.queue = Append(Tail(r.queue), ev)
      <3>1. Tail(r.queue) \in Seq(Event) /\ Len(Tail(r.queue)) = Len(r.queue) - 1
        BY <1>3, <2>2
      <3>2. i # Len(Tail(r.queue)) + 1
        BY <1>1, <1>5, <2>2, <3>1
      <3>3. i \in 1..(Len(r.queue) - 1) /\ x.queue[i] = Tail(r.queue)[i]
        BY <1>3, <2>2, <3>1, <3>2
      <3>4. i + 1 \in DOMAIN r.queue /\ x.queue[i] = r.queue[i + 1]
        BY <1>3, <2>2, <3>3
      <3> QED
        BY <1>5, <3>4 DEF Ends
    <2> QED
      BY <1>2, <2>1, <2>2
  <1> QED
    BY <1>2, <1>4, <1>5 DEF Ends, x

LEMMA BroadcastEndsNothing ==
    ASSUME StoreAssumption, NEW st, StoreInv(st), NEW t \in Tasks, NEW s \in Subs,
           Ends(Broadcast(st.sub, t, [rev |-> st.task[t].rev + 1, final |-> FALSE])[s])
    PROVE  Ends(st.sub[s])
  <1> DEFINE ev == [rev |-> st.task[t].rev + 1, final |-> FALSE]
  <1>1. st.task[t].rev \in Nat /\ SubOK(st.sub[s])
    BY StoreSplit DEF TableOK, TaskValue, SubInv
  <1>2. \/ Broadcast(st.sub, t, ev)[s] = Put(st.sub[s], ev)
        \/ Broadcast(st.sub, t, ev)[s] = st.sub[s]
    BY DEF Broadcast
  <1>3. ev = [rev |-> st.task[t].rev + 1, final |-> FALSE]
    OBVIOUS
  <1> HIDE DEF ev
  <1> QED
    BY <1>1, <1>2, <1>3, PutEndsNothing

(* A write that does not take its task out of a terminal state.            *)
LEMMA TouchesHonestly ==
    ASSUME NEW st, StoreInv(st), EndsHonestly(st), NEW x, NEW t \in Tasks, NEW v,
           Touches(st, x, t, [st.task EXCEPT ![t] = v]),
           \/ v.state \in Terminal
           \/ /\ StateOf(st, t) \notin Terminal
              /\ \A s \in Subs : Ends(x.sub[s]) => Ends(st.sub[s])
    PROVE  EndsHonestly(x)
  <1>1. st.task \in [Tasks -> TaskValue] /\ \A s \in Subs : SubOK(st.sub[s])
    BY StoreSplit DEF TableOK, SubInv
  <1>2. SUFFICES ASSUME NEW s \in Subs, Streaming(x, s), Ends(x.sub[s])
                 PROVE  StateOf(x, x.sub[s].task) \in Terminal
    BY DEF EndsHonestly
  <1>3. /\ Streaming(st, s) /\ x.sub[s].task = st.sub[s].task /\ st.sub[s].task \in Tasks
        /\ x.task = [st.task EXCEPT ![t] = v]
        /\ st.sub[s].task # t => x.sub[s] = st.sub[s]
    BY <1>1, <1>2 DEF Touches, Streaming, SubOK, Follows
  <1>4. CASE st.sub[s].task = t
    <2>1. v.state \in Terminal
      BY <1>2, <1>3, <1>4 DEF EndsHonestly
    <2> QED
      BY <1>1, <1>3, <1>4, <2>1 DEF StateOf
  <1>5. CASE st.sub[s].task # t
    <2>1. StateOf(st, st.sub[s].task) \in Terminal
      BY <1>2, <1>3, <1>5 DEF EndsHonestly
    <2> QED
      BY <1>1, <1>3, <1>5, <2>1 DEF StateOf
  <1> QED
    BY <1>4, <1>5

LEMMA RecordHonestly ==
    ASSUME StoreAssumption, now \in Nat, NEW st, StoreInv(st), EndsHonestly(st),
           NEW t \in Tasks, NEW state \in Terminal \cup Active,
           StateOf(st, t) \in Terminal => state \in Terminal
    PROVE  EndsHonestly(RecordStatus(st, t, state))
  <1> DEFINE x == RecordStatus(st, t, state)
             v == [state |-> state, stamp |-> now, rev |-> st.task[t].rev + 1]
  <1>1. Touches(st, x, t, [st.task EXCEPT ![t] = v]) /\ v.state = state
    BY RecordStatusInv
  <1>2. ASSUME state \notin Terminal, NEW s \in Subs, Ends(x.sub[s])
        PROVE  Ends(st.sub[s])
    <2>1. x.sub = Broadcast(st.sub, t, [rev |-> st.task[t].rev + 1, final |-> FALSE])
      <3>1. st = [dict |-> st.dict, task |-> st.task, sub |-> st.sub]
        BY StoreSplit
      <3>2. (state \in Terminal) = FALSE
        BY <1>2
      <3> QED
        BY <3>1, <3>2 DEF RecordStatus
    <2> HIDE DEF x
    <2> QED
      BY <1>2, <2>1, BroadcastEndsNothing
  <1> HIDE DEF x, v
  <1> QED
    BY <1>1, <1>2, TouchesHonestly DEF x

LEMMA AppendHonestly ==
    ASSUME StoreAssumption, NEW st, StoreInv(st), EndsHonestly(st), NEW t \in Tasks
    PROVE  EndsHonestly(AppendData(st, t))
  <1> DEFINE x == AppendData(st, t)
             v == [st.task[t] EXCEPT !.rev = @ + 1]
  <1>1. Touches(st, x, t, [st.task EXCEPT ![t] = v])
    BY AppendDataInv
  <1>2. v.state = StateOf(st, t)
    <2>1. st.task[t] \in TaskValue
      BY StoreSplit DEF TableOK
    <2> QED
      BY <2>1 DEF StateOf, TaskValue
  <1>3. ASSUME NEW s \in Subs, Ends(x.sub[s])
        PROVE  Ends(st.sub[s])
    <2>1. x.sub = Broadcast(st.sub, t, [rev |-> st.task[t].rev + 1, final |-> FALSE])
      <3>1. st = [dict |-> st.dict, task |-> st.task, sub |-> st.sub]
        BY StoreSplit
      <3> QED
        BY <3>1 DEF AppendData
    <2> HIDE DEF x
    <2> QED
      BY <1>3, <2>1, BroadcastEndsNothing
  <1> HIDE DEF x, v
  <1> QED
    BY <1>1, <1>2, <1>3, TouchesHonestly DEF x

LEMMA CreateHonestly ==
    ASSUME StoreAssumption, now \in Nat, NEW st, StoreInv(st), EndsHonestly(st), Followed(st),
           NEW t \in Tasks, StateOf(st, t) = "ABSENT"
    PROVE  EndsHonestly(CreateTask(st, t))
  <1> DEFINE x == CreateTask(st, t)
  <1>1. \A s \in Subs : ~Follows(st.sub[s], t)
    BY DEF Followed, Follows, Streaming
  <1>2. x.sub = st.sub /\ \E v : x.task = [st.task EXCEPT ![t] = v]
    BY <1>1, CreateTaskInv DEF StateOf
  <1> HIDE DEF x
  <1>3. st.task \in [Tasks -> TaskValue] /\ \A s \in Subs : SubOK(st.sub[s])
    BY StoreSplit DEF TableOK, SubInv
  <1>4. ASSUME NEW s \in Subs, Streaming(x, s), Ends(x.sub[s])
        PROVE  StateOf(x, x.sub[s].task) \in Terminal
    <2>1. /\ Streaming(st, s) /\ Ends(st.sub[s]) /\ x.sub[s] = st.sub[s]
          /\ st.sub[s].task \in Tasks /\ st.sub[s].task # t
      BY <1>1, <1>2, <1>3, <1>4 DEF Streaming, SubOK, Follows
    <2> QED
      BY <1>2, <1>3, <2>1 DEF EndsHonestly, StateOf
  <1> QED
    BY <1>4 DEF EndsHonestly, x

LEMMA StreamStepHonestly ==
    ASSUME StoreAssumption, StoreInv(store), EndsHonestly(store),
           NEW s \in Subs, StreamStep(s)
    PROVE  EndsHonestly(store')
  <1>1. /\ store.task \in [Tasks -> TaskValue] /\ store.sub \in [Subs -> Subscription]
        /\ \A u \in Subs : SubOK(store.sub[u])
        /\ store = [dict |-> store.dict, task |-> store.task, sub |-> store.sub]
    BY StoreSplit DEF TableOK, SubInv
  <1>2. ASSUME NEW r, store' = [store EXCEPT !.sub[s] = r],
               r.phase = "streaming" /\ Ends(r) => StateOf(store, r.task) \in Terminal
        PROVE  EndsHonestly(store')
    <2>1. store'.task = store.task /\ store'.sub = [store.sub EXCEPT ![s] = r]
      BY <1>1, <1>2
    <2>2. store'.sub[s] = r /\ \A u \in Subs : u # s => store'.sub[u] = store.sub[u]
      BY <1>1, <2>1
    <2> QED
      BY <1>2, <2>1, <2>2 DEF EndsHonestly, Streaming, StateOf
  <1>3. ASSUME NEW t \in Tasks, Subscribe(s, t)
        PROVE  EndsHonestly(store')
    <2> DEFINE n == store.task[t].rev
               b == store.task[t].state \in Terminal
               r == [NoSub EXCEPT !.task = t, !.phase = "streaming", !.seen = n, !.fin = b]
    <2>1. store' = [store EXCEPT !.sub[s] = r]
      BY <1>3 DEF Subscribe, Attach
    <2>2. r.task = t /\ r.queue = <<>> /\ r.fin = b
      BY DEF NoSub
    <2> HIDE DEF r
    <2>3. Ends(r) => r.fin
      BY <2>2 DEF Ends
    <2>4. r.fin => StateOf(store, r.task) \in Terminal
      BY <2>2 DEF StateOf
    <2> QED
      BY <1>2, <2>1, <2>3, <2>4
  <1>4. ASSUME NEW how \in {"returned", "left"}, store' = Detach(store, s, how)
        PROVE  EndsHonestly(store')
    <2> DEFINE r == [store.sub[s] EXCEPT !.phase = how, !.closed = TRUE]
    <2>1. store' = [store EXCEPT !.sub[s] = r] /\ r.phase # "streaming"
      BY <1>1, <1>4 DEF Detach, Subscription
    <2> HIDE DEF r
    <2> QED
      BY <1>2, <2>1
  <1>5. ASSUME Deliver(s)
        PROVE  EndsHonestly(store')
    <2> DEFINE q == store.sub[s]
               r == Shown(q)
    <2>1. /\ store' = [store EXCEPT !.sub[s] = r] /\ Streaming(store, s)
          /\ q.queue # <<>>
      BY <1>5 DEF Deliver, Yield
    <2>2. q.queue \in Seq(Event) /\ q \in Subscription
      BY <1>1 DEF Subscription
    <2>3. r.task = q.task /\ r.queue = Tail(q.queue) /\ r.fin = q.queue[1].final
      BY <2>1, <2>2 DEF Shown, Subscription
    <2>4. /\ 1 \in DOMAIN q.queue
          /\ \A i \in DOMAIN Tail(q.queue) :
                i + 1 \in DOMAIN q.queue /\ Tail(q.queue)[i] = q.queue[i + 1]
      BY <2>1, <2>2
    <2> HIDE DEF q, r
    <2>5. Ends(r) => Ends(q)
      BY <2>3, <2>4 DEF Ends
    <2>6. Ends(r) => StateOf(store, r.task) \in Terminal
      BY <2>1, <2>3, <2>5 DEF EndsHonestly, q
    <2> QED
      BY <1>2, <2>1, <2>6
  <1> QED
    BY <1>3, <1>4, <1>5 DEF StreamStep, Return, Disconnect

-----------------------------------------------------------------------------
(* The end marker comes after the final event.                             *)

(* In a stream that was warned of nothing, whoever meets an end marker has *)
(* been shown the final event, or meets it before the marker.              *)
Announced(r) == ~r.lost =>
    \A i \in DOMAIN r.queue : r.queue[i] = Closed =>
        r.fin \/ \E j \in 1..(i - 1) : r.queue[j].final

StoreAnnounced(st) == \A s \in Subs : Announced(st.sub[s])

(* A write shows no consumer the end, and withdraws no warning.            *)
FinKept(st, x) == \A s \in Subs :
    x.sub[s].fin = st.sub[s].fin /\ (st.sub[s].lost => x.sub[s].lost)

LEMMA PutAnnounced ==
    ASSUME StoreAssumption, NEW r, SubOK(r), Announced(r), NEW ev \in Event, ev # Closed
    PROVE  /\ Announced(Put(r, ev)) /\ Put(r, ev).fin = r.fin
           /\ r.lost => Put(r, ev).lost
  <1> DEFINE x == Put(r, ev)
  <1>1. /\ x.fin = r.fin /\ r.queue \in Seq(Event)
        /\ \/ x.queue = Append(r.queue, ev) /\ x.lost = r.lost
           \/ x.lost
    <2>1. r.queue \in Seq(Event)
      BY DEF SubOK, Subscription
    <2> QED
      BY <2>1, PutOK
  <1> HIDE DEF x
  <1>2. ASSUME x.queue = Append(r.queue, ev), ~r.lost,
               NEW i \in DOMAIN x.queue, x.queue[i] = Closed
        PROVE  x.fin \/ \E j \in 1..(i - 1) : x.queue[j].final
    <2>1. i \in DOMAIN r.queue /\ r.queue[i] = Closed
      BY <1>1, <1>2
    <2>2. \A j \in 1..(i - 1) : x.queue[j] = r.queue[j]
      BY <1>1, <1>2, <2>1
    <2> QED
      BY <1>1, <1>2, <2>1, <2>2 DEF Announced
  <1> QED
    BY <1>1, <1>2 DEF Announced, x

LEMMA MarkAnnounced ==
    ASSUME StoreAssumption, NEW r, SubOK(r), Announced(r), Ends(r)
    PROVE  Announced(Mark(r)) /\ Mark(r).fin = r.fin /\ Mark(r).lost = r.lost
  <1> DEFINE x == Mark(r)
  <1>1. /\ x.fin = r.fin /\ x.lost = r.lost /\ r.queue \in Seq(Event)
        /\ x.queue = r.queue \/ x.queue = Append(r.queue, Closed)
    BY DEF Mark, SubOK, Subscription
  <1> HIDE DEF x
  <1>2. ASSUME x.queue = Append(r.queue, Closed), ~r.lost,
               NEW i \in DOMAIN x.queue, x.queue[i] = Closed
        PROVE  x.fin \/ \E j \in 1..(i - 1) : x.queue[j].final
    <2>1. \A j \in DOMAIN r.queue : x.queue[j] = r.queue[j] /\ j \in Nat
      BY <1>1, <1>2
    <2>2. CASE i \in DOMAIN r.queue
      <3>1. \A j \in 1..(i - 1) : j \in DOMAIN r.queue
        BY <1>1, <2>2
      <3> QED
        BY <1>1, <1>2, <2>1, <2>2, <3>1 DEF Announced
    <2>3. CASE i = Len(r.queue) + 1
      <3>1. CASE r.fin
        BY <1>1, <3>1
      <3>2. ASSUME NEW j \in DOMAIN r.queue, r.queue[j].final
            PROVE  \E k \in 1..(i - 1) : x.queue[k].final
        BY <1>1, <2>1, <2>3, <3>2
      <3>3. ASSUME NEW j \in DOMAIN r.queue, r.queue[j] = Closed
            PROVE  r.fin \/ \E k \in DOMAIN r.queue : r.queue[k].final
        <4>1. \A k \in 1..(j - 1) : k \in DOMAIN r.queue
          BY <1>1
        <4> QED
          BY <1>2, <3>3, <4>1 DEF Announced
      <3> QED
        BY <1>1, <3>1, <3>2, <3>3 DEF Ends
    <2> QED
      BY <1>1, <1>2, <2>2, <2>3
  <1> QED
    BY <1>1, <1>2 DEF Announced, x

LEMMA ShownAnnounced ==
    ASSUME NEW r, SubOK(r), Announced(r), ~r.fin, r.queue # <<>>, Head(r.queue) # Closed
    PROVE  Announced(Shown(r))
  <1> DEFINE x == Shown(r)
  <1>1. r.queue \in Seq(Event) /\ r \in Subscription
    BY DEF SubOK, Subscription
  <1>2. /\ x.fin = r.queue[1].final /\ x.lost = r.lost /\ x.queue = Tail(r.queue)
    BY <1>1 DEF Shown, Subscription
  <1> HIDE DEF x
  <1>3. ASSUME ~r.lost, NEW i \in DOMAIN x.queue, x.queue[i] = Closed, ~r.queue[1].final
        PROVE  \E j \in 1..(i - 1) : x.queue[j].final
    <2>1. i + 1 \in DOMAIN r.queue /\ r.queue[i + 1] = Closed /\ i \in Nat
      BY <1>1, <1>2, <1>3
    <2>2. PICK k \in 1..((i + 1) - 1) : r.queue[k].final
      BY <1>3, <2>1 DEF Announced
    <2>3. k # 1 /\ k - 1 \in 1..(i - 1)
      BY <1>3, <2>1, <2>2
    <2>4. x.queue[k - 1] = r.queue[k]
      BY <1>1, <1>2, <1>3, <2>1, <2>3
    <2> QED
      BY <2>2, <2>3, <2>4
  <1> QED
    BY <1>2, <1>3 DEF Announced, x

LEMMA BroadcastAnnounced ==
    ASSUME StoreAssumption, NEW st, StoreInv(st), StoreAnnounced(st), NEW t \in Tasks,
           NEW b \in BOOLEAN
    PROVE  LET told == Broadcast(st.sub, t, [rev |-> st.task[t].rev + 1, final |-> b])
           IN \A s \in Subs : /\ Announced(told[s]) /\ told[s].fin = st.sub[s].fin
                              /\ st.sub[s].lost => told[s].lost
  <1> DEFINE ev == [rev |-> st.task[t].rev + 1, final |-> b]
             told == Broadcast(st.sub, t, ev)
  <1>1. ev \in Event /\ ev # Closed
    <2>1. st.task[t].rev \in Nat
      BY StoreSplit DEF TableOK, TaskValue
    <2>2. ev.rev # Closed.rev
      BY <2>1 DEF Closed
    <2> QED
      BY <2>1, <2>2 DEF Event
  <1>2. \A s \in Subs : /\ SubOK(st.sub[s]) /\ Announced(st.sub[s])
                        /\ told[s] = Put(st.sub[s], ev) \/ told[s] = st.sub[s]
    BY StoreSplit DEF Broadcast, SubInv, StoreAnnounced
  <1> HIDE DEF ev, told
  <1>3. \A s \in Subs : /\ Announced(told[s]) /\ told[s].fin = st.sub[s].fin
                        /\ st.sub[s].lost => told[s].lost
    BY <1>1, <1>2, PutAnnounced
  <1> QED
    BY <1>3 DEF told, ev

LEMMA RecordAnnounced ==
    ASSUME StoreAssumption, now \in Nat, NEW st, StoreInv(st), StoreAnnounced(st),
           NEW t \in Tasks, NEW state \in Terminal \cup Active
    PROVE  LET x == RecordStatus(st, t, state) IN StoreAnnounced(x) /\ FinKept(st, x)
  <1> DEFINE x == RecordStatus(st, t, state)
             b == state \in Terminal
             v == [state |-> state, stamp |-> now, rev |-> st.task[t].rev + 1]
             told == Broadcast(st.sub, t, [rev |-> st.task[t].rev + 1, final |-> b])
             sub == IF b THEN CloseSubscribers(told, t) ELSE told
  <1>1. /\ st = [dict |-> st.dict, task |-> st.task, sub |-> st.sub]
        /\ st.task \in [Tasks -> TaskValue]
    BY StoreSplit DEF TableOK
  <1>2. v \in TaskValue /\ v.rev = st.task[t].rev + 1 /\ b \in BOOLEAN
    BY <1>1 DEF TaskValue
  <1>3. x.sub = sub
    <2>1. x = [st EXCEPT !.task = [st.task EXCEPT ![t] = v], !.sub = sub]
      BY DEF RecordStatus
    <2> HIDE DEF x, v, sub
    <2> QED
      BY <1>1, <2>1
  <1>4. \A s \in Subs :
           /\ SubOK(told[s]) /\ Announced(told[s]) /\ told[s].fin = st.sub[s].fin
           /\ st.sub[s].lost => told[s].lost
           /\ told[s].task = st.sub[s].task /\ told[s].phase = st.sub[s].phase
           /\ b /\ Follows(st.sub[s], t) => Ends(told[s])
    <2> HIDE DEF v, b, x, sub
    <2>1. \A s \in Subs :
             /\ SubInv(told[s], RevSeen([st.task EXCEPT ![t] = v], told[s]))
             /\ told[s].task = st.sub[s].task /\ told[s].phase = st.sub[s].phase
             /\ b /\ Follows(st.sub[s], t) => Ends(told[s])
      BY <1>2, BroadcastInv
    <2>2. \A s \in Subs : /\ Announced(told[s]) /\ told[s].fin = st.sub[s].fin
                          /\ st.sub[s].lost => told[s].lost
      BY <1>2, BroadcastAnnounced
    <2> HIDE DEF told
    <2>3. \A s \in Subs : SubOK(told[s])
      BY <2>1 DEF SubInv
    <2> QED
      BY <2>1, <2>2, <2>3
  <1>5. \A s \in Subs : \/ sub[s] = told[s]
                        \/ sub[s] = Mark(told[s]) /\ b /\ Follows(told[s], t)
    <2> HIDE DEF told, b
    <2> QED
      BY DEF CloseSubscribers
  <1> HIDE DEF told, v, x, sub
  <1>6. \A s \in Subs : /\ Announced(sub[s]) /\ sub[s].fin = st.sub[s].fin
                        /\ st.sub[s].lost => sub[s].lost
    BY <1>4, <1>5, MarkAnnounced DEF Follows
  <1>7. StoreAnnounced(x)
    BY <1>3, <1>6 DEF StoreAnnounced
  <1>8. FinKept(st, x)
    BY <1>3, <1>6, Zenon DEF FinKept
  <1> QED
    BY <1>7, <1>8 DEF x

LEMMA AppendAnnounced ==
    ASSUME StoreAssumption, NEW st, StoreInv(st), StoreAnnounced(st), NEW t \in Tasks
    PROVE  LET x == AppendData(st, t) IN StoreAnnounced(x) /\ FinKept(st, x)
  <1> DEFINE x == AppendData(st, t)
             told == Broadcast(st.sub, t, [rev |-> st.task[t].rev + 1, final |-> FALSE])
  <1>1. x.sub = told
    <2>1. st = [dict |-> st.dict, task |-> st.task, sub |-> st.sub]
      BY StoreSplit
    <2> QED
      BY <2>1 DEF AppendData
  <1>2. \A s \in Subs : /\ Announced(told[s]) /\ told[s].fin = st.sub[s].fin
                        /\ st.sub[s].lost => told[s].lost
    BY BroadcastAnnounced
  <1> HIDE DEF x, told
  <1>3. StoreAnnounced(x)
    BY <1>1, <1>2 DEF StoreAnnounced
  <1>4. FinKept(st, x)
    BY <1>1, <1>2, Zenon DEF FinKept
  <1> QED
    BY <1>3, <1>4 DEF x

LEMMA FreshAnnounced ==
    ASSUME NEW r, r.queue = <<>>
    PROVE  Announced(r)
  BY DEF Announced

LEMMA OneSubAnnounced ==
    ASSUME NEW st, StoreInv(st), StoreAnnounced(st), NEW s \in Subs, NEW r, Announced(r)
    PROVE  StoreAnnounced([st EXCEPT !.sub[s] = r])
  <1> DEFINE x == [st EXCEPT !.sub[s] = r]
  <1>1. /\ st = [dict |-> st.dict, task |-> st.task, sub |-> st.sub]
        /\ st.sub \in [Subs -> Subscription]
    BY StoreSplit
  <1>2. x.sub = [st.sub EXCEPT ![s] = r]
    BY <1>1
  <1> HIDE DEF x
  <1>3. StoreAnnounced(x)
    BY <1>1, <1>2 DEF StoreAnnounced
  <1> QED
    BY <1>3 DEF x

LEMMA StreamStepAnnounced ==
    ASSUME StoreInv(store), StoreAnnounced(store), NEW s \in Subs, StreamStep(s)
    PROVE  StoreAnnounced(store')
  <1>1. /\ store.sub \in [Subs -> Subscription] /\ \A u \in Subs : SubOK(store.sub[u])
        /\ store = [dict |-> store.dict, task |-> store.task, sub |-> store.sub]
    BY StoreSplit DEF SubInv
  <1>2. ASSUME NEW r, store' = [store EXCEPT !.sub[s] = r], Announced(r)
        PROVE  StoreAnnounced(store')
    BY <1>2, OneSubAnnounced
  <1>3. ASSUME NEW t \in Tasks, Subscribe(s, t)
        PROVE  StoreAnnounced(store')
    <2> DEFINE n == store.task[t].rev
               b == store.task[t].state \in Terminal
               r == [NoSub EXCEPT !.task = t, !.phase = "streaming", !.seen = n, !.fin = b]
    <2>1. store' = [store EXCEPT !.sub[s] = r] /\ r.queue = <<>>
      BY <1>3 DEF Subscribe, Attach, NoSub
    <2> HIDE DEF r
    <2> QED
      BY <1>2, <2>1, FreshAnnounced
  <1>4. ASSUME NEW how \in {"returned", "left"}, store' = Detach(store, s, how)
        PROVE  StoreAnnounced(store')
    <2> DEFINE r == [store.sub[s] EXCEPT !.phase = how, !.closed = TRUE]
    <2>1. store' = [store EXCEPT !.sub[s] = r]
      BY <1>4 DEF Detach
    <2>2. /\ r.queue = store.sub[s].queue /\ r.fin = store.sub[s].fin
          /\ r.lost = store.sub[s].lost
      BY <1>1 DEF Subscription
    <2> HIDE DEF r
    <2>3. Announced(r)
      BY <2>2 DEF Announced, StoreAnnounced
    <2> QED
      BY <1>2, <2>1, <2>3
  <1>5. ASSUME Deliver(s)
        PROVE  StoreAnnounced(store')
    <2>1. Announced(Shown(store.sub[s])) /\ store' = [store EXCEPT !.sub[s] = Shown(store.sub[s])]
      BY <1>1, <1>5, ShownAnnounced DEF Deliver, Yield, StoreAnnounced
    <2> QED
      BY <1>2, <2>1
  <1> QED
    BY <1>3, <1>4, <1>5 DEF StreamStep, Return, Disconnect
-----------------------------------------------------------------------------
(* A queue that has room drops nothing.                                    *)

HasRoom(r, n) == ~r.lost /\ Len(r.queue) <= n

(* No follower of t was warned, and none has more than n events to read.   *)
Roomy(st, t, n) == \A s \in Subs : Follows(st.sub[s], t) => HasRoom(st.sub[s], n)

LEMMA PutRoom ==
    ASSUME StoreAssumption, NEW r, SubOK(r), NEW n \in Nat, HasRoom(r, n), n < Capacity,
           NEW ev
    PROVE  HasRoom(Put(r, ev), n + 1)
  <1>1. r \in Subscription /\ r.queue \in Seq(Event) /\ Len(r.queue) < Capacity
    BY DEF SubOK, Subscription, HasRoom, StoreAssumption
  <1>2. /\ Put(r, ev).queue = Append(r.queue, ev) /\ Put(r, ev).lost = r.lost
    BY <1>1 DEF Put, Subscription
  <1> QED
    BY <1>1, <1>2 DEF HasRoom

LEMMA MarkRoom ==
    ASSUME StoreAssumption, NEW r, SubOK(r), NEW n \in Nat, HasRoom(r, n)
    PROVE  HasRoom(Mark(r), n + 1)
  <1>1. r \in Subscription /\ r.queue \in Seq(Event)
    BY DEF SubOK, Subscription
  <1>2. /\ Mark(r).queue = r.queue \/ Mark(r).queue = Append(r.queue, Closed)
        /\ Mark(r).lost = r.lost
    BY <1>1 DEF Mark, Subscription
  <1> QED
    BY <1>1, <1>2 DEF HasRoom

(* A write to one task fills nobody else's queue.                          *)
LEMMA TouchesRoomy ==
    ASSUME NEW st, NEW x, NEW t \in Tasks, NEW task, Touches(st, x, t, task),
           NEW u \in Tasks, u # t, NEW n, Roomy(st, u, n)
    PROVE  Roomy(x, u, n)
  BY DEF Touches, Roomy, Follows

LEMMA RecordRoomy ==
    ASSUME StoreAssumption, now \in Nat, NEW st, StoreInv(st), NEW t \in Tasks,
           NEW state \in Terminal \cup Active,
           NEW n \in Nat, Roomy(st, t, n), n < Capacity
    PROVE  LET x == RecordStatus(st, t, state)
           IN Roomy(x, t, IF state \in Terminal THEN n + 2 ELSE n + 1)
  <1> DEFINE x == RecordStatus(st, t, state)
             b == state \in Terminal
             v == [state |-> state, stamp |-> now, rev |-> st.task[t].rev + 1]
             ev == [rev |-> st.task[t].rev + 1, final |-> b]
             told == Broadcast(st.sub, t, ev)
             sub == IF b THEN CloseSubscribers(told, t) ELSE told
  <1>1. /\ st = [dict |-> st.dict, task |-> st.task, sub |-> st.sub]
        /\ st.task \in [Tasks -> TaskValue]
        /\ \A s \in Subs : SubOK(st.sub[s])
    BY StoreSplit DEF TableOK, SubInv
  <1>2. v \in TaskValue /\ v.rev = st.task[t].rev + 1 /\ b \in BOOLEAN
    BY <1>1 DEF TaskValue
  <1>3. x.sub = sub
    <2>1. x = [st EXCEPT !.task = [st.task EXCEPT ![t] = v], !.sub = sub]
      BY DEF RecordStatus
    <2> HIDE DEF x, v, sub
    <2> QED
      BY <1>1, <2>1
  <1>4. \A s \in Subs :
           /\ SubOK(told[s])
           /\ told[s].task = st.sub[s].task /\ told[s].phase = st.sub[s].phase
    <2> HIDE DEF v, b, x, sub
    <2>1. \A s \in Subs :
             /\ SubInv(told[s], RevSeen([st.task EXCEPT ![t] = v], told[s]))
             /\ told[s].task = st.sub[s].task /\ told[s].phase = st.sub[s].phase
      BY <1>2, BroadcastInv
    <2> HIDE DEF told
    <2> QED
      BY <2>1 DEF SubInv
  <1>5. \A s \in Subs : told[s] = st.sub[s] \/ told[s] = Put(st.sub[s], ev)
    <2> HIDE DEF ev
    <2> QED
      BY DEF Broadcast
  <1>6. \A s \in Subs : \/ sub[s] = told[s] /\ (b => ~Follows(told[s], t))
                        \/ sub[s] = Mark(told[s]) /\ b
    <2> HIDE DEF told, b
    <2> QED
      BY DEF CloseSubscribers
  <1> HIDE DEF told, v, x, sub, ev
  <1>7. ASSUME NEW s \in Subs, Follows(sub[s], t)
        PROVE  HasRoom(sub[s], IF b THEN n + 2 ELSE n + 1)
    <2>1. Follows(told[s], t)
      <3>1. Mark(told[s]).task = told[s].task /\ Mark(told[s]).phase = told[s].phase
        BY <1>4 DEF Mark, SubOK, Subscription
      <3> QED
        BY <1>6, <1>7, <3>1 DEF Follows
    <2>2. HasRoom(st.sub[s], n)
      BY <1>4, <2>1 DEF Roomy, Follows
    <2>3. HasRoom(told[s], n + 1)
      <3>1. CASE told[s] = st.sub[s]
        BY <1>1, <2>2, <3>1 DEF HasRoom, SubOK, Subscription
      <3> QED
        BY <1>1, <1>5, <2>2, <3>1, PutRoom
    <2>4. CASE b
      <3>1. sub[s] = Mark(told[s])
        BY <1>6, <2>1, <2>4
      <3>2. n + 1 \in Nat /\ (n + 1) + 1 = n + 2
        OBVIOUS
      <3> HIDE DEF b
      <3>3. HasRoom(Mark(told[s]), (n + 1) + 1)
        BY <1>4, <2>3, <3>2, MarkRoom
      <3> QED
        BY <2>4, <3>1, <3>2, <3>3
    <2>5. CASE ~b
      BY <1>6, <2>3, <2>5
    <2> QED
      BY <2>4, <2>5
  <1> QED
    BY <1>3, <1>7 DEF Roomy, x

LEMMA AppendRoomy ==
    ASSUME StoreAssumption, NEW st, StoreInv(st), NEW t \in Tasks,
           NEW n \in Nat, Roomy(st, t, n), n < Capacity
    PROVE  Roomy(AppendData(st, t), t, n + 1)
  <1> DEFINE x == AppendData(st, t)
             ev == [rev |-> st.task[t].rev + 1, final |-> FALSE]
             told == Broadcast(st.sub, t, ev)
  <1>1. /\ st = [dict |-> st.dict, task |-> st.task, sub |-> st.sub]
        /\ \A s \in Subs : SubOK(st.sub[s])
    BY StoreSplit DEF SubInv
  <1>2. x.sub = told
    BY <1>1 DEF AppendData
  <1>3. \A s \in Subs : \/ told[s] = st.sub[s] /\ (Follows(st.sub[s], t) => st.sub[s].closed)
                        \/ told[s] = Put(st.sub[s], ev) /\ Follows(st.sub[s], t)
    <2> HIDE DEF ev
    <2> QED
      BY DEF Broadcast
  <1> HIDE DEF told, x, ev
  <1>4. ASSUME NEW s \in Subs, Follows(told[s], t)
        PROVE  HasRoom(told[s], n + 1)
    <2>1. CASE told[s] = st.sub[s]
      BY <1>1, <1>4, <2>1 DEF Roomy, HasRoom, SubOK, Subscription
    <2>2. CASE told[s] = Put(st.sub[s], ev) /\ Follows(st.sub[s], t)
      BY <1>1, <2>2, PutRoom DEF Roomy
    <2> QED
      BY <1>3, <2>1, <2>2
  <1> QED
    BY <1>2, <1>4 DEF Roomy, x

LEMMA OneSubRoomy ==
    ASSUME NEW st, StoreInv(st), NEW s \in Subs, NEW r, NEW t, NEW n, Roomy(st, t, n),
           Follows(r, t) => HasRoom(r, n)
    PROVE  Roomy([st EXCEPT !.sub[s] = r], t, n)
  <1> DEFINE x == [st EXCEPT !.sub[s] = r]
  <1>1. /\ st = [dict |-> st.dict, task |-> st.task, sub |-> st.sub]
        /\ st.sub \in [Subs -> Subscription]
    BY StoreSplit
  <1>2. x.sub = [st.sub EXCEPT ![s] = r]
    BY <1>1
  <1> HIDE DEF x
  <1>3. Roomy(x, t, n)
    BY <1>1, <1>2 DEF Roomy
  <1> QED
    BY <1>3 DEF x

(* Consumers only make room.                                               *)
LEMMA StreamStepRoomy ==
    ASSUME StoreInv(store), NEW s \in Subs, StreamStep(s),
           NEW t \in Tasks, NEW n \in Nat, Roomy(store, t, n)
    PROVE  Roomy(store', t, n)
  <1>1. /\ store.sub \in [Subs -> Subscription]
        /\ store.sub[s] \in Subscription
    BY StoreSplit
  <1>2. ASSUME NEW r, store' = [store EXCEPT !.sub[s] = r], Follows(r, t) => HasRoom(r, n)
        PROVE  Roomy(store', t, n)
    BY <1>2, OneSubRoomy
  <1>3. ASSUME NEW u \in Tasks, Subscribe(s, u)
        PROVE  Roomy(store', t, n)
    <2> DEFINE m == store.task[u].rev
               b == store.task[u].state \in Terminal
               r == [NoSub EXCEPT !.task = u, !.phase = "streaming", !.seen = m, !.fin = b]
    <2>1. /\ store' = [store EXCEPT !.sub[s] = r]
          /\ r.queue = <<>> /\ ~r.lost
      BY <1>3 DEF Subscribe, Attach, NoSub
    <2> HIDE DEF r
    <2>2. HasRoom(r, n)
      BY <2>1 DEF HasRoom
    <2> QED
      BY <1>2, <2>1, <2>2
  <1>4. ASSUME NEW how \in {"returned", "left"}, store' = Detach(store, s, how)
        PROVE  Roomy(store', t, n)
    <2> DEFINE r == [store.sub[s] EXCEPT !.phase = how, !.closed = TRUE]
    <2>1. store' = [store EXCEPT !.sub[s] = r] /\ r.phase = how
      BY <1>1, <1>4 DEF Detach, Subscription
    <2> HIDE DEF r
    <2>2. ~Follows(r, t)
      BY <2>1 DEF Follows
    <2> QED
      BY <1>2, <2>1, <2>2
  <1>5. ASSUME Deliver(s)
        PROVE  Roomy(store', t, n)
    <2> DEFINE r == Shown(store.sub[s])
    <2>1. /\ store' = [store EXCEPT !.sub[s] = r]
          /\ store.sub[s].queue # <<>>
      BY <1>5 DEF Deliver, Yield
    <2>2. /\ r.queue = Tail(store.sub[s].queue) /\ r.lost = store.sub[s].lost
          /\ r.phase = store.sub[s].phase /\ r.task = store.sub[s].task
      BY <1>1 DEF Shown, Subscription
    <2>3. Len(Tail(store.sub[s].queue)) <= Len(store.sub[s].queue)
      BY <1>1, <2>1 DEF Subscription
    <2> HIDE DEF r
    <2>4. Follows(r, t) => HasRoom(r, n)
      <3>1. Len(store.sub[s].queue) \in Nat /\ Len(r.queue) \in Nat
        BY <1>1, <2>1, <2>2 DEF Subscription
      <3>2. ASSUME Follows(r, t)
            PROVE  ~r.lost /\ Len(store.sub[s].queue) <= n
        BY <2>2, <3>2, Zenon DEF Follows, Roomy, HasRoom
      <3>3. Follows(r, t) => Len(r.queue) <= n
        BY <2>2, <2>3, <3>1, <3>2
      <3> QED
        BY <3>2, <3>3 DEF HasRoom
    <2> QED
      BY <1>2, <2>1, <2>4
  <1> QED
    BY <1>3, <1>4, <1>5 DEF StreamStep, Return, Disconnect

(* A stream that was warned of nothing and meets the end marker has shown  *)
(* its client the final event.                                             *)
LEMMA ReturnSawFinal ==
    ASSUME StoreInv(store), StoreAnnounced(store), NEW s \in Subs, Return(s),
           ~store.sub[s].lost
    PROVE  store'.sub[s].fin
  <1>1. /\ store.sub \in [Subs -> Subscription] /\ store.sub[s] \in Subscription
        /\ store = [dict |-> store.dict, task |-> store.task, sub |-> store.sub]
    BY StoreSplit
  <1>2. store.sub[s].fin
    <2>1. CASE store.sub[s].queue # <<>> /\ Head(store.sub[s].queue) = Closed
      <3>1. 1 \in DOMAIN store.sub[s].queue /\ store.sub[s].queue[1] = Closed
        BY <1>1, <2>1 DEF Subscription
      <3>2. \A j \in 1..(1 - 1) : FALSE
        OBVIOUS
      <3> QED
        BY <3>1, <3>2 DEF StoreAnnounced, Announced
    <2> QED
      BY <2>1 DEF Return
  <1>3. store'.sub = [store.sub EXCEPT ![s] = [@ EXCEPT !.phase = "returned", !.closed = TRUE]]
    BY <1>1 DEF Return, Detach
  <1> QED
    BY <1>1, <1>2, <1>3 DEF Subscription
=============================================================================
