--------------------------- MODULE AgentMesh_proofs ---------------------------
(***************************************************************************)
(* Proofs about what the opencode adapter and the search server do beside  *)
(* their connections:                                                      *)
(*                                                                         *)
(* the turns on a connection to opencode.  The reader, which handles       *)
(* terminal/wait_for_exit inline, never waits for an exit that nobody will *)
(* report, though release cancels the task that reports it: inductive is   *)
(* that every terminal on the manager's list is watched or has exited, and *)
(* the reader is the only one that takes a terminal off the list.  An      *)
(* answered turn has all of its updates: they are counted or in the pipe,  *)
(* and none is behind the reply;                                           *)
(*                                                                         *)
(* the signed card of an adapter, under threads and across crashes;        *)
(*                                                                         *)
(* the merge of a search.                                                  *)
(***************************************************************************)
EXTENDS OpencodeTurns, CardSigning, MultiSearch, SequenceTheorems, FiniteSetTheorems, TLAPS

Terminals == [proc : {"none", "running", "dead"}, exited : BOOLEAN, watched : BOOLEAN,
              listed : BOOLEAN]
Messages == [what : {"update", "reply", "create", "wait", "kill", "release"}, turn : Turns]
Readers == [how : {"free", "wait", "kill"}, turn : Turns \cup {NoTurn}]

PipeOK == pipe \in Seq(Messages) /\ term \in [Turns -> Terminals] /\ reader \in Readers

ListedIsWatched == \A t \in Turns : term[t].listed => term[t].watched \/ term[t].exited

HeldUpByATurn == reader.how # "free" => reader.turn \in Turns

WaitInv == PipeOK /\ ListedIsWatched /\ HeldUpByATurn /\ PendingWaitEnds

-----------------------------------------------------------------------------
LEMMA WaitInit == InitTurns => WaitInv
<1> SUFFICES ASSUME InitTurns PROVE WaitInv
  OBVIOUS
<1> USE DEF InitTurns, Idling, NoTerminal
<1>1. PipeOK
  BY DEF PipeOK, Terminals, Messages, Readers
<1>2. ListedIsWatched /\ HeldUpByATurn /\ PendingWaitEnds
  BY DEF ListedIsWatched, HeldUpByATurn, PendingWaitEnds
<1> QED
  BY <1>1, <1>2 DEF WaitInv

(* What opencode writes leaves the terminals and the reader alone.         *)
LEMMA WritingKeeps ==
    ASSUME WaitInv, UNCHANGED <<term, reader>>,
           NEW t \in Turns, NEW what \in {"update", "reply", "create", "wait", "kill", "release"},
           WritePipe(what, t)
    PROVE  WaitInv'
<1>1. [what |-> what, turn |-> t] \in Messages
  BY DEF Messages
<1>2. pipe' = Append(pipe, [what |-> what, turn |-> t]) /\ pipe \in Seq(Messages)
  BY DEF WritePipe, WaitInv, PipeOK
<1>3. pipe' \in Seq(Messages)
  BY <1>1, <1>2, AppendProperties
<1> QED
  BY <1>3 DEF WaitInv, PipeOK, ListedIsWatched, HeldUpByATurn, PendingWaitEnds

LEMMA UntouchedKeeps == ASSUME WaitInv, UNCHANGED <<pipe, term, reader>> PROVE WaitInv'
BY DEF WaitInv, PipeOK, ListedIsWatched, HeldUpByATurn, PendingWaitEnds

(* A command that ends, and the task that reports it.                      *)
LEMMA EndingKeeps ==
    ASSUME WaitInv, NEW t \in Turns, CommandEnds(t) \/ ExitSeen(t)
    PROVE  WaitInv'
<1>1. CASE CommandEnds(t)
  BY <1>1 DEF CommandEnds, WaitInv, PipeOK, Terminals, ListedIsWatched, HeldUpByATurn,
              PendingWaitEnds
<1>2. CASE ExitSeen(t)
  BY <1>2 DEF ExitSeen, WaitInv, PipeOK, Terminals, ListedIsWatched, HeldUpByATurn,
              PendingWaitEnds
<1> QED
  BY <1>1, <1>2

(* The reader takes a message only when nothing holds it up.               *)
LEMMA ReadingKeeps == ASSUME WaitInv, ReadNext PROVE WaitInv'
<1> DEFINE what == Head(pipe).what
           t == Head(pipe).turn
<1>1. reader.how = "free" /\ pipe # <<>> /\ pipe' = Tail(pipe) /\ PipeOK
  BY DEF ReadNext, ReaderFree, WaitInv
<1>2. Head(pipe) \in Messages /\ pipe' \in Seq(Messages)
  BY <1>1, HeadTailProperties DEF PipeOK
<1>3. t \in Turns
  BY <1>2 DEF Messages
<1>4. \/ OnUpdate(t) \/ OnReply(t) \/ OnCreate(t) \/ OnWait(t) \/ OnKill(t) \/ OnRelease(t)
  BY DEF ReadNext
<1> HIDE DEF what, t
<1>5. CASE OnUpdate(t) \/ OnReply(t)
  BY <1>1, <1>2, <1>5 DEF OnUpdate, OnReply, WaitInv, PipeOK, ListedIsWatched, HeldUpByATurn,
                          PendingWaitEnds
<1>6. CASE OnCreate(t)
  <2>1. UNCHANGED reader /\ term \in [Turns -> Terminals]
    BY <1>1, <1>6 DEF OnCreate, PipeOK
  <2>2. CASE term' = term
    BY <1>1, <1>2, <2>1, <2>2 DEF WaitInv, PipeOK, ListedIsWatched, HeldUpByATurn,
                                  PendingWaitEnds
  <2>3. CASE term' = [term EXCEPT ![t] = [proc |-> "running", exited |-> FALSE,
                                          watched |-> TRUE, listed |-> TRUE]]
    <3>1. term' \in [Turns -> Terminals]
      BY <1>3, <2>1, <2>3 DEF Terminals
    <3>2. ListedIsWatched'
      BY <1>3, <2>1, <2>3 DEF ListedIsWatched, WaitInv
    <3> QED
      BY <1>1, <1>2, <2>1, <3>1, <3>2 DEF WaitInv, PipeOK, HeldUpByATurn, PendingWaitEnds
  <2> QED
    BY <1>6, <2>2, <2>3 DEF OnCreate
<1>7. CASE OnWait(t)
  BY <1>1, <1>2, <1>3, <1>7 DEF OnWait, Idling, WaitInv, PipeOK, Readers, ListedIsWatched,
                                HeldUpByATurn, PendingWaitEnds
<1>8. CASE OnKill(t)
  <2>1. CASE UNCHANGED <<term, reader>>
    BY <1>1, <1>2, <2>1 DEF WaitInv, PipeOK, ListedIsWatched, HeldUpByATurn, PendingWaitEnds
  <2>2. CASE /\ term' = [term EXCEPT ![t].proc = "dead"]
             /\ reader' = [how |-> "kill", turn |-> t]
    <3>1. term' \in [Turns -> Terminals] /\ reader' \in Readers
      BY <1>1, <1>3, <2>2 DEF PipeOK, Terminals, Readers
    <3>2. ListedIsWatched'
      BY <1>1, <1>3, <2>2 DEF ListedIsWatched, WaitInv, PipeOK, Terminals
    <3> QED
      BY <1>2, <1>3, <2>2, <3>1, <3>2 DEF WaitInv, PipeOK, HeldUpByATurn, PendingWaitEnds
  <2> QED
    BY <1>8, <2>1, <2>2 DEF OnKill
<1>9. CASE OnRelease(t)
  BY <1>1, <1>2, <1>3, <1>9 DEF OnRelease, WaitInv, PipeOK, Terminals, ListedIsWatched,
                                HeldUpByATurn, PendingWaitEnds
<1> QED
  BY <1>4, <1>5, <1>6, <1>7, <1>8, <1>9

LEMMA ResumingKeeps == ASSUME WaitInv, Resume PROVE WaitInv'
BY DEF Resume, Idling, WaitInv, PipeOK, Readers, ListedIsWatched, HeldUpByATurn,
       PendingWaitEnds

LEMMA TurnsStepKeeps == ASSUME WaitInv, TurnsStep PROVE WaitInv'
<1>1. ASSUME NEW t \in Turns, NEW kind \in {"run", "message"},
             Begin(t, kind) \/ EndTurn(t) \/ TimeOut(t)
      PROVE  WaitInv'
  BY <1>1, UntouchedKeeps DEF Begin, EndTurn, TimeOut
<1>2. ASSUME NEW t \in Turns, SendUpdate(t) \/ SendReply(t)
      PROVE  WaitInv'
  BY <1>2, WritingKeeps DEF SendUpdate, SendReply
<1>3. ASSUME NEW t \in Turns, NEW what \in {"create", "wait", "kill", "release"},
             AskTerminal(t, what)
      PROVE  WaitInv'
  BY <1>3, WritingKeeps DEF AskTerminal
<1>4. ASSUME NEW t \in Turns, CommandEnds(t) \/ ExitSeen(t)
      PROVE  WaitInv'
  BY <1>4, EndingKeeps
<1> QED
  BY <1>1, <1>2, <1>3, <1>4, ReadingKeeps, ResumingKeeps DEF TurnsStep

-----------------------------------------------------------------------------
LEMMA WaitInvariant == TurnsSpec => []WaitInv
<1>1. WaitInv /\ [TurnsStep]_turnVars => WaitInv'
  BY TurnsStepKeeps, UntouchedKeeps DEF turnVars
<1> QED
  BY WaitInit, <1>1, PTL DEF TurnsSpec

(* While the reader waits for a command to exit, somebody watches the      *)
(* command or it has exited: no release leaves the connection stuck.       *)
THEOREM WaitsForExitEnd == TurnsSpec => []PendingWaitEnds
BY WaitInvariant, PTL DEF WaitInv
-----------------------------------------------------------------------------
(* The updates of a turn.                                                  *)

Sent(what, t) == [what |-> what, turn |-> t]

(* The places in q of the updates of t.                                    *)
UpdatesIn(q, t) == {i \in DOMAIN q : q[i] = Sent("update", t)}

LEMMA UpdatesFinite ==
    ASSUME NEW q \in Seq(Messages), NEW t
    PROVE  /\ IsFiniteSet(UpdatesIn(q, t)) /\ Cardinality(UpdatesIn(q, t)) \in Nat
           /\ UpdatesIn(q, t) = {} => Cardinality(UpdatesIn(q, t)) = 0
<1>1. IsFiniteSet(1..Len(q)) /\ UpdatesIn(q, t) \subseteq 1..Len(q)
  BY FS_Interval DEF UpdatesIn
<1> QED
  BY <1>1, FS_Subset, FS_CardinalityType, FS_EmptySet

LEMMA UpdatesAppended ==
    ASSUME NEW q \in Seq(Messages), NEW m \in Messages, NEW t
    PROVE  /\ UpdatesIn(q, t) \subseteq UpdatesIn(Append(q, m), t)
           /\ Cardinality(UpdatesIn(Append(q, m), t)) =
                 IF m = Sent("update", t) THEN Cardinality(UpdatesIn(q, t)) + 1
                 ELSE Cardinality(UpdatesIn(q, t))
<1> DEFINE n == Len(q) + 1
<1>1. /\ DOMAIN Append(q, m) = DOMAIN q \cup {n} /\ n \notin DOMAIN q
      /\ \A i \in DOMAIN q : Append(q, m)[i] = q[i]
      /\ Append(q, m)[n] = m
  BY AppendProperties
<1> HIDE DEF n
<1>2. /\ m = Sent("update", t) => UpdatesIn(Append(q, m), t) = UpdatesIn(q, t) \cup {n}
      /\ m # Sent("update", t) => UpdatesIn(Append(q, m), t) = UpdatesIn(q, t)
      /\ n \notin UpdatesIn(q, t)
  BY <1>1 DEF UpdatesIn
<1> QED
  BY <1>2, UpdatesFinite, FS_AddElement

LEMMA UpdatesTaken ==
    ASSUME NEW q \in Seq(Messages), q # <<>>, NEW t
    PROVE  /\ \A i \in UpdatesIn(Tail(q), t) : i + 1 \in UpdatesIn(q, t)
           /\ Cardinality(UpdatesIn(q, t)) =
                 IF Head(q) = Sent("update", t) THEN Cardinality(UpdatesIn(Tail(q), t)) + 1
                 ELSE Cardinality(UpdatesIn(Tail(q), t))
<1> DEFINE S == UpdatesIn(Tail(q), t)
           T == UpdatesIn(q, t) \ {1}
           f == [i \in S |-> i + 1]
<1>1. /\ Tail(q) \in Seq(Messages) /\ Len(q) \in Nat /\ Len(q) > 0
      /\ DOMAIN Tail(q) = 1..(Len(q) - 1) /\ DOMAIN q = 1..Len(q)
      /\ \A i \in 1..(Len(q) - 1) : Tail(q)[i] = q[i + 1]
      /\ Head(q) = q[1]
  BY HeadTailProperties
<1>2. \A i : i \in S <=> i \in 1..(Len(q) - 1) /\ q[i + 1] = Sent("update", t)
  BY <1>1 DEF UpdatesIn
<1>3. \A i : i \in T <=> i \in 2..Len(q) /\ q[i] = Sent("update", t)
  BY <1>1 DEF UpdatesIn
<1>4. f \in Bijection(S, T)
  <2>1. S \subseteq Int /\ T \subseteq Int
    BY <1>2, <1>3
  <2>2. \A i \in S : i + 1 \in T
    BY <1>1, <1>2, <1>3
  <2>3. \A j \in T : j - 1 \in S /\ (j - 1) + 1 = j
    BY <1>1, <1>2, <1>3
  <2> HIDE DEF S, T
  <2>4. f \in [S -> T] /\ \A i, j \in S : f[i] = f[j] => i = j
    BY <2>1, <2>2
  <2>5. \A j \in T : \E i \in S : f[i] = j
    BY <2>1, <2>3
  <2> QED
    BY <2>4, <2>5 DEF Bijection, Injection, Surjection, IsInjective
<1>5. IsFiniteSet(S) /\ Cardinality(S) \in Nat /\ IsFiniteSet(UpdatesIn(q, t))
  BY <1>1, UpdatesFinite
<1>6. Cardinality(T) = Cardinality(S)
  BY <1>4, <1>5, FS_Bijection DEF ExistsBijection
<1>7. 1 \in UpdatesIn(q, t) <=> Head(q) = Sent("update", t)
  BY <1>1 DEF UpdatesIn
<1>8. \A i \in S : i + 1 \in UpdatesIn(q, t)
  BY <1>1, <1>2 DEF UpdatesIn
<1>9. Cardinality(T) = IF 1 \in UpdatesIn(q, t) THEN Cardinality(UpdatesIn(q, t)) - 1
                       ELSE Cardinality(UpdatesIn(q, t))
  BY <1>5, FS_RemoveElement
<1>10. Cardinality(UpdatesIn(q, t)) \in Nat
  BY UpdatesFinite
<1> QED
  BY <1>5, <1>6, <1>7, <1>8, <1>9, <1>10

TurnValue == [kind : {"run", "message"}, phase : {"idle", "sent", "answered", "done", "timeout"},
              got : [Turns -> Nat]]
AgentValue == [phase : {"none", "working", "cancelling", "replied"}, sent : Nat,
               asked : SUBSET {"create", "wait", "kill", "release"}]

TurnTypes ==
    /\ turn \in [Turns -> TurnValue]
    /\ stream \in [Turns \cup {Shared} -> Turns \cup {NoTurn}]
    /\ pipe \in Seq(Messages)
    /\ agent \in [Turns -> AgentValue]

Open(t) == turn[t].phase \in {"sent", "answered"}

(* A session's queue is that of the turn under way in it.                  *)
StreamsOK == \A s \in Turns \cup {Shared}, t \in Turns :
    stream[s] = t <=> Open(t) /\ Session(t) = s

(* Turns begin in the order of their numbers, and no message of the chat   *)
(* begins while an earlier one is under way.                               *)
TurnsInOrder ==
    /\ \A t, u \in Turns : t < u /\ turn[t].phase = "idle" => turn[u].phase = "idle"
    /\ \A t, u \in Turns : /\ Open(t) /\ turn[u].phase # "idle" /\ u # t
                           /\ turn[t].kind = "message" /\ turn[u].kind = "message"
                           => u < t

(* What opencode writes of a turn ends with the reply.                     *)
ReplyIsLast(t) == \A i \in DOMAIN pipe : pipe[i] = Sent("reply", t) =>
    agent[t].phase = "replied" /\ \A j \in UpdatesIn(pipe, t) : j < i

(* The updates of a turn are counted, or on their way to be.               *)
CollectOK(t) ==
    /\ agent[t].phase = "none" =>
          agent[t].sent = 0 /\ \A i \in DOMAIN pipe : pipe[i].turn # t
    /\ turn[t].phase = "idle" =>
          agent[t].phase = "none" /\ \A u \in Turns : turn[t].got[u] = 0
    /\ turn[t].phase \in {"sent", "answered", "done"} =>
          turn[t].got[t] + Cardinality(UpdatesIn(pipe, t)) = agent[t].sent
    /\ turn[t].phase \in {"answered", "done"} =>
          agent[t].phase = "replied" /\ UpdatesIn(pipe, t) = {}

(* An update in the hands of another turn is of an earlier message of the  *)
(* chat that was given up.                                                 *)
StraysOK(t) == \A u \in Turns \ {t} : turn[t].got[u] > 0 =>
    /\ u < t /\ turn[u].phase = "timeout"
    /\ turn[u].kind = "message" /\ turn[t].kind = "message"

CollectInv ==
    /\ TurnTypes /\ StreamsOK /\ TurnsInOrder
    /\ \A t \in Turns : ReplyIsLast(t) /\ CollectOK(t) /\ StraysOK(t)

(* A turn of which one thing changed.                                      *)
LEMMA PhaseChanged ==
    ASSUME NEW w \in TurnValue, NEW phase \in {"idle", "sent", "answered", "done", "timeout"}
    PROVE  /\ [w EXCEPT !.phase = phase] \in TurnValue
           /\ [w EXCEPT !.phase = phase].phase = phase
           /\ [w EXCEPT !.phase = phase].kind = w.kind
           /\ [w EXCEPT !.phase = phase].got = w.got
BY DEF TurnValue

LEMMA GotChanged ==
    ASSUME NEW w \in TurnValue, NEW got \in [Turns -> Nat]
    PROVE  /\ [w EXCEPT !.got = got] \in TurnValue
           /\ [w EXCEPT !.got = got].phase = w.phase
           /\ [w EXCEPT !.got = got].kind = w.kind
           /\ [w EXCEPT !.got = got].got = got
BY DEF TurnValue

LEMMA InitCollect ==
    ASSUME TurnsAssumption, InitTurns
    PROVE  CollectInv
<1>1. TurnTypes
  BY DEF InitTurns, TurnTypes, TurnValue, AgentValue, Messages
<1>2. StreamsOK /\ TurnsInOrder
  BY DEF InitTurns, StreamsOK, TurnsInOrder, Open
<1>3. DOMAIN pipe = {} /\ \A t, u \in Turns : ~(turn[t].got[u] > 0)
  BY DEF InitTurns
<1>4. \A t \in Turns : ReplyIsLast(t) /\ CollectOK(t) /\ StraysOK(t)
  BY <1>3 DEF InitTurns, ReplyIsLast, CollectOK, StraysOK
<1> QED
  BY <1>1, <1>2, <1>4 DEF CollectInv

(* What opencode writes.                                                   *)
LEMMA WritingCollects ==
    ASSUME TurnsAssumption, CollectInv, NEW t \in Turns,
           NEW what \in {"update", "reply", "create", "wait", "kill", "release"},
           agent[t].phase \in {"working", "cancelling"},
           pipe' = Append(pipe, Sent(what, t)), UNCHANGED <<turn, stream>>,
           agent' \in [Turns -> AgentValue],
           \A u \in Turns : u # t => agent'[u] = agent[u],
           agent'[t].sent = IF what = "update" THEN agent[t].sent + 1 ELSE agent[t].sent,
           agent'[t].phase = IF what = "reply" THEN "replied" ELSE agent[t].phase
    PROVE  CollectInv'
<1>1. /\ pipe \in Seq(Messages) /\ agent[t].sent \in Nat /\ TurnTypes
      /\ \A u \in Turns : turn[u].got[u] \in Nat
  BY DEF CollectInv, TurnTypes, AgentValue, TurnValue
<1>2. Sent(what, t) \in Messages /\ Sent(what, t).turn = t
  BY DEF Sent, Messages
<1>3. /\ pipe' \in Seq(Messages) /\ DOMAIN pipe' = DOMAIN pipe \cup {Len(pipe) + 1}
      /\ \A i \in DOMAIN pipe : pipe'[i] = pipe[i] /\ i \in Nat /\ i < Len(pipe) + 1
      /\ pipe'[Len(pipe) + 1] = Sent(what, t) /\ Len(pipe) \in Nat
  BY <1>1, <1>2, AppendProperties
<1>4. \A u, v \in Turns : \A w : Sent(what, t) = Sent(w, u) <=> what = w /\ t = u
  BY DEF Sent
<1>5. ASSUME NEW u \in Turns
      PROVE  /\ Cardinality(UpdatesIn(pipe', u)) =
                    IF u = t /\ what = "update" THEN Cardinality(UpdatesIn(pipe, u)) + 1
                    ELSE Cardinality(UpdatesIn(pipe, u))
             /\ Cardinality(UpdatesIn(pipe, u)) \in Nat
             /\ ~(u = t /\ what = "update") => UpdatesIn(pipe', u) = UpdatesIn(pipe, u)
  <2>1. Sent(what, t) = Sent("update", u) <=> u = t /\ what = "update"
    BY <1>4
  <2>2. ~(u = t /\ what = "update") => UpdatesIn(pipe', u) = UpdatesIn(pipe, u)
    BY <1>3, <2>1 DEF UpdatesIn
  <2> QED
    BY <1>1, <1>2, <2>1, <2>2, UpdatesAppended, UpdatesFinite
<1>6. TurnTypes' /\ StreamsOK' /\ TurnsInOrder'
  BY <1>1, <1>3 DEF CollectInv, TurnTypes, StreamsOK, TurnsInOrder, Open, Session
<1>7. ASSUME NEW u \in Turns
      PROVE  StraysOK(u)'
  BY DEF CollectInv, StraysOK
<1>8. ASSUME NEW u \in Turns
      PROVE  ReplyIsLast(u)'
  <2> SUFFICES ASSUME NEW i \in DOMAIN pipe', pipe'[i] = Sent("reply", u)
               PROVE  agent'[u].phase = "replied" /\ \A j \in UpdatesIn(pipe', u) : j < i
    BY DEF ReplyIsLast
  <2>1. CASE i \in DOMAIN pipe
    <3>1. agent[u].phase = "replied" /\ \A j \in UpdatesIn(pipe, u) : j < i
      BY <1>3, <2>1 DEF CollectInv, ReplyIsLast
    <3>2. u # t
      BY <3>1
    <3> QED
      BY <1>5, <3>1, <3>2
  <2>2. CASE i = Len(pipe) + 1
    <3>1. u = t /\ what = "reply"
      BY <1>3, <1>4, <2>2
    <3>2. \A j \in UpdatesIn(pipe, u) : j < i
      BY <1>3, <2>2 DEF UpdatesIn
    <3> QED
      BY <1>5, <3>1, <3>2
  <2> QED
    BY <1>3, <2>1, <2>2
<1>9. ASSUME NEW u \in Turns
      PROVE  CollectOK(u)'
  <2>1. CollectOK(u)
    BY DEF CollectInv
  <2>2. CASE u = t
    <3>1. turn[t].phase \notin {"idle", "answered", "done"}
      BY <2>1, <2>2 DEF CollectOK
    <3>2. agent'[t].phase # "none"
      OBVIOUS
    <3>3. turn[t].phase = "sent" =>
            turn[t].got[t] + Cardinality(UpdatesIn(pipe', t)) = agent'[t].sent
      <4>1. turn[t].phase = "sent" =>
            turn[t].got[t] + Cardinality(UpdatesIn(pipe, t)) = agent[t].sent
        BY <2>1, <2>2 DEF CollectOK
      <4> DEFINE got == turn[t].got[t]
                 now == Cardinality(UpdatesIn(pipe, t))
                 then == Cardinality(UpdatesIn(pipe', t))
                 sent == agent[t].sent
                 sentThen == agent'[t].sent
      <4>2. got \in Nat /\ sent \in Nat
        BY <1>1
      <4>3. now \in Nat
        BY <1>5
      <4>4. then = IF what = "update" THEN now + 1 ELSE now
        BY <1>5
      <4>5. sentThen = IF what = "update" THEN sent + 1 ELSE sent
        OBVIOUS
      <4> HIDE DEF got, now, then, sent, sentThen
      <4>6. got + now = sent => got + then = sentThen
        BY <4>2, <4>3, <4>4, <4>5
      <4> QED
        BY <4>1, <4>6 DEF got, now, then, sent, sentThen
    <3> QED
      BY <2>2, <3>1, <3>2, <3>3 DEF CollectOK
  <2>3. CASE u # t
    <3>1. agent'[u] = agent[u] /\ UpdatesIn(pipe', u) = UpdatesIn(pipe, u)
      BY <1>5, <2>3
    <3>2. (\A i \in DOMAIN pipe : pipe[i].turn # u) => \A i \in DOMAIN pipe' : pipe'[i].turn # u
      BY <1>2, <1>3, <2>3
    <3> QED
      BY <2>1, <3>1, <3>2 DEF CollectOK
  <2> QED
    BY <2>2, <2>3
<1> QED
  BY <1>6, <1>7, <1>8, <1>9 DEF CollectInv

(* A step that leaves opencode's side, the streams and the pipe alone.     *)
LEMMA UntouchedCollects ==
    ASSUME CollectInv, UNCHANGED <<turn, stream, pipe, agent>>
    PROVE  CollectInv'
BY DEF CollectInv, TurnTypes, StreamsOK, TurnsInOrder, Open, Session, ReplyIsLast, CollectOK,
       StraysOK

LEMMA BeginCollects ==
    ASSUME TurnsAssumption, CollectInv, NEW t \in Turns, NEW kind \in {"run", "message"},
           Begin(t, kind)
    PROVE  CollectInv'
<1> DEFINE s == IF kind = "run" THEN t ELSE Shared
<1>1. /\ turn \in [Turns -> TurnValue] /\ agent \in [Turns -> AgentValue] /\ TurnTypes
      /\ turn[t] \in TurnValue /\ agent[t] \in AgentValue
      /\ stream \in [Turns \cup {Shared} -> Turns \cup {NoTurn}]
      /\ Turns \subseteq Nat /\ Shared \notin Turns /\ NoTurn \notin Turns
  BY DEF CollectInv, TurnTypes, TurnsAssumption
<1>2. /\ turn[t].phase = "idle" /\ \A u \in Turns : u < t => turn[u].phase # "idle"
      /\ kind = "message" => \A u \in Turns : turn[u].kind = "message" => ~Open(u)
      /\ pipe' = pipe
  BY DEF Begin, Open
<1>3. /\ turn'[t].kind = kind /\ turn'[t].phase = "sent" /\ turn'[t].got = turn[t].got
      /\ \A u \in Turns : u # t => turn'[u] = turn[u]
      /\ turn' \in [Turns -> TurnValue]
  BY <1>1 DEF Begin, TurnValue
<1>4. stream' = [stream EXCEPT ![s] = t] /\ s \in Turns \cup {Shared}
  BY DEF Begin
<1>5. /\ agent'[t].phase = "working" /\ agent'[t].sent = agent[t].sent
      /\ \A u \in Turns : u # t => agent'[u] = agent[u]
      /\ agent' \in [Turns -> AgentValue]
  BY <1>1 DEF Begin, AgentValue
<1>6. TurnTypes'
  BY <1>1, <1>2, <1>3, <1>4, <1>5 DEF TurnTypes
<1>7. TurnsInOrder'
  <2>1. \A u \in Turns : t < u => turn[u].phase = "idle"
    BY <1>2 DEF CollectInv, TurnsInOrder
  <2>2. \A u \in Turns : u # t /\ turn[u].phase # "idle" => u < t
    BY <1>1, <2>1
  <2>3. \A u, v \in Turns : u < v /\ turn'[u].phase = "idle" => turn'[v].phase = "idle"
    BY <1>1, <1>2, <1>3, <2>2 DEF CollectInv, TurnsInOrder
  <2>4. ASSUME NEW v \in Turns, NEW u \in Turns, Open(v)', turn'[u].phase # "idle", u # v,
               turn'[v].kind = "message", turn'[u].kind = "message"
        PROVE  u < v
    <3>1. CASE v = t
      BY <1>3, <2>2, <2>4, <3>1
    <3>2. CASE v # t
      <4>1. Open(v) /\ turn[v].kind = "message"
        BY <1>3, <2>4, <3>2 DEF Open
      <4>2. u # t
        BY <1>2, <1>3, <2>4, <4>1
      <4> QED
        BY <1>3, <2>4, <3>2, <4>1, <4>2 DEF CollectInv, TurnsInOrder
    <3> QED
      BY <3>1, <3>2
  <2> QED
    BY <2>3, <2>4 DEF TurnsInOrder
<1>8. /\ Session(t)' = s
      /\ \A u \in Turns : u # t => Session(u)' = Session(u) /\ (Open(u)' <=> Open(u))
      /\ ~Open(t) /\ Open(t)'
  BY <1>2, <1>3 DEF Session, Open
<1>9. \A u \in Turns : u # t /\ Open(u) => Session(u) # s
  <2>1. \A u \in Turns : turn[u].kind \in {"run", "message"}
    BY <1>1 DEF TurnValue
  <2> QED
    BY <1>1, <1>2, <2>1 DEF Session
<1>10. StreamsOK'
  <2>1. ASSUME NEW z \in Turns \cup {Shared}, NEW u \in Turns
        PROVE  stream'[z] = u <=> Open(u)' /\ Session(u)' = z
    <3>1. stream[z] = u <=> Open(u) /\ Session(u) = z
      BY DEF CollectInv, StreamsOK
    <3>2. stream'[z] = IF z = s THEN t ELSE stream[z]
      BY <1>1, <1>4
    <3> HIDE DEF s
    <3>3. CASE u = t
      BY <1>8, <3>1, <3>2, <3>3
    <3>4. CASE u # t
      <4>1. Session(u)' = Session(u) /\ (Open(u)' <=> Open(u))
        BY <1>8, <3>4
      <4> QED
        BY <1>9, <3>1, <3>2, <3>4, <4>1
    <3> QED
      BY <3>3, <3>4
  <2> QED
    BY <2>1 DEF StreamsOK
<1>11. \A i \in DOMAIN pipe : pipe[i].turn # t
  BY <1>2 DEF CollectInv, CollectOK
<1>12. /\ UpdatesIn(pipe, t) = {} /\ Cardinality(UpdatesIn(pipe, t)) = 0
  <2>1. UpdatesIn(pipe, t) = {}
    BY <1>11 DEF UpdatesIn, Sent
  <2> QED
    BY <2>1, FS_EmptySet
<1>13. ASSUME NEW u \in Turns
       PROVE  ReplyIsLast(u)'
  <2>1. CASE u = t
    BY <1>2, <1>11, <2>1 DEF ReplyIsLast, Sent
  <2>2. CASE u # t
    BY <1>2, <1>5, <2>2 DEF CollectInv, ReplyIsLast
  <2> QED
    BY <2>1, <2>2
<1>14. ASSUME NEW u \in Turns
       PROVE  CollectOK(u)'
  <2>1. CASE u = t
    <3>1. agent[t].sent = 0 /\ turn[t].got[t] = 0
      BY <1>2 DEF CollectInv, CollectOK
    <3>2. turn'[t].got[t] = 0 /\ agent'[t].sent = 0
      BY <1>3, <1>5, <3>1
    <3>3. turn'[t].got[t] + Cardinality(UpdatesIn(pipe, t)) = agent'[t].sent
      BY <1>12, <3>2
    <3>4. turn'[t].phase = "sent" /\ agent'[t].phase = "working"
      BY <1>3, <1>5
    <3> QED
      BY <1>2, <2>1, <3>3, <3>4 DEF CollectOK
  <2>2. CASE u # t
    BY <1>2, <1>3, <1>5, <2>2 DEF CollectInv, CollectOK
  <2> QED
    BY <2>1, <2>2
<1>15. ASSUME NEW u \in Turns
       PROVE  StraysOK(u)'
  <2>1. ASSUME NEW v \in Turns \ {u}, turn'[u].got[v] > 0
        PROVE  /\ v < u /\ turn'[v].phase = "timeout"
               /\ turn'[v].kind = "message" /\ turn'[u].kind = "message"
    <3>1. u # t
      <4>1. turn[t].got[v] = 0
        BY <1>2 DEF CollectInv, CollectOK
      <4> QED
        BY <1>3, <2>1, <4>1
    <3>2. turn'[u] = turn[u]
      BY <1>3, <3>1
    <3>3. /\ v < u /\ turn[v].phase = "timeout"
          /\ turn[v].kind = "message" /\ turn[u].kind = "message"
      BY <2>1, <3>2 DEF CollectInv, StraysOK
    <3> QED
      BY <1>2, <1>3, <3>2, <3>3
  <2> QED
    BY <2>1 DEF StraysOK
<1> QED
  BY <1>6, <1>7, <1>10, <1>13, <1>14, <1>15 DEF CollectInv

(* The end of a turn, by its reply or by its timeout.                      *)
LEMMA CloseCollects ==
    ASSUME TurnsAssumption, CollectInv, NEW t \in Turns, NEW phase \in {"done", "timeout"},
           Open(t), phase = "done" => turn[t].phase = "answered",
           Close(t, phase), pipe' = pipe, agent' \in [Turns -> AgentValue],
           \A u \in Turns : u # t => agent'[u] = agent[u],
           /\ agent'[t].sent = agent[t].sent
           /\ agent[t].phase # "none" => agent'[t].phase # "none"
           /\ agent[t].phase = "replied" => agent'[t].phase = "replied"
    PROVE  CollectInv'
<1>1. /\ turn \in [Turns -> TurnValue] /\ TurnTypes /\ turn[t] \in TurnValue
      /\ stream \in [Turns \cup {Shared} -> Turns \cup {NoTurn}]
      /\ Turns \subseteq Nat /\ Shared \notin Turns /\ NoTurn \notin Turns
  BY DEF CollectInv, TurnTypes, TurnsAssumption
<1>2. /\ turn'[t].kind = turn[t].kind /\ turn'[t].phase = phase /\ turn'[t].got = turn[t].got
      /\ \A u \in Turns : u # t => turn'[u] = turn[u]
      /\ turn' \in [Turns -> TurnValue]
  BY <1>1 DEF Close, TurnValue
<1>3. stream' = [stream EXCEPT ![Session(t)] = NoTurn]
  BY DEF Close
<1>4. TurnTypes'
  BY <1>1, <1>2, <1>3 DEF TurnTypes
<1>5. /\ ~Open(t)' /\ \A u \in Turns : u # t => (Open(u)' <=> Open(u))
      /\ \A u \in Turns : Session(u)' = Session(u) /\ Session(u) \in Turns \cup {Shared}
  BY <1>2 DEF Open, Session
<1>6. TurnsInOrder'
  <2>1. \A u \in Turns : /\ turn'[u].phase = "idle" <=> turn[u].phase = "idle"
                         /\ turn'[u].kind = turn[u].kind
    BY <1>2 DEF Open
  <2> QED
    BY <1>5, <2>1 DEF CollectInv, TurnsInOrder
<1>7. StreamsOK'
  <2>1. ASSUME NEW z \in Turns \cup {Shared}, NEW u \in Turns
        PROVE  stream'[z] = u <=> Open(u)' /\ Session(u)' = z
    <3>1. /\ stream[z] = u <=> Open(u) /\ Session(u) = z
          /\ stream[z] = t <=> Session(t) = z
      BY DEF CollectInv, StreamsOK
    <3>2. stream'[z] = IF z = Session(t) THEN NoTurn ELSE stream[z]
      BY <1>1, <1>3
    <3>3. Session(u)' = Session(u) /\ (Open(u)' <=> u # t /\ Open(u))
      BY <1>5
    <3> QED
      BY <1>1, <3>1, <3>2, <3>3
  <2> QED
    BY <2>1 DEF StreamsOK
<1>8. ASSUME NEW u \in Turns
      PROVE  ReplyIsLast(u)' /\ CollectOK(u)' /\ StraysOK(u)'
  <2>1. ReplyIsLast(u) /\ CollectOK(u) /\ StraysOK(u)
    BY DEF CollectInv
  <2>2. ReplyIsLast(u)'
    BY <2>1 DEF ReplyIsLast
  <2>3. CollectOK(u)'
    <3>1. CASE u = t
      <4>1. agent[t].phase # "none" => agent'[t].phase # "none"
        OBVIOUS
      <4>2. turn[t].phase # "idle" /\ agent[t].phase = "none" =>
              agent'[t].sent = 0 /\ \A i \in DOMAIN pipe' : pipe'[i].turn # t
        BY <2>1, <3>1 DEF CollectOK
      <4>3. turn[t].phase \in {"sent", "answered"}
        BY DEF Open
      <4>4. turn[t].got[t] + Cardinality(UpdatesIn(pipe, t)) = agent[t].sent
        BY <2>1, <3>1, <4>3 DEF CollectOK
      <4>5. phase = "done" => agent[t].phase = "replied" /\ UpdatesIn(pipe, t) = {}
        BY <2>1, <3>1 DEF CollectOK
      <4> QED
        BY <1>2, <3>1, <4>1, <4>2, <4>3, <4>4, <4>5 DEF CollectOK
    <3>2. CASE u # t
      BY <1>2, <2>1, <3>2 DEF CollectOK
    <3> QED
      BY <3>1, <3>2
  <2>4. StraysOK(u)'
    <3>1. \A v \in Turns : /\ turn'[v].got = turn[v].got /\ turn'[v].kind = turn[v].kind
                           /\ turn[v].phase = "timeout" => turn'[v].phase = "timeout"
      BY <1>2 DEF Open
    <3> QED
      BY <2>1, <3>1 DEF StraysOK
  <2> QED
    BY <2>2, <2>3, <2>4
<1> QED
  BY <1>4, <1>6, <1>7, <1>8 DEF CollectInv

(* The reader takes a message, of which turn' tells what became.           *)
LEMMA TakingCollects ==
    ASSUME TurnsAssumption, CollectInv, pipe # <<>>, pipe' = Tail(pipe),
           UNCHANGED <<stream, agent>>, NEW t \in Turns, Head(pipe).turn = t,
           \/ Head(pipe).what = "update" /\ OnUpdate(t)
           \/ Head(pipe).what = "reply" /\ OnReply(t)
           \/ Head(pipe).what \notin {"update", "reply"} /\ turn' = turn
    PROVE  CollectInv'
<1>1. /\ turn \in [Turns -> TurnValue] /\ TurnTypes /\ pipe \in Seq(Messages)
      /\ stream \in [Turns \cup {Shared} -> Turns \cup {NoTurn}]
      /\ Turns \subseteq Nat /\ Shared \notin Turns /\ NoTurn \notin Turns
      /\ \A u \in Turns : turn[u].got \in [Turns -> Nat] /\ agent[u].sent \in Nat
  BY DEF CollectInv, TurnTypes, TurnsAssumption, TurnValue, AgentValue
<1>2. /\ Head(pipe) \in Messages /\ pipe' \in Seq(Messages) /\ Len(pipe) \in Nat
      /\ Head(pipe) = pipe[1] /\ 1 \in DOMAIN pipe
      /\ \A i \in DOMAIN pipe' : /\ i \in Nat /\ i >= 1
                                 /\ i + 1 \in DOMAIN pipe /\ pipe'[i] = pipe[i + 1]
  BY <1>1, HeadTailProperties
<1>3. Head(pipe) = Sent(Head(pipe).what, t)
  BY <1>2 DEF Messages, Sent
<1>4. \A u \in Turns : \A w : Head(pipe) = Sent(w, u) <=> w = Head(pipe).what /\ u = t
  BY <1>3 DEF Sent
<1>5. ASSUME NEW u \in Turns
      PROVE  /\ \A i \in UpdatesIn(pipe', u) : i + 1 \in UpdatesIn(pipe, u) /\ i \in Nat /\ i >= 1
             /\ Cardinality(UpdatesIn(pipe', u)) \in Nat
             /\ Cardinality(UpdatesIn(pipe, u)) =
                    IF u = t /\ Head(pipe).what = "update"
                    THEN Cardinality(UpdatesIn(pipe', u)) + 1
                    ELSE Cardinality(UpdatesIn(pipe', u))
             /\ UpdatesIn(pipe, u) = {} => UpdatesIn(pipe', u) = {}
  <2>1. Head(pipe) = Sent("update", u) <=> u = t /\ Head(pipe).what = "update"
    BY <1>4
  <2>2. \A i \in UpdatesIn(pipe', u) : i \in Nat /\ i >= 1
    BY <1>2 DEF UpdatesIn
  <2>3. /\ \A i \in UpdatesIn(pipe', u) : i + 1 \in UpdatesIn(pipe, u)
        /\ Cardinality(UpdatesIn(pipe, u)) =
              IF Head(pipe) = Sent("update", u) THEN Cardinality(UpdatesIn(pipe', u)) + 1
              ELSE Cardinality(UpdatesIn(pipe', u))
    BY <1>1, UpdatesTaken
  <2>4. Cardinality(UpdatesIn(pipe', u)) \in Nat
    BY <1>2, UpdatesFinite
  <2>5. UpdatesIn(pipe, u) = {} => UpdatesIn(pipe', u) = {}
    BY <2>3
  <2> HIDE DEF UpdatesIn
  <2> QED
    BY <2>1, <2>2, <2>3, <2>4, <2>5
<1>6. ASSUME NEW u \in Turns
      PROVE  ReplyIsLast(u)'
  <2> SUFFICES ASSUME NEW i \in DOMAIN pipe', pipe'[i] = Sent("reply", u)
               PROVE  agent[u].phase = "replied" /\ \A j \in UpdatesIn(pipe', u) : j < i
    BY DEF ReplyIsLast
  <2>1. agent[u].phase = "replied" /\ \A j \in UpdatesIn(pipe, u) : j < i + 1
    BY <1>2 DEF CollectInv, ReplyIsLast
  <2> QED
    BY <1>2, <1>5, <2>1
<1>7. ASSUME NEW u \in Turns
      PROVE  (\A i \in DOMAIN pipe : pipe[i].turn # u) => \A i \in DOMAIN pipe' : pipe'[i].turn # u
  BY <1>2
<1>8. ASSUME turn' \in [Turns -> TurnValue],
             \A u \in Turns : /\ turn'[u].kind = turn[u].kind
                              /\ \/ turn'[u].phase = turn[u].phase
                                 \/ Open(u) /\ turn'[u].phase = "answered"
      PROVE  TurnTypes' /\ StreamsOK' /\ TurnsInOrder'
  <2>1. TurnTypes'
    BY <1>1, <1>2, <1>8 DEF TurnTypes
  <2>2. \A u \in Turns : /\ Open(u)' <=> Open(u)
                         /\ Session(u)' = Session(u)
                         /\ turn'[u].phase = "idle" <=> turn[u].phase = "idle"
    BY <1>8 DEF Open, Session
  <2>3. StreamsOK'
    <3>1. ASSUME NEW z \in Turns \cup {Shared}, NEW u \in Turns
          PROVE  stream'[z] = u <=> Open(u)' /\ Session(u)' = z
      <4>1. stream[z] = u <=> Open(u) /\ Session(u) = z
        BY DEF CollectInv, StreamsOK
      <4>2. stream'[z] = stream[z] /\ (Open(u)' <=> Open(u)) /\ Session(u)' = Session(u)
        BY <2>2
      <4> QED
        BY <4>1, <4>2
    <3> QED
      BY <3>1 DEF StreamsOK
  <2>4. TurnsInOrder'
    BY <1>8, <2>2 DEF CollectInv, TurnsInOrder
  <2> QED
    BY <2>1, <2>3, <2>4
<1>9. ASSUME turn' = turn, Head(pipe).what = "update" => turn[t].phase \notin {"sent", "answered", "done"}
      PROVE  CollectInv'
  <2>1. TurnTypes' /\ StreamsOK' /\ TurnsInOrder'
    BY <1>1, <1>8, <1>9
  <2>2. ASSUME NEW u \in Turns
        PROVE  CollectOK(u)' /\ StraysOK(u)'
    <3>1. CollectOK(u) /\ StraysOK(u)
      BY DEF CollectInv
    <3>2. CollectOK(u)'
      BY <1>5, <1>7, <1>9, <3>1 DEF CollectOK
    <3> QED
      BY <1>9, <3>1, <3>2 DEF StraysOK
  <2> QED
    BY <1>6, <2>1, <2>2 DEF CollectInv
<1>10. CASE Head(pipe).what = "reply" /\ OnReply(t) /\ turn[t].phase = "sent"
  <2>1. /\ turn'[t].phase = "answered" /\ turn'[t].kind = turn[t].kind
        /\ turn'[t].got = turn[t].got
        /\ \A u \in Turns : u # t => turn'[u] = turn[u]
        /\ turn' \in [Turns -> TurnValue]
    <3> DEFINE w == [turn[t] EXCEPT !.phase = "answered"]
    <3>1. turn' = [turn EXCEPT ![t] = w]
      BY <1>10 DEF OnReply
    <3>2. w \in TurnValue /\ w.phase = "answered" /\ w.kind = turn[t].kind /\ w.got = turn[t].got
      <4>1. turn[t] \in TurnValue /\ turn[t].got \in [Turns -> Nat]
        BY <1>1
      <4> QED
        BY <4>1, PhaseChanged
    <3> HIDE DEF w
    <3> QED
      BY <1>1, <3>1, <3>2
  <2>2. TurnTypes' /\ StreamsOK' /\ TurnsInOrder'
    BY <1>8, <1>10, <2>1 DEF Open
  <2>3. agent[t].phase = "replied" /\ UpdatesIn(pipe, t) = {}
    <3>1. agent[t].phase = "replied" /\ \A j \in UpdatesIn(pipe, t) : j < 1
      BY <1>2, <1>4, <1>10 DEF CollectInv, ReplyIsLast
    <3>2. \A j \in UpdatesIn(pipe, t) : j \in Nat /\ j >= 1
      BY <1>1 DEF UpdatesIn
    <3> QED
      BY <3>1, <3>2
  <2>4. ASSUME NEW u \in Turns
        PROVE  CollectOK(u)'
    <3>1. CollectOK(u)
      BY DEF CollectInv
    <3>2. CASE u = t
      BY <1>5, <1>7, <1>10, <2>1, <2>3, <3>1, <3>2 DEF CollectOK
    <3>3. CASE u # t
      BY <1>5, <1>7, <2>1, <3>1, <3>3 DEF CollectOK
    <3> QED
      BY <3>2, <3>3
  <2>5. ASSUME NEW u \in Turns
        PROVE  StraysOK(u)'
    <3>1. StraysOK(u)
      BY DEF CollectInv
    <3>2. \A v \in Turns : /\ turn'[v].got = turn[v].got /\ turn'[v].kind = turn[v].kind
                           /\ turn[v].phase = "timeout" => turn'[v].phase = "timeout"
      BY <1>10, <2>1
    <3> QED
      BY <3>1, <3>2 DEF StraysOK
  <2> QED
    BY <1>6, <2>2, <2>4, <2>5 DEF CollectInv
<1>11. CASE Head(pipe).what = "update" /\ OnUpdate(t) /\ StreamOf(t) # NoTurn
  <2> DEFINE v == StreamOf(t)
  <2>1. 1 \in UpdatesIn(pipe, t)
    BY <1>2, <1>4, <1>11 DEF UpdatesIn
  <2>2. turn[t].phase \notin {"idle", "answered", "done"}
    <3>1. CollectOK(t)
      BY DEF CollectInv
    <3>2. turn[t].phase \notin {"answered", "done"}
      BY <2>1, <3>1 DEF CollectOK
    <3>3. turn[t].phase # "idle"
      BY <1>2, <3>1 DEF CollectOK
    <3> QED
      BY <3>2, <3>3
  <2>3. Session(t) \in Turns \cup {Shared} /\ v \in Turns /\ Open(v) /\ Session(v) = Session(t)
    <3>1. Session(t) \in Turns \cup {Shared}
      BY DEF Session
    <3>2. v = stream[Session(t)] /\ v # NoTurn
      BY <1>11 DEF StreamOf
    <3> HIDE DEF v
    <3>3. v \in Turns
      BY <1>1, <3>1, <3>2
    <3>4. Open(v) /\ Session(v) = Session(t)
      BY <3>1, <3>2, <3>3 DEF CollectInv, StreamsOK
    <3> QED
      BY <3>1, <3>3, <3>4
  <2>4. turn[t].phase = "sent" => v = t
    <3>1. Open(t) => stream[Session(t)] = t
      BY <2>3 DEF CollectInv, StreamsOK
    <3> QED
      BY <3>1 DEF Open, StreamOf
  <2>5. v # t => /\ turn[t].phase = "timeout" /\ t < v
                 /\ turn[t].kind = "message" /\ turn[v].kind = "message"
    <3>1. ASSUME v # t
          PROVE  turn[t].kind = "message" /\ turn[v].kind = "message"
      BY <1>1, <2>3, <3>1 DEF Session, TurnValue
    <3>2. ASSUME v # t
          PROVE  turn[t].phase = "timeout"
      BY <1>1, <2>2, <2>4, <3>2 DEF TurnValue
    <3> HIDE DEF v
    <3>3. ASSUME v # t
          PROVE  t < v
      BY <2>3, <3>1, <3>2, <3>3 DEF CollectInv, TurnsInOrder
    <3> QED
      BY <3>1, <3>2, <3>3
  <2>6. v = t => turn[t].phase = "sent"
    BY <2>2, <2>3 DEF Open
  <2>7. turn' = [turn EXCEPT ![v].got[t] = @ + 1]
    BY <1>11 DEF OnUpdate
  <2> HIDE DEF v
  <2>8. /\ turn'[v].phase = turn[v].phase /\ turn'[v].kind = turn[v].kind
        /\ turn'[v].got = [turn[v].got EXCEPT ![t] = @ + 1]
        /\ turn'[v].got \in [Turns -> Nat]
        /\ \A u \in Turns : u # v => turn'[u] = turn[u]
        /\ turn' \in [Turns -> TurnValue]
    <3> DEFINE got == [turn[v].got EXCEPT ![t] = turn[v].got[t] + 1]
               w == [turn[v] EXCEPT !.got = got]
    <3>1. turn' = [turn EXCEPT ![v] = w]
      BY <2>7
    <3>2. got \in [Turns -> Nat]
      <4> DEFINE old == turn[v].got
      <4>1. old \in [Turns -> Nat]
        BY <1>1, <2>3
      <4> HIDE DEF old
      <4>2. [old EXCEPT ![t] = old[t] + 1] \in [Turns -> Nat]
        BY <4>1
      <4> QED
        BY <4>2 DEF old
    <3> HIDE DEF got
    <3>3. /\ w \in TurnValue /\ w.phase = turn[v].phase /\ w.kind = turn[v].kind
          /\ w.got = got
      <4>1. turn[v] \in TurnValue
        BY <1>1, <2>3
      <4> QED
        BY <3>2, <4>1, GotChanged
    <3> HIDE DEF w
    <3> QED
      BY <1>1, <2>3, <3>1, <3>2, <3>3 DEF got
  <2>9. /\ turn'[v].got[t] = turn[v].got[t] + 1
        /\ \A u \in Turns : u # t => turn'[v].got[u] = turn[v].got[u]
    BY <1>1, <2>3, <2>8
  <2>10. TurnTypes' /\ StreamsOK' /\ TurnsInOrder'
    BY <1>8, <2>8
  <2>11. ASSUME NEW u \in Turns
         PROVE  CollectOK(u)'
    <3>1. CollectOK(u)
      BY DEF CollectInv
    <3>2. CASE u = t /\ v = t
      <4>1. turn[t].got[t] + Cardinality(UpdatesIn(pipe, t)) = agent[t].sent
        BY <2>6, <3>1, <3>2 DEF CollectOK
      <4>2. turn'[t].got[t] + Cardinality(UpdatesIn(pipe', t)) = agent[t].sent
        <5>1. turn[t].got[t] \in Nat /\ agent[t].sent \in Nat
          BY <1>1
        <5>2. turn'[t].got[t] = turn[t].got[t] + 1
          BY <2>9, <3>2
        <5>3. /\ Cardinality(UpdatesIn(pipe, t)) = Cardinality(UpdatesIn(pipe', t)) + 1
              /\ Cardinality(UpdatesIn(pipe', t)) \in Nat
          BY <1>5, <1>11
        <5> DEFINE got == turn[t].got[t]
                   left == Cardinality(UpdatesIn(pipe', t))
        <5>4. got + (left + 1) = agent[t].sent /\ got \in Nat /\ left \in Nat
          BY <4>1, <5>1, <5>3
        <5> HIDE DEF got, left
        <5>5. (got + 1) + left = agent[t].sent
          BY <5>4
        <5> QED
          BY <5>2, <5>5 DEF got, left
      <4>3. turn'[t].phase = "sent"
        BY <2>6, <2>8, <3>2
      <4> QED
        BY <1>7, <3>1, <3>2, <4>2, <4>3 DEF CollectOK
    <3>3. CASE u = t /\ v # t
      <4>1. turn'[t].phase = "timeout"
        BY <2>5, <2>8, <3>3
      <4> QED
        BY <1>7, <3>1, <3>3, <4>1 DEF CollectOK
    <3>4. CASE u # t
      <4>1. turn'[u].phase = turn[u].phase /\ turn'[u].got[u] = turn[u].got[u]
        BY <2>8, <2>9, <3>4
      <4>2. turn[u].phase = "idle" => turn'[u] = turn[u]
        BY <2>3, <2>8 DEF Open
      <4>3. /\ Cardinality(UpdatesIn(pipe', u)) = Cardinality(UpdatesIn(pipe, u))
            /\ UpdatesIn(pipe, u) = {} => UpdatesIn(pipe', u) = {}
        BY <1>5, <3>4
      <4> QED
        BY <1>7, <3>1, <4>1, <4>2, <4>3 DEF CollectOK
    <3> QED
      BY <3>2, <3>3, <3>4
  <2>12. ASSUME NEW u \in Turns
         PROVE  StraysOK(u)'
    <3>1. \A w \in Turns : turn'[w].phase = turn[w].phase /\ turn'[w].kind = turn[w].kind
      BY <2>8
    <3>2. ASSUME NEW w \in Turns \ {u}, turn'[u].got[w] > 0
          PROVE  /\ w < u /\ turn[w].phase = "timeout"
                 /\ turn[w].kind = "message" /\ turn[u].kind = "message"
      <4>1. CASE u = v /\ w = t
        BY <2>5, <3>2, <4>1
      <4>2. CASE ~(u = v /\ w = t)
        <5>1. turn'[u].got[w] = turn[u].got[w]
          BY <2>8, <2>9, <4>2
        <5> QED
          BY <3>2, <5>1 DEF CollectInv, StraysOK
      <4> QED
        BY <4>1, <4>2
    <3> QED
      BY <3>1, <3>2 DEF StraysOK
  <2> QED
    BY <1>6, <2>10, <2>11, <2>12 DEF CollectInv
<1>12. CASE Head(pipe).what = "update" /\ OnUpdate(t) /\ StreamOf(t) = NoTurn
  <2>1. turn' = turn
    BY <1>12 DEF OnUpdate
  <2>2. ~Open(t)
    <3>1. Session(t) \in Turns \cup {Shared} /\ stream[Session(t)] # t
      BY <1>1, <1>12 DEF StreamOf, Session
    <3> QED
      BY <3>1 DEF CollectInv, StreamsOK
  <2>3. turn[t].phase # "done"
    <3>1. 1 \in UpdatesIn(pipe, t)
      BY <1>2, <1>4, <1>12 DEF UpdatesIn
    <3> QED
      BY <3>1 DEF CollectInv, CollectOK
  <2> QED
    BY <1>9, <2>1, <2>2, <2>3 DEF Open
<1>13. CASE Head(pipe).what = "reply" /\ OnReply(t) /\ turn[t].phase # "sent"
  BY <1>9, <1>13 DEF OnReply
<1>14. CASE Head(pipe).what \notin {"update", "reply"} /\ turn' = turn
  BY <1>9, <1>14
<1> QED
  BY <1>10, <1>11, <1>12, <1>13, <1>14

LEMMA TurnsStepCollects ==
    ASSUME TurnsAssumption, CollectInv, [TurnsStep]_turnVars
    PROVE  CollectInv'
<1>1. /\ turn \in [Turns -> TurnValue] /\ agent \in [Turns -> AgentValue]
  BY DEF CollectInv, TurnTypes
<1>2. ASSUME NEW t \in Turns, EndTurn(t)
      PROVE  CollectInv'
  BY <1>1, <1>2, CloseCollects DEF EndTurn, Open
<1>3. ASSUME NEW t \in Turns, TimeOut(t)
      PROVE  CollectInv'
  <2>1. /\ agent' \in [Turns -> AgentValue] /\ agent'[t].sent = agent[t].sent
        /\ \A u \in Turns : u # t => agent'[u] = agent[u]
        /\ agent[t].phase # "none" => agent'[t].phase # "none"
        /\ agent[t].phase = "replied" => agent'[t].phase = "replied"
    BY <1>1, <1>3 DEF TimeOut, AgentValue
  <2>2. Open(t) /\ Close(t, "timeout") /\ pipe' = pipe
    BY <1>3 DEF TimeOut, Open
  <2> QED
    BY <2>1, <2>2, CloseCollects
<1>4. ASSUME NEW t \in Turns, SendUpdate(t)
      PROVE  CollectInv'
  <2>1. /\ agent' \in [Turns -> AgentValue] /\ agent'[t].sent = agent[t].sent + 1
        /\ agent'[t].phase = agent[t].phase
        /\ \A u \in Turns : u # t => agent'[u] = agent[u]
    BY <1>1, <1>4 DEF SendUpdate, AgentValue
  <2>2. /\ pipe' = Append(pipe, Sent("update", t)) /\ UNCHANGED <<turn, stream>>
        /\ agent[t].phase \in {"working", "cancelling"}
    BY <1>4 DEF SendUpdate, WritePipe, Sent
  <2> QED
    BY <2>1, <2>2, WritingCollects
<1>5. ASSUME NEW t \in Turns, SendReply(t)
      PROVE  CollectInv'
  <2>1. /\ agent' \in [Turns -> AgentValue] /\ agent'[t].sent = agent[t].sent
        /\ agent'[t].phase = "replied"
        /\ \A u \in Turns : u # t => agent'[u] = agent[u]
    BY <1>1, <1>5 DEF SendReply, AgentValue
  <2>2. /\ pipe' = Append(pipe, Sent("reply", t)) /\ UNCHANGED <<turn, stream>>
        /\ agent[t].phase \in {"working", "cancelling"}
    BY <1>5 DEF SendReply, WritePipe, Sent
  <2> QED
    BY <2>1, <2>2, WritingCollects
<1>6. ASSUME NEW t \in Turns, NEW what \in {"create", "wait", "kill", "release"},
             AskTerminal(t, what)
      PROVE  CollectInv'
  <2>1. /\ agent' \in [Turns -> AgentValue] /\ agent'[t].sent = agent[t].sent
        /\ agent'[t].phase = agent[t].phase
        /\ \A u \in Turns : u # t => agent'[u] = agent[u]
    BY <1>1, <1>6 DEF AskTerminal, AgentValue
  <2>2. /\ pipe' = Append(pipe, Sent(what, t)) /\ UNCHANGED <<turn, stream>>
        /\ agent[t].phase \in {"working", "cancelling"}
    BY <1>6 DEF AskTerminal, WritePipe, Sent
  <2> QED
    BY <2>1, <2>2, WritingCollects
<1>7. CASE ReadNext
  <2> DEFINE what == Head(pipe).what
             t == Head(pipe).turn
  <2>1. pipe # <<>> /\ pipe' = Tail(pipe) /\ agent' = agent
    BY <1>7 DEF ReadNext
  <2>2. t \in Turns
    <3>1. Head(pipe) \in Messages
      BY <2>1, HeadTailProperties DEF CollectInv, TurnTypes
    <3> QED
      BY <3>1 DEF Messages
  <2>3. \/ what = "update" /\ OnUpdate(t)
        \/ what = "reply" /\ OnReply(t)
        \/ what \notin {"update", "reply"} /\ turn' = turn /\ stream' = stream
    BY <1>7 DEF ReadNext, OnCreate, OnWait, OnKill, OnRelease
  <2>4. stream' = stream
    BY <2>3 DEF OnUpdate, OnReply
  <2> QED
    BY <2>1, <2>2, <2>3, <2>4, TakingCollects
<1>8. CASE \/ Resume \/ UNCHANGED turnVars
           \/ \E t \in Turns : CommandEnds(t) \/ ExitSeen(t)
  BY <1>8, UntouchedCollects DEF Resume, turnVars, CommandEnds, ExitSeen
<1> QED
  BY <1>2, <1>3, <1>4, <1>5, <1>6, <1>7, <1>8, BeginCollects DEF TurnsStep

(* A turn that was answered has every update opencode sent for it before   *)
(* the answer: none is left in the pipe behind the reply, and the queue    *)
(* they went to was its own.  It has another turn's only if that is an     *)
(* earlier message of the chat which was given up and never cancelled.     *)
THEOREM TurnsCollectTheirUpdates == TurnsSpec => []TurnCollectsItsUpdates
<1>1. InitTurns => CollectInv
  BY InitCollect, TurnsAssumption
<1>2. CollectInv /\ [TurnsStep]_turnVars => CollectInv'
  BY TurnsStepCollects, TurnsAssumption
<1>3. CollectInv => TurnCollectsItsUpdates
  <2> SUFFICES ASSUME CollectInv, NEW t \in Turns, turn[t].phase \in {"answered", "done"}
               PROVE  turn[t].got[t] = agent[t].sent /\ StraysOK(t)
    BY DEF TurnCollectsItsUpdates, StraysOK
  <2>1. CollectOK(t) /\ StraysOK(t) /\ turn[t].got[t] \in Nat
    BY DEF CollectInv, TurnTypes, TurnValue
  <2>2. Cardinality(UpdatesIn(pipe, t)) = 0
    BY <2>1, FS_EmptySet DEF CollectOK
  <2> QED
    BY <2>1, <2>2 DEF CollectOK
<1> QED
  BY <1>1, <1>2, <1>3, PTL DEF TurnsSpec

-----------------------------------------------------------------------------
(* The signed card.                                                        *)

CardValue == [build : Nat, key : Nat]
HolderValue == [up : BOOLEAN, key : Nat, cache : CardValue, extended : CardValue,
                lock : Threads \cup {NoThread}]
UserValue == [call : {"none", "cache", "extended", "reload", "fallback"},
              at : {"idle", "locking", "building", "returning", "returned"},
              card : CardValue, floor : Nat, raced : BOOLEAN]

SigningTypes ==
    /\ keyfile \in [is : {"missing", "torn", "key"}, key : Nat]
    /\ holder \in HolderValue
    /\ user \in [Threads -> UserValue]
    /\ built \in Nat
    /\ promise \in [floor : Nat, keys : SUBSET Nat, lost : SUBSET Nat]

(* A key that was published while it was in the file is still there, and   *)
(* the process has loaded it, but for the keys a start could not read.     *)
Kept == promise.keys \ promise.lost

PublishedKeyStays == Kept # {} =>
    /\ keyfile.is = "key" /\ Kept \subseteq {keyfile.key}
    /\ holder.up => holder.key = keyfile.key

Genuine(card) == card # NoCard => card.key = holder.key /\ card.build \in 1..built

(* Neither card is older than the last reload that has returned.           *)
HolderOK ==
    /\ ~holder.up => holder = Down
    /\ Genuine(holder.cache) /\ Genuine(holder.extended)
    /\ promise.floor <= holder.cache.build
    /\ holder.extended # NoCard => promise.floor <= holder.extended.build

(* Who builds has the lock, and builds what is newer than all there is.    *)
BuilderOK(t) == user[t].at = "building" =>
    /\ holder.lock = t
    /\ user[t].card = [build |-> built, key |-> holder.key]
    /\ holder.cache.build < built /\ holder.extended.build < built
    /\ user[t].call \notin {"extended", "reload"} => holder.cache = NoCard

(* Who is about to return finds a card, or has been overtaken by a reload; *)
(* and when a reload returns no extended card is left from before it.      *)
ReturnerOK(t) == user[t].at = "returning" =>
    /\ IF user[t].call = "extended" THEN holder.extended # NoCard \/ user[t].raced
       ELSE holder.cache # NoCard
    /\ user[t].call = "reload" =>
           holder.extended = NoCard \/ holder.extended.build > holder.cache.build

UserOK(t) ==
    /\ user[t].at # "idle" => holder.up
    /\ user[t].floor <= promise.floor
    /\ user[t].call = "fallback" => user[t].raced
    /\ user[t].at = "returned" =>
           user[t].card.key = holder.key /\ user[t].card.build >= user[t].floor

SigningInv ==
    /\ SigningTypes /\ PublishedKeyStays /\ HolderOK
    /\ \A t \in Threads : BuilderOK(t) /\ ReturnerOK(t) /\ UserOK(t)

LEMMA SigningStarts ==
    ASSUME SigningAssumption, SigningInv, ~holder.up, UNCHANGED <<user, built>>,
           promise' \in [floor : Nat, keys : SUBSET Nat, lost : SUBSET Nat],
           promise'.floor = promise.floor,
           keyfile' \in [is : {"missing", "torn", "key"}, key : Nat],
           \/ holder' = holder
           \/ \E key \in Nat : Start(key),
           PublishedKeyStays'
    PROVE  SigningInv'
<1>1. /\ holder = Down /\ SigningTypes /\ promise.floor = 0
  BY DEF SigningInv, HolderOK, Down, NoCard, SigningTypes
<1>2. /\ holder'.cache = NoCard /\ holder'.extended = NoCard /\ holder' \in HolderValue
      /\ ~holder'.up => holder' = Down
  <2>1. NoCard \in CardValue
    BY DEF NoCard, CardValue
  <2>2. Down \in HolderValue /\ Down.cache = NoCard /\ Down.extended = NoCard
    BY <2>1 DEF Down, HolderValue
  <2>3. ASSUME NEW key \in Nat, Start(key)
        PROVE  /\ holder'.cache = NoCard /\ holder'.extended = NoCard
               /\ holder' \in HolderValue /\ holder'.up
    BY <2>1, <2>3 DEF Start, Down, HolderValue
  <2> QED
    BY <1>1, <2>2, <2>3
<1>3. SigningTypes'
  BY <1>1, <1>2 DEF SigningTypes
<1>4. HolderOK'
  BY <1>1, <1>2 DEF HolderOK, Genuine, NoCard
<1>5. \A t \in Threads : user[t].at = "idle" /\ UserOK(t)
  BY DEF SigningInv, UserOK
<1>6. \A t \in Threads : user'[t].at = "idle" /\ BuilderOK(t)' /\ ReturnerOK(t)' /\ UserOK(t)'
  BY <1>5 DEF BuilderOK, ReturnerOK, UserOK
<1> QED
  BY <1>3, <1>4, <1>6 DEF SigningInv

LEMMA InitSigningInv ==
    ASSUME InitSigning
    PROVE  SigningInv
<1>1. NoCard \in CardValue /\ NoCard.build = 0
  BY DEF NoCard, CardValue
<1>2. Down \in HolderValue /\ ~Down.up /\ Down.cache = NoCard /\ Down.extended = NoCard
  BY <1>1 DEF Down, HolderValue
<1>3. Away \in UserValue /\ Away.at = "idle" /\ Away.floor = 0 /\ Away.call = "none"
  BY <1>1 DEF Away, UserValue
<1>4. SigningTypes
  BY <1>2, <1>3 DEF InitSigning, SigningTypes
<1>5. PublishedKeyStays
  BY DEF InitSigning, PublishedKeyStays, Kept
<1>6. HolderOK
  BY <1>1, <1>2 DEF InitSigning, HolderOK, Genuine
<1>7. \A t \in Threads : BuilderOK(t) /\ ReturnerOK(t) /\ UserOK(t)
  BY <1>3 DEF InitSigning, BuilderOK, ReturnerOK, UserOK
<1> QED
  BY <1>4, <1>5, <1>6, <1>7 DEF SigningInv

LEMMA CrashKeeps ==
    ASSUME SigningInv, Crash
    PROVE  SigningInv'
<1>1. NoCard \in CardValue /\ NoCard.build = 0
  BY DEF NoCard, CardValue
<1>2. Down \in HolderValue /\ ~Down.up /\ Down.cache = NoCard /\ Down.extended = NoCard
  BY <1>1 DEF Down, HolderValue
<1>3. Away \in UserValue /\ Away.at = "idle" /\ Away.floor = 0 /\ Away.call = "none"
  BY <1>1 DEF Away, UserValue
<1>4. /\ holder' = Down /\ keyfile' = keyfile /\ built' = built
      /\ \A t \in Threads : user'[t] = Away
      /\ user' \in [Threads -> UserValue]
      /\ promise' = [floor |-> 0, keys |-> promise.keys, lost |-> promise.lost]
  BY <1>3 DEF Crash, SigningInv, SigningTypes
<1>5. SigningTypes'
  BY <1>2, <1>4 DEF SigningInv, SigningTypes
<1>6. PublishedKeyStays'
  BY <1>2, <1>4 DEF SigningInv, PublishedKeyStays, Kept
<1>7. HolderOK'
  BY <1>1, <1>2, <1>4 DEF HolderOK, Genuine
<1>8. \A t \in Threads : BuilderOK(t)' /\ ReturnerOK(t)' /\ UserOK(t)'
  BY <1>3, <1>4 DEF BuilderOK, ReturnerOK, UserOK
<1> QED
  BY <1>5, <1>6, <1>7, <1>8 DEF SigningInv

LEMMA PublishKeeps ==
    ASSUME SigningInv, Publish
    PROVE  SigningInv'
<1>1. /\ promise' = [floor |-> promise.floor, keys |-> promise.keys \cup {holder.key},
                    lost |-> promise.lost]
      /\ keyfile = [is |-> "key", key |-> holder.key]
      /\ UNCHANGED <<keyfile, holder, user, built>>
  BY DEF Publish, SigningInv, SigningTypes
<1>2. SigningTypes'
  BY <1>1 DEF SigningInv, SigningTypes, HolderValue
<1>3. PublishedKeyStays'
  BY <1>1 DEF SigningInv, PublishedKeyStays, Kept
<1>4. HolderOK' /\ \A t \in Threads : BuilderOK(t)' /\ ReturnerOK(t)' /\ UserOK(t)'
  BY <1>1 DEF SigningInv, HolderOK, Genuine, BuilderOK, ReturnerOK, UserOK
<1> QED
  BY <1>2, <1>3, <1>4 DEF SigningInv

(* What one thread does to itself, while the holder stays as it is.        *)
LEMMA OneUserKeeps ==
    ASSUME SigningInv, UNCHANGED <<keyfile, holder, built>>, NEW t \in Threads,
           NEW u \in UserValue, user' = [user EXCEPT ![t] = u],
           NEW floor \in Nat, promise' = [floor |-> floor, keys |-> promise.keys, lost |-> promise.lost],
           promise.floor <= floor, floor <= holder.cache.build,
           holder.extended # NoCard => floor <= holder.extended.build,
           BuilderOK(t)', ReturnerOK(t)', UserOK(t)'
    PROVE  SigningInv'
<1>1. /\ user'[t] = u /\ \A v \in Threads : v # t => user'[v] = user[v]
      /\ user' \in [Threads -> UserValue]
  BY DEF SigningInv, SigningTypes
<1>2. SigningTypes'
  BY <1>1 DEF SigningInv, SigningTypes
<1>3. PublishedKeyStays' /\ HolderOK'
  BY DEF SigningInv, PublishedKeyStays, Kept, HolderOK, Genuine
<1>4. ASSUME NEW v \in Threads, v # t
      PROVE  BuilderOK(v)' /\ ReturnerOK(v)' /\ UserOK(v)'
  <2>1. BuilderOK(v) /\ ReturnerOK(v) /\ UserOK(v) /\ user'[v] = user[v]
    BY <1>1, <1>4 DEF SigningInv
  <2>2. user[v].floor \in Nat /\ promise.floor \in Nat
    BY DEF SigningInv, SigningTypes, UserValue
  <2> QED
    BY <2>1, <2>2 DEF BuilderOK, ReturnerOK, UserOK
<1> QED
  BY <1>2, <1>3, <1>4 DEF SigningInv

LEMMA CallKeeps ==
    ASSUME SigningInv, NEW t \in Threads, NEW what \in {"cache", "extended", "reload"},
           Call(t, what)
    PROVE  SigningInv'
<1> DEFINE seen == IF what = "extended" THEN holder.extended ELSE holder.cache
           at == IF what # "reload" /\ seen # NoCard THEN "returning" ELSE "locking"
           u == [Away EXCEPT !.call = what, !.floor = promise.floor, !.at = at]
<1>1. user' = [user EXCEPT ![t] = u] /\ UNCHANGED <<keyfile, holder, built, promise>> /\ holder.up
  BY DEF Call
<1>2. /\ u.call = what /\ u.floor = promise.floor /\ u.at = at /\ u \in UserValue
      /\ ~u.raced
  <2> HIDE DEF seen
  <2>1. promise.floor \in Nat /\ NoCard \in CardValue
    BY DEF SigningInv, SigningTypes, NoCard, CardValue
  <2> QED
    BY <2>1 DEF Away, UserValue
<1>3. promise' = [floor |-> promise.floor, keys |-> promise.keys, lost |-> promise.lost] /\ promise.floor \in Nat
  BY <1>1 DEF SigningInv, SigningTypes
<1> HIDE DEF u
<1>4. user'[t] = u
  BY <1>1 DEF SigningInv, SigningTypes
<1>5. BuilderOK(t)' /\ ReturnerOK(t)' /\ UserOK(t)'
  BY <1>1, <1>2, <1>3, <1>4 DEF BuilderOK, ReturnerOK, UserOK
<1> DEFINE floor == promise.floor
<1>6. /\ promise' = [floor |-> floor, keys |-> promise.keys, lost |-> promise.lost] /\ floor \in Nat
      /\ promise.floor <= floor /\ floor <= holder.cache.build
      /\ holder.extended # NoCard => floor <= holder.extended.build
  BY <1>3 DEF SigningInv, HolderOK
<1> HIDE DEF floor
<1> QED
  BY <1>1, <1>2, <1>5, <1>6, OneUserKeeps

LEMMA AcquiresKeeps ==
    ASSUME SigningAssumption, SigningInv, NEW t \in Threads, Acquires(t)
    PROVE  SigningInv'
<1> DEFINE seen == IF user[t].call = "extended" THEN holder.extended ELSE holder.cache
           build == user[t].call = "reload" \/ seen = NoCard
           card == [build |-> built + 1, key |-> holder.key]
           u == [user[t] EXCEPT !.at = IF build THEN "building" ELSE "returning",
                                !.card = IF build THEN card ELSE @]
<1>1. /\ user' = [user EXCEPT ![t] = u] /\ UNCHANGED <<keyfile, promise>>
      /\ user[t].at = "locking" /\ holder.lock = NoThread
      /\ built' = IF build THEN built + 1 ELSE built
      /\ holder' = IF build THEN [holder EXCEPT !.lock = t] ELSE holder
  <2>1. u = [user[t] EXCEPT !.at = IF build THEN "building" ELSE "returning",
                            !.card = IF build THEN card ELSE user[t].card]
    OBVIOUS
  <2>2. Acquires(t) => user' = [user EXCEPT ![t] = u]
    BY <2>1 DEF Acquires
  <2> QED
    BY <2>2 DEF Acquires, MayEnter
<1>2. /\ user[t] \in UserValue /\ holder \in HolderValue /\ built \in Nat
      /\ user \in [Threads -> UserValue] /\ card \in CardValue
  BY DEF SigningInv, SigningTypes, HolderValue, CardValue
<1>3. /\ u.call = user[t].call /\ u.floor = user[t].floor /\ u.raced = user[t].raced
      /\ u.at = IF build THEN "building" ELSE "returning"
      /\ u.card = IF build THEN card ELSE user[t].card
      /\ u \in UserValue
  <2> HIDE DEF card, build
  <2> QED
    BY <1>2 DEF UserValue
<1> HIDE DEF u
<1>4. /\ user'[t] = u /\ \A v \in Threads : v # t => user'[v] = user[v]
      /\ user' \in [Threads -> UserValue]
  BY <1>1, <1>2, <1>3
<1>5. BuilderOK(t) /\ ReturnerOK(t) /\ UserOK(t) /\ holder.up
  BY <1>1 DEF SigningInv, UserOK
<1>6. CASE ~build
  <2>1. BuilderOK(t)' /\ ReturnerOK(t)' /\ UserOK(t)'
    BY <1>1, <1>3, <1>4, <1>5, <1>6 DEF BuilderOK, ReturnerOK, UserOK
  <2> DEFINE floor == promise.floor
  <2>2. promise' = [floor |-> floor, keys |-> promise.keys, lost |-> promise.lost] /\ floor \in Nat
    BY <1>1 DEF SigningInv, SigningTypes
  <2>3. /\ promise.floor <= floor /\ floor <= holder.cache.build
        /\ holder.extended # NoCard => floor <= holder.extended.build
    BY <2>2 DEF SigningInv, HolderOK
  <2> HIDE DEF floor
  <2>4. UNCHANGED <<keyfile, holder, built>>
    BY <1>1, <1>6
  <2> QED
    BY <1>1, <1>3, <2>1, <2>2, <2>3, <2>4, OneUserKeeps
<1>7. CASE build
  <2>1. /\ holder'.lock = t /\ holder'.up = holder.up /\ holder'.key = holder.key
        /\ holder'.cache = holder.cache /\ holder'.extended = holder.extended
        /\ holder' \in HolderValue /\ built' = built + 1
    BY <1>1, <1>2, <1>7 DEF HolderValue
  <2>2. SigningTypes'
    BY <1>1, <1>2, <1>4, <2>1 DEF SigningInv, SigningTypes
  <2>3. PublishedKeyStays'
    BY <1>1, <2>1 DEF SigningInv, PublishedKeyStays, Kept
  <2>4. HolderOK'
    BY <1>1, <1>2, <1>5, <2>1 DEF SigningInv, HolderOK, Genuine
  <2>5. holder.cache.build \in 0..built /\ holder.extended.build \in 0..built
    BY <1>2 DEF SigningInv, HolderOK, Genuine, NoCard
  <2>6. BuilderOK(t)'
    BY <1>2, <1>3, <1>4, <1>7, <2>1, <2>5 DEF BuilderOK
  <2>7. ReturnerOK(t)' /\ UserOK(t)'
    BY <1>1, <1>3, <1>4, <1>5, <1>7, <2>1 DEF ReturnerOK, UserOK
  <2>8. ASSUME NEW v \in Threads, v # t
        PROVE  BuilderOK(v)' /\ ReturnerOK(v)' /\ UserOK(v)'
    <3>1. user[v].at # "building"
      BY <1>1 DEF SigningInv, BuilderOK, SigningAssumption
    <3>2. ReturnerOK(v) /\ UserOK(v) /\ user'[v] = user[v]
      BY <1>4, <2>8 DEF SigningInv
    <3> QED
      BY <1>1, <2>1, <3>1, <3>2 DEF BuilderOK, ReturnerOK, UserOK
  <2> QED
    BY <2>2, <2>3, <2>4, <2>6, <2>7, <2>8 DEF SigningInv
<1> QED
  BY <1>6, <1>7

LEMMA BuiltKeeps ==
    ASSUME SigningAssumption, SigningInv, NEW t \in Threads, Built(t)
    PROVE  SigningInv'
<1> DEFINE call == user[t].call
           card == user[t].card
           cache == IF call # "extended" THEN card ELSE holder.cache
           extended == CASE call = "extended" -> card
                         [] call = "reload" -> NoCard
                         [] OTHER -> holder.extended
<1>1. /\ user[t] \in UserValue /\ holder \in HolderValue /\ built \in Nat
      /\ user \in [Threads -> UserValue] /\ NoCard \in CardValue
      /\ promise.floor \in Nat /\ NoCard.build = 0
  BY DEF SigningInv, SigningTypes, CardValue, NoCard
<1>2. /\ holder.lock = t /\ holder.up
      /\ card = [build |-> built, key |-> holder.key] /\ card \in CardValue
      /\ holder.cache.build < built /\ holder.extended.build < built
      /\ call \notin {"extended", "reload"} => holder.cache = NoCard
  BY <1>1 DEF Built, SigningInv, BuilderOK, UserOK, UserValue
<1>3. /\ holder.cache \in CardValue /\ holder.extended \in CardValue
      /\ holder.cache.build \in Nat /\ holder.extended.build \in Nat
      /\ card.build = built /\ card.key = holder.key /\ built > 0 /\ card # NoCard
  BY <1>1, <1>2 DEF HolderValue, CardValue, NoCard
<1>4. /\ holder'.lock = NoThread /\ holder'.up = holder.up /\ holder'.key = holder.key
      /\ holder'.cache = cache /\ holder'.extended = extended
      /\ holder' \in HolderValue
  <2>1. holder' = [holder EXCEPT !.lock = NoThread, !.cache = cache, !.extended = extended]
    BY DEF Built
  <2>2. cache \in CardValue /\ extended \in CardValue
    BY <1>1, <1>2, <1>3
  <2> HIDE DEF cache, extended
  <2> QED
    BY <1>1, <2>1, <2>2 DEF HolderValue
<1>5. UNCHANGED <<keyfile, built, promise>> /\ user[t].at = "building"
  BY DEF Built
<1>6. /\ user'[t].at = "returning" /\ user'[t].call = call /\ user'[t].card = card
      /\ user'[t].floor = user[t].floor /\ user'[t].raced = user[t].raced
      /\ user'[t] \in UserValue
  <2>1. user'[t] = [user[t] EXCEPT !.at = "returning"]
    BY DEF Built
  <2> QED
    BY <1>1, <2>1 DEF UserValue
<1>7. ASSUME NEW v \in Threads, v # t
      PROVE  /\ user'[v].at = user[v].at /\ user'[v].call = user[v].call
             /\ user'[v].card = user[v].card /\ user'[v].floor = user[v].floor
             /\ user'[v].raced = (user[v].raced \/ call = "reload")
             /\ user'[v] \in UserValue
  <2> DEFINE b == user[v].raced \/ call = "reload"
  <2>1. user'[v] = [user[v] EXCEPT !.raced = b] /\ b \in BOOLEAN
    BY <1>7 DEF Built
  <2> HIDE DEF b
  <2>2. user[v] \in UserValue
    BY <1>1
  <2>3. /\ user'[v].at = user[v].at /\ user'[v].call = user[v].call
        /\ user'[v].card = user[v].card /\ user'[v].floor = user[v].floor
        /\ user'[v].raced = b /\ user'[v] \in UserValue
    BY <2>1, <2>2 DEF UserValue
  <2> QED
    BY <2>3, Zenon DEF b
<1> HIDE DEF call, card
<1>8. SigningTypes'
  <2>1. user' \in [Threads -> UserValue]
    <3>1. \A v \in Threads : user'[v] \in UserValue
      BY <1>6, <1>7
    <3>2. user' = [v \in Threads |-> user'[v]]
      BY DEF Built
    <3> QED
      BY <3>1, <3>2
  <2> QED
    BY <1>4, <1>5, <2>1 DEF SigningInv, SigningTypes
<1>9. PublishedKeyStays'
  BY <1>4, <1>5 DEF SigningInv, PublishedKeyStays, Kept
<1>10. HolderOK'
  <2>1. HolderOK
    BY DEF SigningInv
  <2>2. Genuine(holder.cache)' /\ Genuine(holder.extended)'
    BY <1>1, <1>3, <1>4, <1>5, <2>1 DEF HolderOK, Genuine
  <2>3. promise.floor <= holder.cache.build
    BY <2>1 DEF HolderOK
  <2>4. promise.floor <= built
    BY <1>1, <1>2, <1>3, <2>3
  <2>5. promise.floor <= cache.build
    BY <1>3, <2>3, <2>4
  <2>6. extended # NoCard => promise.floor <= extended.build
    BY <1>3, <2>1, <2>4 DEF HolderOK
  <2> QED
    BY <1>2, <1>4, <1>5, <2>2, <2>5, <2>6 DEF HolderOK
<1>11. BuilderOK(t)' /\ UserOK(t)'
  BY <1>2, <1>4, <1>5, <1>6 DEF SigningInv, BuilderOK, UserOK, call
<1>12. ReturnerOK(t)'
  <2>1. CASE call = "extended"
    BY <1>3, <1>4, <1>6, <2>1 DEF ReturnerOK
  <2>2. CASE call # "extended"
    BY <1>3, <1>4, <1>6, <2>2 DEF ReturnerOK
  <2> QED
    BY <2>1, <2>2
<1>13. ASSUME NEW v \in Threads, v # t
       PROVE  BuilderOK(v)' /\ ReturnerOK(v)' /\ UserOK(v)'
  <2>1. user[v].at # "building"
    BY <1>2, <1>13 DEF SigningInv, BuilderOK
  <2>2. ReturnerOK(v) /\ UserOK(v)
    BY DEF SigningInv
  <2>3. BuilderOK(v)'
    BY <1>7, <1>13, <2>1 DEF BuilderOK
  <2>4. UserOK(v)'
    BY <1>4, <1>5, <1>7, <1>13, <2>2 DEF UserOK
  <2>5. ASSUME user[v].at = "returning"
        PROVE  ReturnerOK(v)'
    <3>1. CASE user[v].call = "extended"
      <4>1. holder'.extended # NoCard \/ user'[v].raced
        <5>1. CASE call = "reload"
          BY <1>7, <1>13, <5>1
        <5>2. CASE call = "extended"
          BY <1>3, <1>4, <5>2
        <5>3. CASE call \notin {"extended", "reload"}
          <6>1. holder'.extended = holder.extended
            BY <1>4, <5>3
          <6>2. holder.extended # NoCard \/ user[v].raced
            BY <2>2, <2>5, <3>1 DEF ReturnerOK
          <6> QED
            BY <1>7, <1>13, <6>1, <6>2
        <5> QED
          BY <5>1, <5>2, <5>3
      <4> QED
        BY <1>7, <1>13, <3>1, <4>1 DEF ReturnerOK
    <3>2. CASE user[v].call # "extended"
      <4>1. holder.cache # NoCard
        BY <2>2, <2>5, <3>2 DEF ReturnerOK
      <4>2. call = "extended" \/ call = "reload"
        BY <1>2, <4>1
      <4>3. holder'.cache # NoCard
        BY <1>3, <1>4, <4>1
      <4>4. holder'.extended = NoCard \/ holder'.extended.build > holder'.cache.build
        BY <1>2, <1>3, <1>4, <4>2
      <4> QED
        BY <1>7, <1>13, <3>2, <4>3, <4>4 DEF ReturnerOK
    <3> QED
      BY <3>1, <3>2
  <2>6. ASSUME user[v].at # "returning"
        PROVE  ReturnerOK(v)'
    <3>1. user'[v].at # "returning"
      BY <1>7, <1>13, <2>6
    <3> QED
      BY <3>1 DEF ReturnerOK
  <2> QED
    BY <2>3, <2>4, <2>5, <2>6
<1> QED
  BY <1>8, <1>9, <1>10, <1>11, <1>12, <1>13 DEF SigningInv

LEMMA ReturnKeeps ==
    ASSUME SigningInv, NEW t \in Threads, Return(t)
    PROVE  SigningInv'
<1> DEFINE card == IF user[t].call = "extended" THEN holder.extended ELSE holder.cache
           falls == user[t].call = "extended" /\ card = NoCard
           up == user[t].call = "reload" /\ card.build > promise.floor
           floor == IF up THEN card.build ELSE promise.floor
           call == IF falls THEN "fallback" ELSE user[t].call
           at == IF ~falls THEN "returned"
                 ELSE IF holder.cache = NoCard THEN "locking" ELSE "returning"
           got == IF falls THEN user[t].card ELSE card
           u == [user[t] EXCEPT !.call = call, !.at = at, !.card = got]
<1>1. /\ user[t] \in UserValue /\ holder \in HolderValue /\ built \in Nat
      /\ user \in [Threads -> UserValue]
      /\ promise.floor \in Nat /\ promise = [floor |-> promise.floor, keys |-> promise.keys, lost |-> promise.lost]
      /\ holder.cache \in CardValue /\ holder.extended \in CardValue
      /\ user[t].card \in CardValue /\ user[t].floor \in Nat
  BY DEF SigningInv, SigningTypes, HolderValue, UserValue
<1>2. user[t].at = "returning" /\ UNCHANGED <<keyfile, holder, built>>
  BY DEF Return
<1>3. /\ u.call = call /\ u.at = at /\ u.card = got /\ u.floor = user[t].floor
      /\ u.raced = user[t].raced /\ u \in UserValue
  <2>1. got \in CardValue /\ call \in {"none", "cache", "extended", "reload", "fallback"}
    BY <1>1 DEF UserValue
  <2> HIDE DEF got, call, falls
  <2> QED
    BY <1>1, <2>1 DEF UserValue
<1>4. user' = [user EXCEPT ![t] = u]
  <2>1. CASE falls
    <3>1. u = [user[t] EXCEPT !.call = "fallback", !.at =
                   IF holder.cache = NoCard THEN "locking" ELSE "returning"]
      BY <1>1, <2>1 DEF UserValue
    <3> QED
      BY <2>1, <3>1 DEF Return
  <2>2. CASE ~falls
    <3>1. u = [user[t] EXCEPT !.at = "returned", !.card = card]
      BY <1>1, <2>2 DEF UserValue
    <3> QED
      BY <2>2, <3>1 DEF Return
  <2> QED
    BY <2>1, <2>2
<1>5. promise' = [floor |-> floor, keys |-> promise.keys, lost |-> promise.lost] /\ floor \in Nat
  <2>1. card.build \in Nat
    BY <1>1 DEF CardValue
  <2>2. promise' = IF up THEN [promise EXCEPT !.floor = card.build] ELSE promise
    BY DEF Return
  <2> QED
    BY <1>1, <2>1, <2>2
<1>6. BuilderOK(t) /\ ReturnerOK(t) /\ UserOK(t) /\ HolderOK
  BY DEF SigningInv
<1>7. /\ promise.floor <= floor /\ floor <= holder.cache.build
      /\ holder.extended # NoCard => floor <= holder.extended.build
  <2>1. holder.cache.build \in Nat /\ holder.extended.build \in Nat
    BY <1>1 DEF CardValue
  <2>2. /\ promise.floor <= holder.cache.build
        /\ holder.extended # NoCard => promise.floor <= holder.extended.build
    BY <1>6 DEF HolderOK
  <2>3. CASE up
    <3>1. card = holder.cache
      BY <2>3
    <3>2. holder.extended # NoCard => holder.extended.build > holder.cache.build
      BY <1>2, <1>6, <2>3 DEF ReturnerOK
    <3> QED
      BY <1>1, <2>1, <2>2, <2>3, <3>1, <3>2
  <2> QED
    BY <1>1, <2>2, <2>3
<1>8. falls => user[t].raced
  BY <1>2, <1>6 DEF ReturnerOK
<1>9. ~falls => card # NoCard /\ card.key = holder.key /\ card.build >= user[t].floor
  <2>1. ~falls => card # NoCard
    BY <1>2, <1>6 DEF ReturnerOK
  <2>2. card # NoCard => card.key = holder.key /\ promise.floor <= card.build
    BY <1>6 DEF HolderOK, Genuine
  <2>3. user[t].floor <= promise.floor /\ card.build \in Nat
    BY <1>1, <1>6 DEF UserOK, CardValue
  <2> QED
    BY <1>1, <2>1, <2>2, <2>3
<1>10. user'[t] = u
  BY <1>1, <1>4
<1> HIDE DEF u
<1>11. BuilderOK(t)' /\ ReturnerOK(t)'
  BY <1>2, <1>3, <1>10 DEF BuilderOK, ReturnerOK
<1>12. UserOK(t)'
  <2>1. user'[t].call = "fallback" => user'[t].raced
    BY <1>3, <1>6, <1>8, <1>10 DEF UserOK
  <2>2. promise'.floor = floor /\ user'[t].floor <= floor
    BY <1>1, <1>3, <1>5, <1>6, <1>7, <1>10 DEF UserOK
  <2>3. user'[t].at = "returned" =>
          user'[t].card.key = holder'.key /\ user'[t].card.build >= user'[t].floor
    BY <1>2, <1>3, <1>9, <1>10
  <2>4. holder'.up
    BY <1>2, <1>6 DEF UserOK
  <2> QED
    BY <2>1, <2>2, <2>3, <2>4 DEF UserOK
<1> HIDE DEF floor
<1> QED
  BY <1>2, <1>3, <1>4, <1>5, <1>7, <1>11, <1>12, OneUserKeeps

LEMMA SigningStepKeeps ==
    ASSUME SigningAssumption, SigningInv, [SigningStep]_signVars
    PROVE  SigningInv'
<1>1. CASE LoadKey
  <2>1. keyfile.key \in Nat /\ SigningTypes /\ PublishedKeyStays
    BY DEF SigningInv, SigningTypes
  <2>2. promise' = [floor |-> promise.floor, keys |-> promise.keys,
                    lost |-> promise.lost \ {keyfile.key}]
    BY <1>1, <2>1 DEF LoadKey, SigningTypes
  <2>3. PublishedKeyStays'
    BY <1>1, <2>1, <2>2 DEF LoadKey, Start, Down, PublishedKeyStays, Kept
  <2> QED
    BY <1>1, <2>1, <2>2, <2>3, SigningStarts DEF LoadKey, SigningTypes
<1>2. ASSUME NEW key \in Generated, GenerateKey(key)
      PROVE  SigningInv'
  <2>1. key \in Nat /\ SigningTypes /\ PublishedKeyStays
    BY DEF SigningAssumption, SigningInv
  <2>2. keyfile' \in [is : {"missing", "torn", "key"}, key : Nat]
    BY <1>2, <2>1 DEF GenerateKey, SigningTypes
  <2>3. /\ promise' \in [floor : Nat, keys : SUBSET Nat, lost : SUBSET Nat]
        /\ promise'.floor = promise.floor /\ promise'.keys = promise.keys
        /\ promise'.lost = IF keyfile.is = "key" THEN promise.lost \cup {keyfile.key}
                           ELSE promise.lost
    BY <1>2, <2>1 DEF GenerateKey, SigningTypes
  <2>4. Kept' = {}
    BY <2>1, <2>3 DEF PublishedKeyStays, Kept
  <2>5. holder' = holder \/ Start(key)
    BY <1>2 DEF GenerateKey
  <2> QED
    BY <1>2, <2>1, <2>2, <2>3, <2>4, <2>5, SigningStarts DEF GenerateKey, PublishedKeyStays
<1>3. CASE UNCHANGED signVars
  BY <1>3 DEF signVars, SigningInv, SigningTypes, PublishedKeyStays, Kept, HolderOK, Genuine,
              BuilderOK, ReturnerOK, UserOK
<1> QED
  BY <1>1, <1>2, <1>3, CrashKeeps, PublishKeeps, CallKeeps, AcquiresKeeps, BuiltKeeps,
     ReturnKeeps DEF SigningStep

LEMMA SigningInvariance == SigningSpec => []SigningInv
<1>1. InitSigning => SigningInv
  BY InitSigningInv
<1>2. SigningInv /\ [SigningStep]_signVars => SigningInv'
  BY SigningStepKeeps, SigningAssumption
<1> QED
  BY <1>1, <1>2, PTL DEF SigningSpec

(* A card an adapter hands out is no older than the last reload its reader *)
(* knows to have returned, and is the extended one that was asked for      *)
(* unless a reload came between: for any threads.                          *)
THEOREM CardsStayCurrent == SigningSpec => []CardsAreCurrent
<1>1. SigningInv => CardsAreCurrent
  BY DEF SigningInv, UserOK, CardsAreCurrent
<1> QED
  BY <1>1, SigningInvariance, PTL

(* A card is signed with every key that was published while it was in the  *)
(* file, but for the keys that a start of the process could not read:      *)
(* across any restarts, and crashes in the middle of a write.              *)
THEOREM CardsStayTrusted == SigningSpec => []CardsAreTrusted
<1>1. SigningInv => CardsAreTrusted
  <2> SUFFICES ASSUME SigningInv, NEW t \in Threads, user[t].at = "returned"
               PROVE  Kept \subseteq {user[t].card.key}
    BY DEF CardsAreTrusted, Kept
  <2>1. UserOK(t) /\ PublishedKeyStays
    BY DEF SigningInv
  <2> QED
    BY <2>1 DEF UserOK, PublishedKeyStays
<1> QED
  BY <1>1, SigningInvariance, PTL

-----------------------------------------------------------------------------
(* The merge of a search.  Consumed is what the engines' iterators have    *)
(* given; it holds everything that comes before any of its results, so the *)
(* result that is next is behind all of it.                                *)

Consumed == {x \in Offered : x[2] <= merge.pos[x[1]]}
Chosen == Firsts \cap Consumed
Earlier(x) == {y \in Firsts : Before(y, x)}

SearchTypes ==
    /\ found \in [Engines -> Results]
    /\ answered \in [Engines -> {"asked", "ok", "error"}]
    /\ merge \in [phase : {"gather", "merging", "done"}, limit : Nat, pos : [Engines -> Nat],
                  ended : SUBSET Engines, round : SUBSET Engines, out : Seq(Keys)]

Gathered == merge.phase # "gather" => \A e \in Engines : answered[e] # "asked"

(* Whoever is yet to give a result in this round has given one less than   *)
(* those that have, which are listed before; who is exhausted gave all.    *)
RoundOK ==
    /\ merge.round \subseteq Used \ merge.ended
    /\ merge.round = {} => Used \subseteq merge.ended
    /\ \A e \in merge.round, f \in Used \ merge.ended :
         IF f \in merge.round THEN merge.pos[f] = merge.pos[e]
         ELSE f < e /\ merge.pos[f] = merge.pos[e] + 1
    /\ \A e \in merge.ended : merge.pos[e] > Len(found[e])

OutOK ==
    /\ \A x \in Consumed, y \in Offered : Before(y, x) => y \in Consumed
    /\ Len(merge.out) = Cardinality(Chosen) /\ Len(merge.out) <= merge.limit
    /\ \A x \in Chosen : LET place == Cardinality(Earlier(x)) + 1
                         IN place \in DOMAIN merge.out /\ merge.out[place] = Key(x)
    /\ \A k : Taken(k) <=> \E x \in Consumed : Key(x) = k

MergeInv ==
    /\ SearchTypes /\ Gathered
    /\ merge.phase = "gather" => /\ merge.pos = [e \in Engines |-> 0]
                                 /\ merge.ended = {} /\ merge.out = <<>>
    /\ merge.phase # "gather" => RoundOK /\ OutOK
    /\ merge.phase = "done" => merge.round = {} \/ Len(merge.out) >= merge.limit

(* The results an engine may give.                                         *)
LEMMA ResultsAreShort ==
    ASSUME SearchAssumption, NEW r \in Results
    PROVE  r \in Seq(Keys) /\ Len(r) \in 0..PerEngine
<1>1. PICK n \in 0..PerEngine : r \in [1..n -> Keys]
  BY DEF Results
<1>2. n \in Nat
  BY <1>1 DEF SearchAssumption
<1> QED
  BY <1>1, <1>2, SeqDef

LEMMA OfferedIs ==
    ASSUME SearchAssumption, SearchTypes
    PROVE  /\ \A x : x \in Offered <=> \E e \in Used : \E i \in 1..Len(found[e]) : x = <<e, i>>
           /\ IsFiniteSet(Offered) /\ IsFiniteSet(Used)
           /\ \A e \in Engines : found[e] \in Seq(Keys) /\ Len(found[e]) \in Nat
<1>1. \A e \in Engines : found[e] \in Seq(Keys) /\ Len(found[e]) \in 0..PerEngine
  BY ResultsAreShort DEF SearchTypes
<1>2. Used \subseteq Engines /\ PerEngine \in Nat
  BY DEF Used, SearchAssumption
<1>3. \A x : x \in Ranked <=> \E e \in Used : \E i \in 1..PerEngine : x = <<e, i>>
  BY DEF Ranked
<1>4. \A x : x \in Offered <=> \E e \in Used : \E i \in 1..Len(found[e]) : x = <<e, i>>
  BY <1>1, <1>2, <1>3 DEF Offered
<1>5. IsFiniteSet(Used)
  BY <1>2, FS_Subset DEF SearchAssumption
<1>6. IsFiniteSet(Ranked)
  <2>1. IsFiniteSet(1..PerEngine)
    BY <1>2, FS_Interval
  <2>2. IsFiniteSet(Used \X (1..PerEngine))
    BY <1>5, <2>1, FS_Product
  <2>3. Ranked = Used \X (1..PerEngine)
    BY DEF Ranked
  <2> QED
    BY <2>2, <2>3
<1>7. IsFiniteSet(Offered)
  BY <1>6, FS_Subset DEF Offered
<1> QED
  BY <1>1, <1>2, <1>4, <1>5, <1>7

(* Before is a strict linear order of the results.                         *)
LEMMA BeforeIsLinear ==
    ASSUME SearchAssumption, SearchTypes, NEW x \in Offered, NEW y \in Offered, NEW z \in Offered
    PROVE  /\ ~Before(x, x)
           /\ Before(x, y) \/ x = y \/ Before(y, x)
           /\ Before(x, y) => ~Before(y, x)
           /\ Before(x, y) /\ Before(y, z) => Before(x, z)
<1>1. Used \subseteq Nat
  BY DEF Used, SearchAssumption
<1>2. \A w \in Offered : w[1] \in Nat /\ w[2] \in Nat /\ w = <<w[1], w[2]>>
  BY <1>1, OfferedIs
<1>3. /\ x[1] \in Nat /\ x[2] \in Nat /\ y[1] \in Nat /\ y[2] \in Nat
      /\ z[1] \in Nat /\ z[2] \in Nat /\ x = <<x[1], x[2]>> /\ y = <<y[1], y[2]>>
  BY <1>2
<1> QED
  BY <1>3 DEF Before

(* What has been chosen, and its place.                                    *)
LEMMA ChosenFinite ==
    ASSUME SearchAssumption, SearchTypes
    PROVE  /\ IsFiniteSet(Firsts) /\ Cardinality(Firsts) \in Nat
           /\ IsFiniteSet(Chosen) /\ Cardinality(Chosen) \in Nat
           /\ Cardinality(Chosen) <= Cardinality(Firsts)
           /\ \A x : IsFiniteSet(Earlier(x)) /\ Cardinality(Earlier(x)) \in Nat
<1>1. IsFiniteSet(Firsts)
  BY OfferedIs, FS_Subset DEF Firsts
<1>2. IsFiniteSet(Chosen) /\ Cardinality(Chosen) <= Cardinality(Firsts)
  BY <1>1, FS_Subset DEF Chosen
<1>3. \A x : IsFiniteSet(Earlier(x))
  BY <1>1, FS_Subset DEF Earlier
<1> QED
  BY <1>1, <1>2, <1>3, FS_CardinalityType

LEMMA MergeStarts == ASSUME SearchAssumption, InitSearch PROVE MergeInv
<1>1. <<>> \in Results
  <2>1. <<>> \in [1..0 -> Keys] /\ 0 \in 0..PerEngine
    BY DEF SearchAssumption
  <2> QED
    BY <2>1 DEF Results
<1> QED
  BY <1>1 DEF InitSearch, MergeInv, SearchTypes, Gathered

LEMMA AnswersKeepMerge ==
    ASSUME SearchAssumption, MergeInv, NEW e \in Engines, EngineAnswers(e)
    PROVE  MergeInv'
<1>1. merge.phase = "gather" /\ merge' = merge
  BY DEF EngineAnswers, MergeInv, Gathered
<1>2. SearchTypes'
  BY <1>1 DEF EngineAnswers, MergeInv, SearchTypes
<1> QED
  BY <1>1, <1>2 DEF MergeInv, Gathered

LEMMA GatherKeepsMerge ==
    ASSUME SearchAssumption, MergeInv, NEW limit \in Nat, Gather(limit)
    PROVE  MergeInv'
<1>1. /\ merge.phase = "gather" /\ SearchTypes /\ merge.pos = [e \in Engines |-> 0]
      /\ merge.ended = {} /\ merge.out = <<>>
  BY DEF Gather, MergeInv
<1>2. found' = found /\ answered' = answered /\ Used' = Used /\ Used \subseteq Engines
  BY DEF Gather, Used
<1>3. /\ merge'.phase = "merging" /\ merge'.limit = limit /\ merge'.round = Used
      /\ merge'.pos = merge.pos /\ merge'.ended = {} /\ merge'.out = <<>>
      /\ SearchTypes'
  BY <1>1, <1>2 DEF Gather, SearchTypes
<1>4. RoundOK'
  BY <1>1, <1>2, <1>3 DEF RoundOK
<1>5. Consumed' = {}
  <2>1. ASSUME NEW x \in Consumed'
        PROVE  FALSE
    <3>1. Offered' = Offered
      BY <1>2 DEF Offered, Ranked
    <3>2. x \in Offered /\ x[2] <= merge'.pos[x[1]]
      BY <2>1, <3>1 DEF Consumed
    <3>3. PICK e \in Used : x[1] = e /\ x[2] \in Nat /\ x[2] >= 1
      BY <1>1, <3>2, OfferedIs
    <3> QED
      BY <1>1, <1>2, <1>3, <3>2, <3>3
  <2> QED
    BY <2>1
<1>6. OutOK'
  <2>1. Cardinality(Chosen') = 0 /\ Chosen' = {}
    BY <1>5, FS_EmptySet DEF Chosen
  <2>2. \A k : ~Taken(k)'
    BY <1>3 DEF Taken
  <2> QED
    BY <1>3, <1>5, <2>1, <2>2 DEF OutOK
<1>7. Gathered'
  BY <1>2 DEF Gathered, Gather
<1> QED
  BY <1>3, <1>4, <1>6, <1>7 DEF MergeInv

LEMMA EndKeepsMerge ==
    ASSUME SearchAssumption, MergeInv, EndMerge
    PROVE  MergeInv'
<1>1. /\ SearchTypes /\ Gathered /\ RoundOK /\ OutOK /\ merge.phase = "merging"
  BY DEF EndMerge, MergeInv
<1>2. /\ merge'.phase = "done" /\ merge'.limit = merge.limit /\ merge'.round = merge.round
      /\ merge'.pos = merge.pos /\ merge'.ended = merge.ended /\ merge'.out = merge.out
      /\ found' = found /\ answered' = answered /\ SearchTypes'
  BY <1>1 DEF EndMerge, SearchTypes
<1>3. Used' = Used /\ Offered' = Offered /\ Firsts' = Firsts
  BY <1>2 DEF Used, Ranked, Offered, Firsts, Key
<1>4. Consumed' = Consumed /\ Chosen' = Chosen /\ \A x : Earlier(x)' = Earlier(x)
  BY <1>2, <1>3 DEF Consumed, Chosen, Earlier
<1>5. RoundOK'
  BY <1>1, <1>2, <1>3 DEF RoundOK
<1>6. OutOK'
  BY <1>1, <1>2, <1>3, <1>4 DEF OutOK, Taken, Key
<1> QED
  BY <1>1, <1>2, <1>5, <1>6 DEF MergeInv, Gathered, EndMerge

(* One next(): its result, if there is one, is the next of all that is     *)
(* left, so it is chosen exactly when its key is not taken yet.            *)
LEMMA TakeKeepsMerge ==
    ASSUME SearchAssumption, MergeInv, NEW e \in Engines, Take(e)
    PROVE  MergeInv'
<1> DEFINE i == merge.pos[e] + 1
           x == <<e, i>>
           over == i > Len(found[e])
           out == IF over \/ Taken(found[e][i]) THEN merge.out
                  ELSE Append(merge.out, found[e][i])
           ended == IF over THEN merge.ended \cup {e} ELSE merge.ended
           rest == merge.round \ {e}
           round == IF rest = {} THEN Used \ ended ELSE rest
           pos == [merge.pos EXCEPT ![e] = i]
<1>1. /\ SearchTypes /\ Gathered /\ RoundOK /\ OutOK /\ merge.phase = "merging"
      /\ e \in merge.round /\ Len(merge.out) < merge.limit
      /\ \A f \in merge.round : e <= f
      /\ found' = found /\ answered' = answered
  BY DEF Take, InTurn, MergeInv
<1>2. /\ merge.pos \in [Engines -> Nat] /\ merge.ended \subseteq Engines /\ Used \subseteq Engines
      /\ merge.round \subseteq Used \ merge.ended /\ Engines \subseteq Nat /\ merge.out \in Seq(Keys)
      /\ merge.limit \in Nat
  BY <1>1 DEF SearchTypes, RoundOK, Used, SearchAssumption
<1>3. /\ found[e] \in Seq(Keys) /\ Len(found[e]) \in Nat /\ i \in Nat /\ i >= 1
      /\ \A f \in Engines : Len(found[f]) \in Nat /\ merge.pos[f] \in Nat
      /\ merge.pos[e] \in Nat /\ e \in Used
  BY <1>1, <1>2, OfferedIs
<1>4. merge' = [merge EXCEPT !.pos = pos, !.ended = ended, !.out = out, !.round = round]
  BY DEF Take
<1>5. /\ pos \in [Engines -> Nat] /\ pos[e] = i
      /\ \A f \in Engines : f # e => pos[f] = merge.pos[f]
  BY <1>2, <1>3
<1>6. ~over => found[e][i] \in Keys
  BY <1>3, ElementOfSeq
<1>7. out \in Seq(Keys) /\ ended \in SUBSET Engines /\ round \in SUBSET Engines
  <2>1. ended \in SUBSET Engines
    BY <1>2
  <2> HIDE DEF ended
  <2>2. round \in SUBSET Engines
    BY <1>2
  <2>3. out \in Seq(Keys)
    <3>1. CASE over \/ Taken(found[e][i])
      BY <1>2, <3>1
    <3>2. CASE ~(over \/ Taken(found[e][i]))
      <4>1. out = Append(merge.out, found[e][i]) /\ found[e][i] \in Keys
        BY <1>6, <3>2
      <4> HIDE DEF out
      <4> QED
        BY <1>2, <4>1, AppendProperties
    <3> QED
      BY <3>1, <3>2
  <2> QED
    BY <2>1, <2>2, <2>3
<1> HIDE DEF pos, ended, out, round
<1>8. /\ merge'.phase = "merging" /\ merge'.limit = merge.limit /\ merge'.pos = pos
      /\ merge'.ended = ended /\ merge'.out = out /\ merge'.round = round
      /\ SearchTypes'
  BY <1>1, <1>4, <1>5, <1>7 DEF SearchTypes
<1>9. Used' = Used /\ Offered' = Offered /\ Firsts' = Firsts /\ Gathered'
  <2>1. Used' = Used
    BY <1>1 DEF Used
  <2>2. Ranked' = Ranked /\ \A z : Key(z)' = Key(z)
    BY <1>1, <2>1 DEF Ranked, Key
  <2>3. Offered' = Offered
    BY <1>1, <2>2 DEF Offered
  <2>4. Firsts' = Firsts
    BY <1>1, <2>3 DEF Firsts, Key
  <2>5. Gathered'
    BY <1>1, <1>8 DEF Gathered
  <2> QED
    BY <2>1, <2>3, <2>4, <2>5
<1>10. RoundOK'
  <2>1. round \subseteq Used \ ended
    BY <1>2 DEF round, ended
  <2>2. round = {} => Used \subseteq ended
    BY DEF round
  <2>3. \A f \in ended : pos[f] > Len(found[f])
    <3> SUFFICES ASSUME NEW f \in ended
                 PROVE  pos[f] > Len(found[f])
      OBVIOUS
    <3>1. CASE f = e /\ over
      BY <1>5, <3>1
    <3>2. CASE ~(f = e /\ over)
      <4>1. f \in merge.ended
        BY <3>2 DEF ended
      <4>2. f # e /\ f \in Engines
        BY <1>1, <1>2, <4>1
      <4> QED
        BY <1>1, <1>5, <4>1, <4>2 DEF RoundOK
    <3> QED
      BY <3>1, <3>2
  <2>4. ASSUME NEW g \in round, NEW f \in Used \ ended
        PROVE  IF f \in round THEN pos[f] = pos[g] ELSE f < g /\ pos[f] = pos[g] + 1
    <3>1. f \in Used \ merge.ended
      BY DEF ended
    <3>2. f # e => IF f \in merge.round THEN pos[f] = merge.pos[e] ELSE pos[f] = i
      BY <1>1, <1>2, <1>5, <3>1 DEF RoundOK
    <3>3. CASE rest # {}
      <4>1. g \in merge.round /\ g # e /\ pos[g] = merge.pos[e]
        BY <1>1, <1>2, <1>5, <3>3 DEF round, RoundOK
      <4>2. CASE f = e
        BY <1>1, <1>2, <1>5, <3>3, <4>1, <4>2 DEF round
      <4>3. CASE f # e /\ f \in merge.round
        BY <3>2, <3>3, <4>1, <4>3 DEF round
      <4>4. CASE f # e /\ f \notin merge.round
        BY <1>1, <3>1, <3>2, <3>3, <4>1, <4>4 DEF round, RoundOK
      <4> QED
        BY <4>2, <4>3, <4>4
    <3>4. CASE rest = {}
      <4>1. ASSUME NEW h \in Used \ ended
            PROVE  pos[h] = i
        <5>1. h \in Used \ merge.ended /\ h \in Engines
          BY <1>2 DEF ended
        <5>2. CASE h = e
          BY <1>5, <5>2
        <5>3. CASE h # e
          <6>1. h \notin merge.round
            BY <3>4, <5>3
          <6>2. merge.pos[h] = merge.pos[e] + 1
            BY <1>1, <5>1, <6>1 DEF RoundOK
          <6> QED
            BY <1>5, <5>1, <5>3, <6>2
        <5> QED
          BY <5>2, <5>3
      <4>2. f \in round /\ g \in Used \ ended
        BY <3>4 DEF round
      <4> QED
        BY <4>1, <4>2
    <3> QED
      BY <3>3, <3>4
  <2> QED
    BY <1>1, <1>8, <1>9, <2>1, <2>2, <2>3, <2>4 DEF RoundOK
<1>11. \A y : y \in Offered <=> \E f \in Used : \E j \in 1..Len(found[f]) : y = <<f, j>>
  BY <1>1, OfferedIs
<1>12. /\ x \in Offered <=> ~over
       /\ x \notin Consumed /\ x[1] = e /\ x[2] = i
       /\ Key(x) = found[e][i]
  <2>1. x[1] = e /\ x[2] = i
    OBVIOUS
  <2>2. x \in Offered <=> ~over
    <3>1. ~over => i \in 1..Len(found[e])
      BY <1>3
    <3>2. ASSUME x \in Offered
          PROVE  ~over
      <4>1. PICK f \in Used : \E j \in 1..Len(found[f]) : x = <<f, j>>
        BY <1>11, <3>2
      <4>2. PICK j \in 1..Len(found[f]) : x = <<f, j>>
        BY <4>1
      <4>3. f = e /\ j = i
        BY <4>2
      <4>4. i \in 1..Len(found[e])
        BY <4>2, <4>3
      <4> QED
        BY <1>3, <4>4
    <3> QED
      BY <1>3, <1>11, <3>1, <3>2
  <2>3. ~(i <= merge.pos[e])
    BY <1>3
  <2> HIDE DEF x, i
  <2> QED
    BY <2>1, <2>2, <2>3 DEF Consumed, Key
<1>13. Consumed' = IF over THEN Consumed ELSE Consumed \cup {x}
  <2>1. ASSUME NEW y \in Offered
        PROVE  y[2] <= pos[y[1]] <=> y[2] <= merge.pos[y[1]] \/ y = x
    <3>1. PICK f \in Used : \E j \in 1..Len(found[f]) : y = <<f, j>>
      BY <1>11
    <3>2. PICK j \in 1..Len(found[f]) : y = <<f, j>>
      BY <3>1
    <3>3. y[1] = f /\ y[2] = j /\ j \in Nat /\ f \in Engines
      BY <1>2, <1>3, <3>2
    <3>4. y = x <=> f = e /\ j = i
      BY <3>2
    <3>5. j <= pos[f] <=> j <= merge.pos[f] \/ (f = e /\ j = i)
      BY <1>2, <1>3, <1>5, <3>3
    <3> QED
      BY <3>3, <3>4, <3>5
  <2>2. Consumed' = {y \in Offered : y[2] <= pos[y[1]]}
    BY <1>8, <1>9 DEF Consumed
  <2> HIDE DEF x
  <2> QED
    BY <1>12, <2>1, <2>2 DEF Consumed
<1>14. ASSUME ~over, NEW y \in Offered, Before(y, x)
       PROVE  y \in Consumed
  <2>1. PICK f \in Used : \E j \in 1..Len(found[f]) : y = <<f, j>>
    BY <1>11
  <2>2. PICK j \in 1..Len(found[f]) : y = <<f, j>>
    BY <2>1
  <2>3. y[1] = f /\ y[2] = j /\ j \in Nat /\ f \in Engines /\ j <= Len(found[f])
    BY <1>2, <1>3, <2>2
  <2>4. j < i \/ (j = i /\ f < e)
    BY <1>12, <1>14, <2>3 DEF Before
  <2>5. j <= merge.pos[f]
    <3>1. CASE f \in merge.ended
      <4>1. merge.pos[f] > Len(found[f])
        BY <1>1, <3>1 DEF RoundOK
      <4> DEFINE p == merge.pos[f]
                 n == Len(found[f])
      <4>2. p > n /\ j <= n /\ p \in Nat /\ n \in Nat /\ j \in Nat
        BY <1>3, <2>3, <4>1
      <4> HIDE DEF p, n
      <4>3. j <= p
        BY <4>2
      <4> QED
        BY <4>3 DEF p
    <3>2. CASE f \in merge.round
      <4>1. merge.pos[f] = merge.pos[e] /\ e <= f
        BY <1>1, <1>2, <3>2 DEF RoundOK
      <4> QED
        BY <1>2, <2>3, <2>4, <4>1
    <3>3. CASE f \notin merge.ended /\ f \notin merge.round
      <4>1. merge.pos[f] = merge.pos[e] + 1
        BY <1>1, <3>3 DEF RoundOK
      <4> QED
        BY <1>2, <2>3, <2>4, <4>1
    <3> QED
      BY <3>1, <3>2, <3>3
  <2> QED
    BY <2>3, <2>5 DEF Consumed
<1> HIDE DEF x, over, i
<1>15. Consumed \subseteq Offered /\ Chosen \subseteq Firsts /\ Firsts \subseteq Offered
  BY DEF Consumed, Chosen, Firsts
<1>16. ASSUME ~over, NEW y \in Consumed
       PROVE  Before(y, x)
  <2>1. x \in Offered /\ x \notin Consumed /\ y \in Offered
    BY <1>12, <1>15, <1>16
  <2>2. Before(x, y) \/ x = y \/ Before(y, x)
    BY <1>1, <2>1, BeforeIsLinear
  <2> QED
    BY <1>1, <2>1, <2>2 DEF OutOK
<1>17. \A y \in Consumed', z \in Offered' : Before(z, y) => z \in Consumed'
  BY <1>1, <1>9, <1>13, <1>14 DEF OutOK
<1>18. \A y : Earlier(y)' = Earlier(y) /\ Key(y)' = Key(y)
  BY <1>1, <1>9 DEF Earlier, Key
<1>19. CASE Consumed' = Consumed /\ out = merge.out
  <2>1. Chosen' = Chosen
    BY <1>9, <1>19 DEF Chosen
  <2> QED
    BY <1>1, <1>8, <1>10, <1>9, <1>17, <1>18, <1>19, <2>1 DEF MergeInv, OutOK, Taken
<1>20. CASE ~over /\ Taken(Key(x))
  <2>1. out = merge.out
    BY <1>12, <1>20 DEF out
  <2>2. \E y \in Consumed : Key(y) = Key(x) /\ Before(y, x) /\ y \in Offered
    BY <1>1, <1>15, <1>16, <1>20 DEF OutOK
  <2>3. x \notin Firsts
    BY <2>2 DEF Firsts
  <2>4. Chosen' = Chosen
    BY <1>9, <1>13, <1>20, <2>3 DEF Chosen
  <2>5. \A k : Taken(k)' <=> Taken(k)
    BY <1>8, <2>1 DEF Taken
  <2>6. \A k : Taken(k)' <=> \E y \in Consumed' : Key(y)' = k
    <3>1. \A k : Taken(k) <=> \E y \in Consumed : Key(y) = k
      BY <1>1 DEF OutOK
    <3> QED
      BY <1>13, <1>18, <1>20, <2>5, <3>1
  <2>7. OutOK'
    BY <1>1, <1>8, <1>17, <1>18, <2>1, <2>4, <2>6 DEF OutOK
  <2> QED
    BY <1>8, <1>9, <1>10, <2>7 DEF MergeInv
<1>21. CASE ~over /\ ~Taken(Key(x))
  <2>1. /\ out = Append(merge.out, Key(x)) /\ Key(x) \in Keys
        /\ x \in Offered /\ x \notin Consumed
    BY <1>6, <1>12, <1>21 DEF out
  <2>2. x \in Firsts
    <3> SUFFICES ASSUME NEW y \in Offered, Key(y) = Key(x), Before(y, x)
                 PROVE  FALSE
      BY <2>1 DEF Firsts
    <3>1. y \in Consumed
      BY <1>14, <1>21
    <3> QED
      BY <1>1, <1>21, <3>1 DEF OutOK
  <2>3. Chosen' = Chosen \cup {x} /\ x \notin Chosen
    BY <1>9, <1>13, <1>21, <2>1, <2>2 DEF Chosen
  <2>4. Earlier(x) = Chosen
    <3>1. \A y \in Firsts : Before(y, x) <=> y \in Consumed
      BY <1>14, <1>15, <1>16, <1>21
    <3> QED
      BY <3>1 DEF Earlier, Chosen
  <2>5. /\ Cardinality(Chosen') = Cardinality(Chosen) + 1
        /\ Cardinality(Chosen) \in Nat
    BY <1>1, <2>3, ChosenFinite, FS_AddElement
  <2>6. /\ Len(out) = Len(merge.out) + 1 /\ Len(merge.out) \in Nat
        /\ DOMAIN out = DOMAIN merge.out \cup {Len(merge.out) + 1}
        /\ \A n \in DOMAIN merge.out : out[n] = merge.out[n]
        /\ out[Len(merge.out) + 1] = Key(x)
    BY <1>2, <2>1, AppendProperties
  <2>7. Len(out) = Cardinality(Chosen') /\ Len(out) <= merge.limit
    BY <1>1, <1>2, <2>5, <2>6 DEF OutOK
  <2>8. ASSUME NEW y \in Chosen'
        PROVE  LET place == Cardinality(Earlier(y)) + 1
               IN place \in DOMAIN out /\ out[place] = Key(y)
    <3>1. CASE y = x
      BY <1>1, <2>4, <2>6, <3>1 DEF OutOK
    <3>2. CASE y \in Chosen
      BY <1>1, <2>6, <3>2 DEF OutOK
    <3> QED
      BY <2>3, <3>1, <3>2
  <2>9. \A k : Taken(k)' <=> Taken(k) \/ k = Key(x)
    BY <1>8, <2>6 DEF Taken
  <2>10. \A k : Taken(k)' <=> \E y \in Consumed' : Key(y)' = k
    <3>1. \A k : Taken(k) <=> \E y \in Consumed : Key(y) = k
      BY <1>1 DEF OutOK
    <3> QED
      BY <1>13, <1>18, <1>21, <2>9, <3>1
  <2>11. OutOK'
    BY <1>8, <1>17, <1>18, <2>7, <2>8, <2>10 DEF OutOK
  <2> QED
    BY <1>8, <1>9, <1>10, <2>11 DEF MergeInv
<1>22. CASE over
  BY <1>13, <1>19, <1>22 DEF out
<1> QED
  BY <1>20, <1>21, <1>22

LEMMA SearchStepKeeps ==
    ASSUME SearchAssumption, MergeInv, [SearchStep]_searchVars
    PROVE  MergeInv'
<1>1. DefaultLimit \in Nat
  <2>1. Cardinality(Used) \in Nat
    BY OfferedIs, FS_CardinalityType DEF MergeInv
  <2>2. PerEngine \in Nat
    BY DEF SearchAssumption
  <2> DEFINE half == Cardinality(Used) \div 2
             worth == IF half = 0 THEN 1 ELSE half
  <2>3. worth \in Nat
    BY <2>1
  <2> HIDE DEF worth
  <2>4. PerEngine * worth \in Nat
    BY <2>2, <2>3
  <2> QED
    BY <2>4 DEF DefaultLimit, worth
<1>2. CASE \E limit \in 0..MaxLimit : Gather(limit)
  BY <1>2, GatherKeepsMerge
<1>3. CASE Gather(DefaultLimit)
  BY <1>1, <1>3, GatherKeepsMerge
<1>4. CASE UNCHANGED searchVars
  <2>1. found' = found /\ answered' = answered /\ merge' = merge
    BY <1>4 DEF searchVars
  <2>2. Used' = Used /\ Offered' = Offered /\ Firsts' = Firsts /\ \A x : Key(x)' = Key(x)
    BY <2>1 DEF Used, Ranked, Offered, Firsts, Key
  <2>3. /\ Consumed' = Consumed /\ Chosen' = Chosen
        /\ \A x : Earlier(x)' = Earlier(x) /\ Taken(x)' = Taken(x)
    BY <2>1, <2>2 DEF Consumed, Chosen, Earlier, Taken
  <2>4. SearchTypes' = SearchTypes /\ Gathered' = Gathered /\ RoundOK' = RoundOK
    BY <2>1, <2>2 DEF SearchTypes, Gathered, RoundOK
  <2>5. OutOK => OutOK'
    BY <2>1, <2>2, <2>3 DEF OutOK
  <2> QED
    BY <2>1, <2>4, <2>5 DEF MergeInv
<1> QED
  BY <1>2, <1>3, <1>4, AnswersKeepMerge, TakeKeepsMerge, EndKeepsMerge DEF SearchStep

(* Whatever the engines answer or fail to, the results of a search are     *)
(* those that are first with their URL, by rank and then by engine, up to  *)
(* the limit: for any engines, results and limit.                          *)
THEOREM SearchMergesFairly == SearchSpec => []MergeIsFair
<1>1. InitSearch => MergeInv
  BY MergeStarts, SearchAssumption
<1>2. MergeInv /\ [SearchStep]_searchVars => MergeInv'
  BY SearchStepKeeps, SearchAssumption
<1>3. MergeInv => MergeIsFair
  <2> SUFFICES ASSUME MergeInv, merge.phase = "done"
               PROVE  /\ Len(merge.out) = IF Cardinality(Firsts) < merge.limit
                                          THEN Cardinality(Firsts) ELSE merge.limit
                      /\ \A x \in Firsts :
                           LET place == Cardinality({y \in Firsts : Before(y, x)}) + 1
                           IN place <= Len(merge.out) => merge.out[place] = Key(x)
    BY DEF MergeIsFair
  <2>1. /\ SearchTypes /\ RoundOK /\ OutOK /\ SearchAssumption
        /\ merge.round = {} \/ Len(merge.out) >= merge.limit
    BY SearchAssumption DEF MergeInv
  <2>2. /\ Cardinality(Firsts) \in Nat /\ Cardinality(Chosen) \in Nat /\ merge.limit \in Nat
        /\ Cardinality(Chosen) <= Cardinality(Firsts)
        /\ Len(merge.out) = Cardinality(Chosen) /\ Len(merge.out) <= merge.limit
    BY <2>1, ChosenFinite DEF OutOK, SearchTypes
  <2>3. merge.round = {} => Chosen = Firsts
    <3> SUFFICES ASSUME merge.round = {}, NEW x \in Firsts
                 PROVE  x \in Consumed
      BY DEF Chosen
    <3>1. x \in Offered
      BY DEF Firsts
    <3>2. PICK e \in Used : \E i \in 1..Len(found[e]) : x = <<e, i>>
      BY <2>1, <3>1, OfferedIs
    <3>3. PICK i \in 1..Len(found[e]) : x = <<e, i>>
      BY <3>2
    <3>4. e \in merge.ended /\ merge.pos[e] > Len(found[e]) /\ e \in Engines
      BY <2>1 DEF RoundOK, Used
    <3>5. i <= merge.pos[e]
      <4>1. merge.pos[e] \in Nat /\ Len(found[e]) \in Nat
        BY <2>1, <3>4, OfferedIs DEF SearchTypes
      <4> QED
        BY <3>3, <3>4, <4>1
    <3> QED
      BY <3>1, <3>3, <3>5 DEF Consumed
  <2>4. Len(merge.out) = IF Cardinality(Firsts) < merge.limit
                         THEN Cardinality(Firsts) ELSE merge.limit
    BY <2>1, <2>2, <2>3
  <2>5. ASSUME NEW x \in Firsts, Cardinality(Earlier(x)) + 1 <= Len(merge.out)
        PROVE  merge.out[Cardinality(Earlier(x)) + 1] = Key(x)
    <3>1. x \in Consumed
      <4> SUFFICES ASSUME x \notin Consumed
                   PROVE  FALSE
        OBVIOUS
      <4>1. Chosen \subseteq Earlier(x)
        <5> SUFFICES ASSUME NEW y \in Chosen
                     PROVE  Before(y, x)
          BY DEF Earlier, Chosen
        <5>1. y \in Offered /\ x \in Offered /\ y \in Consumed
          BY DEF Chosen, Firsts
        <5>2. Before(x, y) \/ x = y \/ Before(y, x)
          BY <2>1, <5>1, BeforeIsLinear
        <5> QED
          BY <2>1, <5>1, <5>2 DEF OutOK
      <4>2. /\ IsFiniteSet(Earlier(x)) /\ Cardinality(Earlier(x)) \in Nat
        BY <2>1, ChosenFinite
      <4>3. Cardinality(Chosen) <= Cardinality(Earlier(x))
        BY <4>1, <4>2, FS_Subset
      <4> QED
        BY <2>2, <2>5, <4>2, <4>3
    <3> QED
      BY <2>1, <3>1 DEF OutOK, Chosen
  <2> QED
    BY <2>4, <2>5 DEF Earlier
<1> QED
  BY <1>1, <1>2, <1>3, PTL DEF SearchSpec
=============================================================================
