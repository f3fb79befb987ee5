-------------------------- MODULE AdapterRuns_proofs --------------------------
(***************************************************************************)
(* Proofs about the calls of the adapters, for any number of calls,        *)
(* adapters, slots and any limit of nesting.                               *)
(*                                                                         *)
(* The bound on nesting rests on the count that goes with a call being     *)
(* that of the calls it stems from, plus one: a caller whose process is    *)
(* alive was itself counted and not refused.  That answers stand behind    *)
(* their messages rests on the lock of a session: only one call holds it,  *)
(* and the last turn of the history is that call's message.  That a        *)
(* cleanup spares the sandboxes at work rests on the one slot.             *)
(***************************************************************************)
EXTENDS AdapterRuns, FiniteSetTheorems, SequenceTheorems, TLAPS

Turn == [role : {"user", "assistant"}, call : Calls]

(* What a step of call c does to the calls but for Arrive: c goes on, from *)
(* a state it waits in, or nothing moves.                                  *)
GoesOn(c) ==
    \/ UNCHANGED call
    \/ \E phase \in (Waits \cup Ends) \ {"refused"} : At(c) \in Waits /\ Move(c, phase)

-----------------------------------------------------------------------------
LEMMA RunsInit == InitRuns => RunsOK
<1> SUFFICES ASSUME InitRuns PROVE RunsOK
  OBVIOUS
<1>1. (CHOOSE a \in Adapters : TRUE) \in Adapters
  BY RunsAssumption
<1>2. call \in [Calls -> CallStates]
  BY <1>1 DEF InitRuns, CallStates, Kinds, Ways
<1>3. hist \in [Adapters -> Seq(Turn)]
  BY EmptySeq DEF InitRuns
<1> QED
  BY <1>2, <1>3 DEF InitRuns, RunsOK, Turn

LEMMA HandlingGoesOn ==
    ASSUME RunsOK, NEW c \in Calls, Handle(c) \/ CancelCall(c) \/ StartBox(c) \/ ChildExits(c)
    PROVE  GoesOn(c)
<1> USE DEF GoesOn, Waits, Ends
<1>1. CASE Check(c)
  BY <1>1 DEF Check, Move
<1>2. CASE Lock(c)
  BY <1>2 DEF Lock, Spawn, Move
<1>3. CASE Acquire(c)
  BY <1>3 DEF Acquire, Spawn, Move
<1>4. CASE ListBefore(c)
  BY <1>4 DEF ListBefore, Spawn, Move
<1>5. CASE Collect(c)
  BY <1>5 DEF Collect, Done, Move
<1>6. CASE ListAfter(c)
  BY <1>6 DEF ListAfter, Done, Move
<1>7. CASE Remove(c)
  BY <1>7 DEF Remove, Done, Move
<1>8. CASE CancelCall(c)
  BY <1>8 DEF CancelCall, Move
<1>9. CASE StartBox(c) \/ ChildExits(c)
  BY <1>9 DEF StartBox, ChildExits
<1> QED
  BY <1>1, <1>2, <1>3, <1>4, <1>5, <1>6, <1>7, <1>8, <1>9 DEF Handle

(* Processes, sandboxes and the cleanup's lists.                           *)
LEMMA ProcessesTyped ==
    ASSUME RunsOK, NEW c \in Calls, Handle(c) \/ CancelCall(c) \/ StartBox(c) \/ ChildExits(c)
    PROVE  /\ child' \in [Calls -> {"none", "alive", "dead"}]
           /\ box' \in [Calls -> {"none", "there", "removed"}]
           /\ mark' \in [Calls -> SUBSET Calls]
<1> USE DEF RunsOK
<1>1. CASE Check(c) \/ CancelCall(c) \/ StartBox(c) \/ ChildExits(c)
  BY <1>1 DEF Check, CancelCall, StartBox, ChildExits
<1>2. CASE Lock(c)
  BY <1>2 DEF Lock, Spawn
<1>3. CASE Acquire(c)
  BY <1>3 DEF Acquire, Spawn
<1>4. CASE ListBefore(c)
  BY <1>4 DEF ListBefore, Spawn, Listing, Present
<1>5. CASE Collect(c)
  BY <1>5 DEF Collect, Outlives
<1>6. CASE ListAfter(c)
  BY <1>6 DEF ListAfter, Listing, Present
<1>7. CASE Remove(c)
  BY <1>7 DEF Remove
<1> QED
  BY <1>1, <1>2, <1>3, <1>4, <1>5, <1>6, <1>7 DEF Handle

(* A history grows by one turn of the call that takes the step.            *)
LEMMA HistoryGrows ==
    ASSUME RunsOK, NEW c \in Calls, Handle(c) \/ CancelCall(c) \/ StartBox(c) \/ ChildExits(c)
    PROVE  \/ UNCHANGED hist
           \/ Lock(c) /\ hist' = WithTurn(c, "user")
           \/ /\ hist' = WithTurn(c, "assistant") /\ call[c].kind = "message"
              /\ At(c) \in {"running", "sweeping", "removing"} /\ Move(c, "done")
<1>1. CASE Check(c) \/ CancelCall(c) \/ StartBox(c) \/ ChildExits(c) \/ ListBefore(c)
  BY <1>1 DEF Check, CancelCall, StartBox, ChildExits, ListBefore
<1>2. CASE Lock(c) \/ Acquire(c)
  BY <1>2 DEF Lock, Acquire
<1>3. CASE Collect(c)
  BY <1>3 DEF Collect, Done
<1>4. CASE ListAfter(c)
  BY <1>4 DEF ListAfter, Done
<1>5. CASE Remove(c)
  BY <1>5 DEF Remove, Done
<1> QED
  BY <1>1, <1>2, <1>3, <1>4, <1>5 DEF Handle

LEMMA GoingOnTyped ==
    ASSUME RunsOK, NEW c \in Calls, GoesOn(c)
    PROVE  call' \in [Calls -> CallStates]
<1>1. CASE UNCHANGED call
  BY <1>1 DEF RunsOK
<1>2. ASSUME NEW phase \in Waits \cup Ends, Move(c, phase)
      PROVE  call' \in [Calls -> CallStates]
  <2>1. call[c] \in CallStates
    BY DEF RunsOK
  <2>2. [call[c] EXCEPT !.phase = phase] \in CallStates
    BY <1>2, <2>1 DEF CallStates
  <2> QED
    BY <1>2, <2>2 DEF Move, RunsOK
<1> QED
  BY <1>1, <1>2 DEF GoesOn

LEMMA HistoryTyped ==
    ASSUME RunsOK, NEW c \in Calls, NEW role \in {"user", "assistant"},
           hist' = WithTurn(c, role)
    PROVE  hist' \in [Adapters -> Seq(Turn)]
<1>1. hist \in [Adapters -> Seq(Turn)] /\ Agent(c) \in Adapters
  BY DEF RunsOK, Turn, Agent, CallStates
<1>2. Append(hist[Agent(c)], [role |-> role, call |-> c]) \in Seq(Turn)
  BY <1>1, AppendProperties DEF Turn
<1> QED
  BY <1>1, <1>2 DEF WithTurn

LEMMA ArrivingTyped ==
    ASSUME RunsOK, NEW c \in Calls, NEW p \in Calls \cup {NoCall},
           NEW o \in Offers[c], Arrive(c, o.agent, o.kind, o.via, p)
    PROVE  RunsOK'
<1>1. o.agent \in Adapters /\ o.kind \in Kinds /\ o.via \in Ways
  BY RunsAssumption
<1>2. p # NoCall => call[p].depth \in Nat /\ call[p].line \in SUBSET Calls
  BY DEF RunsOK, CallStates
<1>3. Depth(o.via, p) \in Nat
  BY <1>2 DEF Depth
<1>4. First(o.agent, o.kind) \in Waits
  BY DEF First, Waits
<1>5. call' \in [Calls -> CallStates]
  BY <1>1, <1>2, <1>3, <1>4 DEF Arrive, RunsOK, CallStates, Ends
<1> QED
  BY <1>5 DEF Arrive, RunsOK

LEMMA RunsStepTyped == ASSUME RunsOK, RunsStep PROVE RunsOK'
<1>1. ASSUME NEW c \in Calls,
             Handle(c) \/ CancelCall(c) \/ StartBox(c) \/ ChildExits(c)
      PROVE  RunsOK'
  <2>1. call' \in [Calls -> CallStates]
    BY <1>1, HandlingGoesOn, GoingOnTyped
  <2>2. hist' \in [Adapters -> Seq(Turn)]
    BY <1>1, HistoryGrows, HistoryTyped DEF RunsOK, Turn
  <2> QED
    BY <1>1, <2>1, <2>2, ProcessesTyped DEF RunsOK, Turn
<1> QED
  BY <1>1, ArrivingTyped DEF RunsStep

(* The state of the adapters' calls is well formed.                        *)
THEOREM RunsTypeCorrect == RunsSpec => []RunsOK
<1>1. RunsOK /\ [RunsStep]_runVars => RunsOK'
  BY RunsStepTyped DEF RunsOK, runVars
<1> QED
  BY RunsInit, <1>1, PTL DEF RunsSpec

-----------------------------------------------------------------------------
(* Nesting.                                                                *)

CallersAreCounted == \A c \in Calls :
    child[c] # "none" => At(c) \notin {"idle", "refused"}

LineHasBegun == \A c \in Calls : \A q \in call[c].line : At(q) # "idle" /\ q # c

DepthCountsTheLine == \A c \in Calls : At(c) # "idle" =>
    /\ call[c].depth = Cardinality(call[c].line) + 1
    /\ At(c) # "refused" => call[c].depth <= MaxNested

NestInv == RunsOK /\ CallersAreCounted /\ LineHasBegun /\ DepthCountsTheLine

LEMMA NestInit == InitRuns => NestInv
<1>1. InitRuns => CallersAreCounted /\ LineHasBegun /\ DepthCountsTheLine
  BY DEF InitRuns, CallersAreCounted, LineHasBegun, DepthCountsTheLine, At
<1> QED
  BY <1>1, RunsInit DEF NestInv

(* A process belongs to a call that has got as far as starting one.        *)
LEMMA ProcessOfACall ==
    ASSUME RunsOK, NEW c \in Calls,
           Handle(c) \/ CancelCall(c) \/ StartBox(c) \/ ChildExits(c),
           NEW d \in Calls, child'[d] # "none"
    PROVE  child[d] # "none" \/ (d = c /\ At(c) \in Waits)
<1> USE DEF RunsOK, Waits
<1>1. CASE Check(c) \/ CancelCall(c) \/ StartBox(c)
  BY <1>1 DEF Check, CancelCall, StartBox
<1>2. CASE Lock(c)
  BY <1>2 DEF Lock, Spawn
<1>3. CASE Acquire(c)
  BY <1>3 DEF Acquire, Spawn
<1>4. CASE ListBefore(c)
  BY <1>4 DEF ListBefore, Spawn
<1>5. CASE Collect(c)
  BY <1>5 DEF Collect, Outlives
<1>6. CASE ListAfter(c) \/ Remove(c)
  BY <1>6 DEF ListAfter, Remove
<1>7. CASE ChildExits(c)
  BY <1>7 DEF ChildExits
<1> QED
  BY <1>1, <1>2, <1>3, <1>4, <1>5, <1>6, <1>7 DEF Handle

LEMMA GoingOnNests ==
    ASSUME NestInv, NEW c \in Calls,
           Handle(c) \/ CancelCall(c) \/ StartBox(c) \/ ChildExits(c)
    PROVE  /\ CallersAreCounted' /\ LineHasBegun' /\ DepthCountsTheLine'
<1>1. \A d \in Calls : /\ call'[d].depth = call[d].depth
                       /\ call'[d].line = call[d].line
                       /\ \/ At(d)' = At(d)
                          \/ At(d) \in Waits /\ At(d)' \in (Waits \cup Ends) \ {"refused"}
  <2>1. call \in [Calls -> CallStates]
    BY DEF NestInv, RunsOK
  <2>2. ASSUME NEW phase \in (Waits \cup Ends) \ {"refused"}, At(c) \in Waits, Move(c, phase),
               NEW d \in Calls
        PROVE  /\ call'[d].depth = call[d].depth
               /\ call'[d].line = call[d].line
               /\ \/ At(d)' = At(d)
                  \/ At(d) \in Waits /\ At(d)' \in (Waits \cup Ends) \ {"refused"}
    BY <2>1, <2>2 DEF Move, At, CallStates
  <2> QED
    BY <2>2, HandlingGoesOn DEF NestInv, GoesOn, At
<1>2. CallersAreCounted'
  <2> SUFFICES ASSUME NEW d \in Calls, child'[d] # "none"
               PROVE  At(d)' \notin {"idle", "refused"}
    BY DEF CallersAreCounted
  <2>1. At(d) \notin {"idle", "refused"}
    BY ProcessOfACall DEF NestInv, CallersAreCounted, Waits
  <2> QED
    BY <1>1, <2>1 DEF Waits, Ends
<1>3. LineHasBegun'
  <2> SUFFICES ASSUME NEW d \in Calls, NEW q \in call'[d].line
               PROVE  At(q)' # "idle" /\ q # d
    BY DEF LineHasBegun
  <2>1. q \in call[d].line
    BY <1>1
  <2>2. q \in Calls
    BY <2>1 DEF NestInv, RunsOK, CallStates
  <2>3. At(q) # "idle" /\ q # d
    BY <2>1 DEF NestInv, LineHasBegun
  <2> QED
    BY <1>1, <2>2, <2>3 DEF Waits, Ends
<1>4. DepthCountsTheLine'
  <2> SUFFICES ASSUME NEW d \in Calls, At(d)' # "idle"
               PROVE  /\ call'[d].depth = Cardinality(call'[d].line) + 1
                      /\ At(d)' # "refused" => call'[d].depth <= MaxNested
    BY DEF DepthCountsTheLine
  <2>1. At(d) # "idle" /\ (At(d)' # "refused" => At(d) # "refused")
    BY <1>1 DEF Waits, Ends
  <2> QED
    BY <1>1, <2>1 DEF NestInv, DepthCountsTheLine
<1> QED
  BY <1>2, <1>3, <1>4

LEMMA ArrivingNests ==
    ASSUME NestInv, NEW c \in Calls, NEW p \in Calls \cup {NoCall},
           NEW o \in Offers[c], Arrive(c, o.agent, o.kind, o.via, p)
    PROVE  CallersAreCounted' /\ LineHasBegun' /\ DepthCountsTheLine'
<1> DEFINE byHttp == o.via = "http" /\ p # NoCall
           d == Depth(o.via, p)
           line == IF byHttp THEN call[p].line \cup {p} ELSE {}
<1>1. /\ call \in [Calls -> CallStates]
      /\ At(c) = "idle" /\ UNCHANGED child
      /\ call' = [call EXCEPT ![c] =
            [agent |-> o.agent, kind |-> o.kind, via |-> o.via, depth |-> d, line |-> line,
             phase |-> IF Refused(d) THEN "refused" ELSE First(o.agent, o.kind)]]
  BY DEF Arrive, NestInv, RunsOK
<1>2. First(o.agent, o.kind) \notin {"idle", "refused"}
  BY DEF First
<1>3. byHttp => p \in Calls /\ child[p] # "none" /\ At(p) \notin {"idle", "refused"}
  BY DEF Arrive, NestInv, CallersAreCounted
<1>4. call'[c].depth = d /\ call'[c].line = line /\ At(c)' # "idle"
      /\ (At(c)' # "refused" => ~Refused(d))
  BY <1>1, <1>2 DEF At
<1>5. \A e \in Calls \ {c} : call'[e] = call[e]
  BY <1>1
<1>6. child[c] = "none"
  BY <1>1 DEF NestInv, CallersAreCounted
<1>7. d = Cardinality(line) + 1 /\ d \in Nat
  <2>1. CASE byHttp
    <3>1. call[p].line \subseteq Calls /\ IsFiniteSet(Calls)
      BY <1>1, <1>3, <2>1, RunsAssumption DEF CallStates
    <3>2. IsFiniteSet(call[p].line)
      BY <3>1, FS_Subset
    <3>3. Cardinality(call[p].line) \in Nat
      BY <3>2, FS_CardinalityType
    <3>4. p \notin call[p].line
      BY <1>3, <2>1 DEF NestInv, LineHasBegun
    <3>5. Cardinality(call[p].line \cup {p}) = Cardinality(call[p].line) + 1
      BY <3>2, <3>4, FS_AddElement
    <3> QED
      BY <1>3, <2>1, <3>3, <3>5 DEF Depth, NestInv, DepthCountsTheLine
  <2>2. CASE ~byHttp
    BY <2>2, FS_EmptySet DEF Depth
  <2> QED
    BY <2>1, <2>2
<1>8. CallersAreCounted'
  BY <1>1, <1>5, <1>6 DEF NestInv, CallersAreCounted, At
<1>9. LineHasBegun'
  <2> SUFFICES ASSUME NEW e \in Calls, NEW q \in call'[e].line
               PROVE  At(q)' # "idle" /\ q # e
    BY DEF LineHasBegun
  <2>1. q \in Calls /\ At(q) # "idle" /\ q # e
    <3>1. CASE e = c /\ byHttp
      <4>1. q = p \/ q \in call[p].line
        BY <1>4, <3>1
      <4>2. q \in Calls /\ At(q) # "idle"
        BY <1>1, <1>3, <3>1, <4>1 DEF NestInv, LineHasBegun, CallStates
      <4> QED
        BY <1>1, <3>1, <4>2
    <3>2. CASE e = c /\ ~byHttp
      BY <1>4, <3>2
    <3>3. CASE e # c
      BY <1>1, <1>5, <3>3 DEF NestInv, LineHasBegun, CallStates
    <3> QED
      BY <3>1, <3>2, <3>3
  <2>2. q # c
    BY <1>1, <2>1
  <2> QED
    BY <1>5, <2>1, <2>2 DEF At
<1>10. DepthCountsTheLine'
  <2> SUFFICES ASSUME NEW e \in Calls, At(e)' # "idle"
               PROVE  /\ call'[e].depth = Cardinality(call'[e].line) + 1
                      /\ At(e)' # "refused" => call'[e].depth <= MaxNested
    BY DEF DepthCountsTheLine
  <2>1. CASE e = c
    BY <1>4, <1>7, <2>1, RunsAssumption DEF Refused
  <2>2. CASE e # c
    BY <1>5, <2>2 DEF NestInv, DepthCountsTheLine, At
  <2> QED
    BY <2>1, <2>2
<1> QED
  BY <1>8, <1>9, <1>10

LEMMA NestStep == ASSUME NestInv, RunsStep PROVE NestInv'
<1>1. RunsOK'
  BY RunsStepTyped DEF NestInv
<1> QED
  BY <1>1, GoingOnNests, ArrivingNests DEF RunsStep, NestInv

(* The cycle guard, whatever the limit and however many agents call each   *)
(* other: no chain of calls by HTTP is longer than max_nested_agent_calls. *)
THEOREM NestingStaysBounded == RunsSpec => []NestingIsBounded
<1>1. NestInv /\ [RunsStep]_runVars => NestInv'
  <2>1. NestInv /\ UNCHANGED runVars => NestInv'
    BY DEF NestInv, RunsOK, CallersAreCounted, LineHasBegun, DepthCountsTheLine, runVars, At
  <2> QED
    BY <2>1, NestStep
<1>2. NestInv => NestingIsBounded
  <2> SUFFICES ASSUME NestInv, NEW c \in Calls, At(c) \notin {"idle", "refused"}
               PROVE  Cardinality(call[c].line) < MaxNested
    BY DEF NestingIsBounded
  <2>1. call[c].depth = Cardinality(call[c].line) + 1 /\ call[c].depth <= MaxNested
    BY DEF NestInv, DepthCountsTheLine
  <2>2. call[c].line \subseteq Calls /\ IsFiniteSet(Calls)
    BY RunsAssumption DEF NestInv, RunsOK, CallStates
  <2>3. Cardinality(call[c].line) \in Nat
    BY <2>2, FS_Subset, FS_CardinalityType
  <2> QED
    BY <2>1, <2>3, RunsAssumption
<1> QED
  BY NestInit, <1>1, <1>2, PTL DEF RunsSpec

-----------------------------------------------------------------------------
(* The histories.                                                          *)

OneHoldsTheLock == \A c, d \in Calls :
    HoldsLock(c) /\ HoldsLock(d) /\ Agent(c) = Agent(d) => c = d

LastTurn(a) == hist[a][Len(hist[a])]

HolderWroteLast == \A c \in Calls : HoldsLock(c) =>
    /\ hist[Agent(c)] # <<>>
    /\ LastTurn(Agent(c)) = [role |-> "user", call |-> c]

HistInv == RunsOK /\ OneHoldsTheLock /\ HolderWroteLast /\ AnswerFollowsQuestion

LEMMA HistInit == InitRuns => HistInv
<1> SUFFICES ASSUME InitRuns PROVE HistInv
  OBVIOUS
<1>1. \A c \in Calls : ~HoldsLock(c)
  BY DEF InitRuns, HoldsLock, At
<1>2. AnswerFollowsQuestion
  BY DEF InitRuns, AnswerFollowsQuestion
<1> QED
  BY <1>1, <1>2, RunsInit DEF HistInv, OneHoldsTheLock, HolderWroteLast

(* A step takes no lock but with Lock, and one that is held by nobody.     *)
LEMMA LocksTaken ==
    ASSUME RunsOK, NEW c \in Calls,
           Handle(c) \/ CancelCall(c) \/ StartBox(c) \/ ChildExits(c)
    PROVE  /\ \A d \in Calls : Agent(d)' = Agent(d) /\ call'[d].kind = call[d].kind
           /\ \A d \in Calls \ {c} : HoldsLock(d)' = HoldsLock(d)
           /\ HoldsLock(c)' => HoldsLock(c) \/ (Lock(c) /\ LockIsFree(c))
<1>1. call \in [Calls -> CallStates]
  BY DEF RunsOK
<1>2. \A d \in Calls : Agent(d)' = Agent(d) /\ call'[d].kind = call[d].kind
  BY <1>1, HandlingGoesOn DEF GoesOn, Move, Agent, CallStates
<1>3. \A d \in Calls \ {c} : HoldsLock(d)' = HoldsLock(d)
  BY <1>1, HandlingGoesOn DEF GoesOn, Move, HoldsLock, At
<1>4. ASSUME HoldsLock(c)', ~Lock(c)
      PROVE  HoldsLock(c)
  <2>1. CASE Check(c)
    BY <1>1, <1>4, <2>1 DEF Check, Move, HoldsLock, At, CallStates
  <2>2. CASE Acquire(c)
    BY <1>1, <1>2, <1>4, <2>2 DEF Acquire, HoldsLock, At
  <2>3. CASE ListBefore(c)
    BY <1>1, <1>2, <1>4, <2>3 DEF ListBefore, HoldsLock, At
  <2>4. CASE Collect(c)
    BY <1>1, <1>2, <1>4, <2>4 DEF Collect, HoldsLock, At
  <2>5. CASE ListAfter(c) \/ Remove(c)
    BY <1>1, <1>2, <1>4, <2>5 DEF ListAfter, Remove, HoldsLock, At
  <2>6. CASE CancelCall(c)
    BY <1>1, <1>4, <2>6 DEF CancelCall, Move, HoldsLock, At, CallStates
  <2>7. CASE StartBox(c) \/ ChildExits(c)
    BY <1>4, <2>7 DEF StartBox, ChildExits, HoldsLock, At
  <2> QED
    BY <1>4, <2>1, <2>2, <2>3, <2>4, <2>5, <2>6, <2>7 DEF Handle
<1> QED
  BY <1>2, <1>3, <1>4 DEF Lock

(* What an append does to a history.                                       *)
LEMMA HistoryAfter ==
    ASSUME RunsOK, NEW c \in Calls, NEW role \in {"user", "assistant"},
           hist' = WithTurn(c, role)
    PROVE  /\ \A a \in Adapters \ {Agent(c)} : hist'[a] = hist[a]
           /\ Agent(c) \in Adapters
           /\ hist[Agent(c)] \in Seq(Turn)
           /\ Len(hist'[Agent(c)]) = Len(hist[Agent(c)]) + 1
           /\ hist'[Agent(c)] # <<>>
           /\ \A i \in 1 .. Len(hist[Agent(c)]) : hist'[Agent(c)][i] = hist[Agent(c)][i]
           /\ hist'[Agent(c)][Len(hist[Agent(c)]) + 1] = [role |-> role, call |-> c]
<1>1. hist \in [Adapters -> Seq(Turn)] /\ Agent(c) \in Adapters
  BY DEF RunsOK, Turn, Agent, CallStates
<1>2. hist'[Agent(c)] = Append(hist[Agent(c)], [role |-> role, call |-> c])
  BY <1>1 DEF WithTurn
<1>3. [role |-> role, call |-> c] \in Turn
  BY DEF Turn
<1>4. hist[Agent(c)] \in Seq(Turn)
  BY <1>1
<1>5. /\ Len(hist'[Agent(c)]) = Len(hist[Agent(c)]) + 1
      /\ \A i \in 1 .. Len(hist[Agent(c)]) : hist'[Agent(c)][i] = hist[Agent(c)][i]
      /\ hist'[Agent(c)][Len(hist[Agent(c)]) + 1] = [role |-> role, call |-> c]
      /\ hist'[Agent(c)] # <<>>
  BY <1>2, <1>3, <1>4, AppendProperties
<1>6. \A a \in Adapters \ {Agent(c)} : hist'[a] = hist[a]
  BY <1>1 DEF WithTurn
<1> QED
  BY <1>1, <1>4, <1>5, <1>6

LEMMA HandlingKeepsHistories ==
    ASSUME HistInv, NEW c \in Calls,
           Handle(c) \/ CancelCall(c) \/ StartBox(c) \/ ChildExits(c)
    PROVE  OneHoldsTheLock' /\ HolderWroteLast' /\ AnswerFollowsQuestion'
<1>1. RunsOK
  BY DEF HistInv
<1>2. /\ \A d \in Calls : Agent(d)' = Agent(d) /\ call'[d].kind = call[d].kind
      /\ \A d \in Calls \ {c} : HoldsLock(d)' = HoldsLock(d)
      /\ HoldsLock(c)' => HoldsLock(c) \/ (Lock(c) /\ LockIsFree(c))
  BY <1>1, LocksTaken
<1>3. /\ hist \in [Adapters -> Seq(Turn)]
      /\ \A d \in Calls : Agent(d) \in Adapters
  BY <1>1 DEF RunsOK, Turn, Agent, CallStates
<1>4. OneHoldsTheLock'
  <2> SUFFICES ASSUME NEW d \in Calls, NEW e \in Calls, HoldsLock(d)', HoldsLock(e)',
                      Agent(d)' = Agent(e)', d # e
               PROVE  FALSE
    BY DEF OneHoldsTheLock
  <2>1. Agent(d) = Agent(e)
    BY <1>2
  <2>2. HoldsLock(d) \/ (d = c /\ LockIsFree(c))
    BY <1>2
  <2>3. HoldsLock(e) \/ (e = c /\ LockIsFree(c))
    BY <1>2
  <2> QED
    BY <2>1, <2>2, <2>3 DEF LockIsFree, HistInv, OneHoldsTheLock
<1>5. CASE Lock(c)
  <2>1. hist' = WithTurn(c, "user") /\ LockIsFree(c)
    BY <1>5 DEF Lock
  <2>2. /\ \A a \in Adapters \ {Agent(c)} : hist'[a] = hist[a]
        /\ hist[Agent(c)] \in Seq(Turn)
        /\ Len(hist'[Agent(c)]) = Len(hist[Agent(c)]) + 1
        /\ hist'[Agent(c)] # <<>>
        /\ \A i \in 1 .. Len(hist[Agent(c)]) : hist'[Agent(c)][i] = hist[Agent(c)][i]
        /\ hist'[Agent(c)][Len(hist[Agent(c)]) + 1] = [role |-> "user", call |-> c]
    BY <1>1, <2>1, HistoryAfter
  <2>3. HolderWroteLast'
    <3> SUFFICES ASSUME NEW d \in Calls, HoldsLock(d)'
                 PROVE  /\ hist'[Agent(d)] # <<>>
                        /\ LastTurn(Agent(d))' = [role |-> "user", call |-> d]
      BY <1>2 DEF HolderWroteLast, LastTurn
    <3>1. CASE d = c
      BY <1>2, <2>2, <3>1 DEF LastTurn
    <3>2. CASE d # c
      <4>1. HoldsLock(d) /\ Agent(d) # Agent(c)
        BY <1>2, <2>1, <3>2 DEF LockIsFree
      <4>2. hist'[Agent(d)] = hist[Agent(d)] /\ Agent(d)' = Agent(d)
        BY <1>2, <1>3, <2>2, <4>1
      <4> QED
        BY <4>1, <4>2 DEF HistInv, HolderWroteLast, LastTurn
    <3> QED
      BY <3>1, <3>2
  <2>4. AnswerFollowsQuestion'
    <3> SUFFICES ASSUME NEW a \in Adapters, NEW i \in DOMAIN hist'[a],
                        hist'[a][i].role = "assistant"
                 PROVE  i > 1 /\ hist'[a][i - 1] = [role |-> "user", call |-> hist'[a][i].call]
      BY DEF AnswerFollowsQuestion
    <3>1. CASE a # Agent(c)
      BY <2>2, <3>1 DEF HistInv, AnswerFollowsQuestion
    <3>2. CASE a = Agent(c)
      <4>1. hist' \in [Adapters -> Seq(Turn)]
        BY <1>1, <2>1, HistoryTyped
      <4>2. i \in 1 .. Len(hist[a]) + 1 /\ Len(hist[a]) \in Nat
        BY <2>2, <3>2, <4>1
      <4>3. i # Len(hist[a]) + 1
        BY <2>2, <3>2
      <4>4. i \in DOMAIN hist[a] /\ hist'[a][i] = hist[a][i]
        BY <1>3, <2>2, <3>2, <4>2, <4>3
      <4>5. i > 1 /\ hist[a][i - 1] = [role |-> "user", call |-> hist[a][i].call]
        BY <4>4 DEF HistInv, AnswerFollowsQuestion
      <4>6. i - 1 \in 1 .. Len(hist[a])
        BY <4>2, <4>3, <4>5
      <4> QED
        BY <2>2, <3>2, <4>4, <4>5, <4>6
    <3> QED
      BY <3>1, <3>2
  <2> QED
    BY <1>4, <2>3, <2>4
<1>6. CASE ~Lock(c) /\ UNCHANGED hist
  <2>1. HolderWroteLast'
    BY <1>2, <1>6 DEF HistInv, HolderWroteLast, LastTurn
  <2>2. AnswerFollowsQuestion'
    BY <1>6 DEF HistInv, AnswerFollowsQuestion
  <2> QED
    BY <1>4, <2>1, <2>2
<1>7. CASE /\ hist' = WithTurn(c, "assistant") /\ call[c].kind = "message"
           /\ At(c) \in {"running", "sweeping", "removing"} /\ Move(c, "done")
  <2>1. HoldsLock(c) /\ ~HoldsLock(c)'
    BY <1>1, <1>7 DEF HoldsLock, Move, At, RunsOK, CallStates
  <2>2. /\ \A a \in Adapters \ {Agent(c)} : hist'[a] = hist[a]
        /\ hist[Agent(c)] \in Seq(Turn)
        /\ Len(hist'[Agent(c)]) = Len(hist[Agent(c)]) + 1
        /\ \A i \in 1 .. Len(hist[Agent(c)]) : hist'[Agent(c)][i] = hist[Agent(c)][i]
        /\ hist'[Agent(c)][Len(hist[Agent(c)]) + 1] = [role |-> "assistant", call |-> c]
    BY <1>1, <1>7, HistoryAfter
  <2>3. /\ hist[Agent(c)] # <<>>
        /\ hist[Agent(c)][Len(hist[Agent(c)])] = [role |-> "user", call |-> c]
    BY <2>1 DEF HistInv, HolderWroteLast, LastTurn
  <2>4. HolderWroteLast'
    <3> SUFFICES ASSUME NEW d \in Calls, HoldsLock(d)'
                 PROVE  /\ hist'[Agent(d)] # <<>>
                        /\ LastTurn(Agent(d))' = [role |-> "user", call |-> d]
      BY <1>2 DEF HolderWroteLast, LastTurn
    <3>1. d # c /\ HoldsLock(d)
      BY <1>2, <2>1
    <3>2. Agent(d) # Agent(c)
      BY <2>1, <3>1 DEF HistInv, OneHoldsTheLock
    <3>3. hist'[Agent(d)] = hist[Agent(d)] /\ Agent(d)' = Agent(d)
      BY <1>2, <1>3, <2>2, <3>2
    <3> QED
      BY <3>1, <3>3 DEF HistInv, HolderWroteLast, LastTurn
  <2>5. AnswerFollowsQuestion'
    <3> SUFFICES ASSUME NEW a \in Adapters, NEW i \in DOMAIN hist'[a],
                        hist'[a][i].role = "assistant"
                 PROVE  i > 1 /\ hist'[a][i - 1] = [role |-> "user", call |-> hist'[a][i].call]
      BY DEF AnswerFollowsQuestion
    <3>1. CASE a # Agent(c)
      BY <2>2, <3>1 DEF HistInv, AnswerFollowsQuestion
    <3>2. CASE a = Agent(c)
      <4>1. hist' \in [Adapters -> Seq(Turn)]
        BY <1>1, <1>7, HistoryTyped
      <4>2. i \in 1 .. Len(hist[a]) + 1 /\ Len(hist[a]) \in Nat
        BY <2>2, <3>2, <4>1
      <4>3. Len(hist[a]) > 0
        BY <2>2, <2>3, <3>2, EmptySeq
      <4>4. CASE i = Len(hist[a]) + 1
        <5>1. i - 1 = Len(hist[a]) /\ i > 1
          BY <4>2, <4>3, <4>4
        <5>2. hist'[a][i - 1] = [role |-> "user", call |-> c]
          BY <2>2, <2>3, <3>2, <4>2, <4>3, <5>1
        <5>3. hist'[a][i].call = c
          BY <2>2, <3>2, <4>4
        <5> QED
          BY <5>1, <5>2, <5>3
      <4>5. CASE i # Len(hist[a]) + 1
        <5>1. i \in DOMAIN hist[a] /\ hist'[a][i] = hist[a][i]
          BY <1>3, <2>2, <3>2, <4>2, <4>5
        <5>2. i > 1 /\ hist[a][i - 1] = [role |-> "user", call |-> hist[a][i].call]
          BY <5>1 DEF HistInv, AnswerFollowsQuestion
        <5>3. i - 1 \in 1 .. Len(hist[a])
          BY <4>2, <4>5, <5>2
        <5> QED
          BY <2>2, <3>2, <5>1, <5>2, <5>3
      <4> QED
        BY <4>4, <4>5
    <3> QED
      BY <3>1, <3>2
  <2> QED
    BY <1>4, <2>4, <2>5
<1> QED
  BY <1>1, <1>5, <1>6, <1>7, HistoryGrows

LEMMA ArrivingKeepsHistories ==
    ASSUME HistInv, NEW c \in Calls, NEW p \in Calls \cup {NoCall},
           NEW o \in Offers[c], Arrive(c, o.agent, o.kind, o.via, p)
    PROVE  OneHoldsTheLock' /\ HolderWroteLast' /\ AnswerFollowsQuestion'
<1>1. /\ UNCHANGED hist
      /\ \A d \in Calls \ {c} : call'[d] = call[d]
      /\ call'[c].kind = o.kind
      /\ At(c)' \in {"refused", First(o.agent, o.kind)}
  BY DEF Arrive, HistInv, RunsOK, At
<1>2. ~HoldsLock(c)'
  <2>1. o.agent \in Adapters /\ o.kind \in Kinds
    BY RunsAssumption
  <2>2. o.kind = "message" => First(o.agent, o.kind) \in {"checking", "locking"}
    BY <2>1 DEF First, Adapters
  <2> QED
    BY <1>1, <2>2 DEF HoldsLock, At
<1>3. \A d \in Calls : HoldsLock(d)' => d # c /\ HoldsLock(d) /\ Agent(d)' = Agent(d)
  BY <1>1, <1>2 DEF HoldsLock, At, Agent
<1>4. OneHoldsTheLock'
  BY <1>3 DEF HistInv, OneHoldsTheLock
<1>5. HolderWroteLast'
  BY <1>1, <1>3 DEF HistInv, HolderWroteLast, LastTurn
<1>6. AnswerFollowsQuestion'
  BY <1>1 DEF HistInv, AnswerFollowsQuestion
<1> QED
  BY <1>4, <1>5, <1>6

LEMMA HistStep == ASSUME HistInv, RunsStep PROVE HistInv'
<1>1. RunsOK'
  BY RunsStepTyped DEF HistInv
<1> QED
  BY <1>1, HandlingKeepsHistories, ArrivingKeepsHistories DEF RunsStep, HistInv

(* In every history an answer stands right behind the message it answers,  *)
(* however many messages are posted to a session at once and however their *)
(* runs end: failed, timed out or cancelled.                               *)
THEOREM AnswersFollowQuestions == RunsSpec => []AnswerFollowsQuestion
<1>1. HistInv /\ [RunsStep]_runVars => HistInv'
  <2>1. ASSUME HistInv, UNCHANGED runVars PROVE HistInv'
    <3>1. RunsOK' /\ AnswerFollowsQuestion'
      BY <2>1 DEF HistInv, RunsOK, AnswerFollowsQuestion, runVars
    <3>2. \A c \in Calls : HoldsLock(c)' = HoldsLock(c) /\ Agent(c)' = Agent(c)
      BY <2>1 DEF runVars, HoldsLock, Agent, At
    <3>3. OneHoldsTheLock'
      BY <2>1, <3>2 DEF HistInv, OneHoldsTheLock
    <3>4. HolderWroteLast'
      BY <2>1, <3>2 DEF HistInv, HolderWroteLast, LastTurn, runVars
    <3> QED
      BY <3>1, <3>3, <3>4 DEF HistInv
  <2> QED
    BY <2>1, HistStep
<1> QED
  BY HistInit, <1>1, PTL DEF RunsSpec, HistInv

-----------------------------------------------------------------------------
(* The sandboxes.                                                          *)

Early == {"idle", "checking", "locking", "queued", "listing"}

AtWork(c) == At(c) \in {"listing", "running", "sweeping", "removing"}

(* The one slot of the one adapter with sandboxes.                         *)
OneSlot(c) == Hands = {Agent(c)} /\ Slots[Agent(c)] = 1

NothingBeforeTheStart == \A c \in Calls :
    At(c) \in Early => child[c] = "none" /\ box[c] = "none"

MarksAreOfStarted == \A c \in Calls : \A b \in mark[c] : box[b] # "none"

OneHoldsTheSlot == \A c, d \in Calls :
    OneSlot(c) /\ Agent(c) = Agent(d) /\ AtWork(c) /\ AtWork(d) => c = d

(* Only runs that start sandboxes list them.                               *)
Sweeping(c) == At(c) \in {"listing", "sweeping", "removing"}

SweepersHaveBoxes == \A c \in Calls : Sweeping(c) => Agent(c) \in Hands

BoxInv == RunsOK /\ NothingBeforeTheStart /\ MarksAreOfStarted /\ SweepersHaveBoxes
          /\ OneHoldsTheSlot /\ SandboxIsKept

LEMMA BoxInit == InitRuns => BoxInv
<1>1. InitRuns => NothingBeforeTheStart /\ MarksAreOfStarted /\ SweepersHaveBoxes
                  /\ OneHoldsTheSlot /\ SandboxIsKept
  BY DEF InitRuns, NothingBeforeTheStart, MarksAreOfStarted, SweepersHaveBoxes,
         OneHoldsTheSlot, SandboxIsKept, Sweeping, AtWork, At
<1> QED
  BY <1>1, RunsInit DEF BoxInv

(* Where a step of c leads it.  Only a wait for a slot, or for a lock that *)
(* needs none, ends in work.                                               *)
LEMMA Phases ==
    ASSUME RunsOK, NothingBeforeTheStart, NEW c \in Calls,
           Handle(c) \/ CancelCall(c) \/ StartBox(c) \/ ChildExits(c)
    PROVE  /\ \A d \in Calls : Agent(d)' = Agent(d)
           /\ \A d \in Calls \ {c} : At(d)' = At(d)
           /\ At(c)' \in Early => At(c) \in Early /\ child' = child
           /\ At(c)' = "running" =>
                 \/ At(c) = "running"
                 \/ At(c) \in Early /\ UNCHANGED box
           /\ AtWork(c)' =>
                 \/ AtWork(c)
                 \/ Acquire(c)
                 \/ Agent(c) \in Claw
           /\ Sweeping(c)' => Sweeping(c) \/ Agent(c) \in Hands
<1>1. call \in [Calls -> CallStates]
  BY DEF RunsOK
<1>2. /\ \A d \in Calls : Agent(d)' = Agent(d)
      /\ \A d \in Calls \ {c} : At(d)' = At(d)
  BY <1>1, HandlingGoesOn DEF GoesOn, Move, Agent, At, CallStates
<1>3. ASSUME NEW phase, Move(c, phase)
      PROVE  At(c)' = phase
  BY <1>1, <1>3 DEF Move, At, CallStates
<1> DEFINE Goes == /\ At(c)' \in Early => At(c) \in Early /\ child' = child
                   /\ At(c)' = "running" =>
                         \/ At(c) = "running"
                         \/ At(c) \in Early /\ UNCHANGED box
                   /\ AtWork(c)' => AtWork(c) \/ Acquire(c) \/ Agent(c) \in Claw
                   /\ Sweeping(c)' => Sweeping(c) \/ Agent(c) \in Hands
<1> SUFFICES Goes
  BY <1>2
<1> HIDE DEF Goes
<1>4. CASE Check(c)
  BY <1>3, <1>4 DEF Goes, Sweeping, Check, Early, AtWork
<1>5. CASE Lock(c)
  BY <1>3, <1>5 DEF Goes, Sweeping, Lock, Spawn, Early, AtWork
<1>6. CASE Acquire(c)
  BY <1>3, <1>6 DEF Goes, Sweeping, Acquire, Spawn, Early
<1>7. CASE ListBefore(c)
  BY <1>3, <1>7 DEF Goes, Sweeping, ListBefore, Spawn, Early, AtWork
<1>8. CASE Collect(c)
  BY <1>1, <1>3, <1>8 DEF Agent, CallStates, Adapters, Goes, Sweeping, Collect, Done, Early, AtWork
<1>9. CASE ListAfter(c)
  BY <1>3, <1>9 DEF Goes, Sweeping, ListAfter, Done, Early, AtWork
<1>10. CASE Remove(c)
  <2>1. At(c) = "removing" /\ (At(c)' = "done" \/ At(c)' = At(c))
    BY <1>3, <1>10 DEF Remove, Done, At
  <2> QED
    BY <2>1 DEF Goes, Sweeping, Early, AtWork
<1>11. CASE CancelCall(c)
  BY <1>3, <1>11 DEF Goes, Sweeping, CancelCall, Early, AtWork
<1>12. CASE StartBox(c)
  BY <1>12 DEF Goes, Sweeping, StartBox, Early, AtWork, At
<1>13. CASE ChildExits(c)
  <2>1. At(c)' = At(c) /\ UNCHANGED box /\ child[c] = "alive"
    BY <1>13 DEF ChildExits, At
  <2> QED
    BY <2>1 DEF Goes, Sweeping, AtWork, NothingBeforeTheStart
<1> QED
  BY <1>4, <1>5, <1>6, <1>7, <1>8, <1>9, <1>10, <1>11, <1>12, <1>13 DEF Handle
(* What a step of c does to processes, sandboxes and lists.                *)
LEMMA Boxes ==
    ASSUME RunsOK, NEW c \in Calls,
           Handle(c) \/ CancelCall(c) \/ StartBox(c) \/ ChildExits(c), NEW d \in Calls
    PROVE  /\ d # c => child'[d] = child[d]
           /\ \/ box'[d] = box[d]
              \/ d = c /\ child[c] = "alive" /\ box'[d] = "there"
              \/ Remove(c) /\ d \in mark[c] /\ box'[d] = "removed"
           /\ mark'[d] \subseteq mark[d] \cup Present
<1> USE DEF RunsOK
<1>1. CASE Check(c) \/ CancelCall(c) \/ StartBox(c) \/ ChildExits(c)
  BY <1>1 DEF Check, CancelCall, StartBox, ChildExits
<1>2. CASE Lock(c)
  BY <1>2 DEF Lock, Spawn
<1>3. CASE Acquire(c)
  BY <1>3 DEF Acquire, Spawn
<1>4. CASE ListBefore(c)
  <2>1. UNCHANGED box /\ (d # c => child'[d] = child[d])
    BY <1>4 DEF ListBefore, Spawn
  <2>2. PICK names \in Listing : mark' = [mark EXCEPT ![c] = names]
    BY <1>4 DEF ListBefore
  <2> QED
    BY <2>1, <2>2 DEF Listing
<1>5. CASE Collect(c)
  BY <1>5 DEF Collect
<1>6. CASE ListAfter(c)
  <2>1. UNCHANGED <<child, box>>
    BY <1>6 DEF ListAfter
  <2>2. PICK names \in Listing : mark' = [mark EXCEPT ![c] = names \ mark[c]]
    BY <1>6 DEF ListAfter
  <2> QED
    BY <2>1, <2>2 DEF Listing
<1>7. CASE Remove(c)
  <2>1. PICK b \in mark[c] :
             /\ box' = box \/ box' = [box EXCEPT ![b] = "removed"]
             /\ mark' = [mark EXCEPT ![c] = mark[c] \ {b}]
    BY <1>7 DEF Remove
  <2>2. UNCHANGED child /\ (mark'[d] \subseteq mark[d])
    BY <1>7, <2>1 DEF Remove
  <2>3. box'[d] = box[d] \/ (d = b /\ box'[d] = "removed")
    BY <2>1
  <2> QED
    BY <1>7, <2>1, <2>2, <2>3
<1> QED
  BY <1>1, <1>2, <1>3, <1>4, <1>5, <1>6, <1>7 DEF Handle

(* Nobody is at work at the one slot when it is free.                      *)
LEMMA FreeSlot ==
    ASSUME RunsOK, NEW c \in Calls, OneSlot(c), SlotIsFree(Agent(c)),
           NEW d \in Calls, Agent(d) = Agent(c)
    PROVE  ~AtWork(d)
<1> SUFFICES ASSUME AtWork(d) PROVE FALSE
  OBVIOUS
<1> DEFINE S == {e \in Calls : HoldsSlot(e) /\ Agent(e) = Agent(c)}
<1>1. HoldsSlot(d)
  BY RunsAssumption DEF OneSlot, AtWork, HoldsSlot
<1>2. d \in S
  BY <1>1
<1>3. IsFiniteSet(S)
  BY RunsAssumption, FS_Subset
<1>4. Cardinality(S) \in Nat /\ Cardinality(S) # 0
  BY <1>2, <1>3, FS_CardinalityType, FS_EmptySet
<1> QED
  BY <1>4 DEF SlotIsFree, OneSlot

LEMMA HandlingKeepsBoxes ==
    ASSUME BoxInv, NEW c \in Calls,
           Handle(c) \/ CancelCall(c) \/ StartBox(c) \/ ChildExits(c)
    PROVE  /\ NothingBeforeTheStart' /\ MarksAreOfStarted' /\ SweepersHaveBoxes'
           /\ OneHoldsTheSlot' /\ SandboxIsKept'
<1>1. /\ RunsOK
      /\ \A d \in Calls : Agent(d)' = Agent(d)
      /\ \A d \in Calls \ {c} : At(d)' = At(d)
      /\ At(c)' \in Early => At(c) \in Early /\ child' = child
      /\ At(c)' = "running" => At(c) = "running" \/ (At(c) \in Early /\ UNCHANGED box)
      /\ AtWork(c)' => AtWork(c) \/ Acquire(c) \/ Agent(c) \in Claw
      /\ Sweeping(c)' => Sweeping(c) \/ Agent(c) \in Hands
  BY Phases DEF BoxInv
<1>2. \A d \in Calls :
        /\ d # c => child'[d] = child[d]
        /\ \/ box'[d] = box[d]
           \/ d = c /\ child[c] = "alive" /\ box'[d] = "there"
           \/ Remove(c) /\ d \in mark[c] /\ box'[d] = "removed"
        /\ mark'[d] \subseteq mark[d] \cup Present
  BY <1>1, Boxes
<1>3. NothingBeforeTheStart'
  <2> SUFFICES ASSUME NEW d \in Calls, At(d)' \in Early
               PROVE  child'[d] = "none" /\ box'[d] = "none"
    BY DEF NothingBeforeTheStart
  <2>1. At(d) \in Early /\ child'[d] = child[d]
    BY <1>1, <1>2
  <2>2. child[d] = "none" /\ box[d] = "none"
    BY <2>1 DEF BoxInv, NothingBeforeTheStart
  <2>3. d \notin mark[c]
    BY <2>2 DEF BoxInv, MarksAreOfStarted
  <2> QED
    BY <1>2, <2>1, <2>2, <2>3
<1>4. MarksAreOfStarted'
  <2> SUFFICES ASSUME NEW d \in Calls, NEW b \in mark'[d]
               PROVE  box'[b] # "none"
    BY DEF MarksAreOfStarted
  <2>1. b \in mark[d] \/ b \in Present
    BY <1>2
  <2>2. b \in Calls /\ box[b] # "none"
    BY <1>1, <2>1 DEF BoxInv, MarksAreOfStarted, Present, RunsOK
  <2> QED
    BY <1>2, <2>2
<1>5. OneHoldsTheSlot'
  <2> SUFFICES ASSUME NEW d \in Calls, NEW e \in Calls, OneSlot(d)', Agent(d)' = Agent(e)',
                      AtWork(d)', AtWork(e)', d # e
               PROVE  FALSE
    BY DEF OneHoldsTheSlot
  <2>1. OneSlot(d) /\ OneSlot(e) /\ Agent(d) = Agent(e) /\ Agent(d) \notin Claw
    BY <1>1, RunsAssumption DEF OneSlot
  <2>2. /\ d # c => AtWork(d)
        /\ e # c => AtWork(e)
    BY <1>1 DEF AtWork
  <2>3. ~(AtWork(d) /\ AtWork(e))
    BY <2>1 DEF BoxInv, OneHoldsTheSlot
  <2>4. (d = c \/ e = c) /\ ~AtWork(c) /\ Acquire(c)
    BY <1>1, <2>1, <2>2, <2>3
  <2>5. SlotIsFree(Agent(c))
    BY <2>4 DEF Acquire
  <2> QED
    BY <1>1, <2>1, <2>2, <2>4, <2>5, FreeSlot
<1>6. SandboxIsKept'
  <2> SUFFICES ASSUME NEW d \in Calls, OneSlot(d)', At(d)' = "running"
               PROVE  box'[d] # "removed"
    BY DEF SandboxIsKept, OneSlot
  <2>1. OneSlot(d)
    BY <1>1 DEF OneSlot
  <2>2. CASE At(d) = "running"
    <3>1. box[d] # "removed" /\ AtWork(d)
      BY <2>1, <2>2 DEF BoxInv, SandboxIsKept, OneSlot, AtWork
    <3>2. ASSUME Remove(c), d \in mark[c]
          PROVE  FALSE
      \* the one that cleans up would hold the slot as well
      <4>1. At(c) = "removing" /\ AtWork(c)
        BY <3>2 DEF Remove, AtWork
      <4>2. Agent(c) = Agent(d)
        BY <2>1, <4>1 DEF BoxInv, SweepersHaveBoxes, Sweeping, OneSlot
      <4> QED
        BY <2>1, <2>2, <3>1, <4>1, <4>2 DEF BoxInv, OneHoldsTheSlot
    <3> QED
      BY <1>2, <3>1, <3>2
  <2>3. CASE At(d) # "running"
    <3>1. d = c /\ At(c) \in Early /\ UNCHANGED box
      BY <1>1, <2>3
    <3> QED
      BY <3>1 DEF BoxInv, NothingBeforeTheStart
  <2> QED
    BY <2>2, <2>3
<1>7. SweepersHaveBoxes'
  BY <1>1 DEF BoxInv, SweepersHaveBoxes, Sweeping
<1> QED
  BY <1>3, <1>4, <1>5, <1>6, <1>7

LEMMA ArrivingKeepsBoxes ==
    ASSUME BoxInv, NEW c \in Calls, NEW p \in Calls \cup {NoCall},
           NEW o \in Offers[c], Arrive(c, o.agent, o.kind, o.via, p)
    PROVE  /\ NothingBeforeTheStart' /\ MarksAreOfStarted' /\ SweepersHaveBoxes'
           /\ OneHoldsTheSlot' /\ SandboxIsKept'
<1>1. /\ At(c) = "idle" /\ UNCHANGED <<child, box, mark>>
      /\ \A d \in Calls \ {c} : At(d)' = At(d) /\ Agent(d)' = Agent(d)
      /\ At(c)' \in {"refused", "checking", "locking", "queued"}
  BY DEF Arrive, BoxInv, RunsOK, At, Agent, First
<1>2. NothingBeforeTheStart'
  BY <1>1 DEF BoxInv, NothingBeforeTheStart, Early
<1>3. MarksAreOfStarted'
  BY <1>1 DEF BoxInv, MarksAreOfStarted
<1>4. SweepersHaveBoxes'
  BY <1>1 DEF BoxInv, SweepersHaveBoxes, Sweeping
<1>5. OneHoldsTheSlot'
  BY <1>1 DEF BoxInv, OneHoldsTheSlot, OneSlot, AtWork
<1>6. SandboxIsKept'
  BY <1>1 DEF BoxInv, SandboxIsKept
<1> QED
  BY <1>2, <1>3, <1>4, <1>5, <1>6

(* With one adapter that starts sandboxes and one slot in it, as deployed, *)
(* _cleanup_sandboxes never removes the sandbox of a run that is still     *)
(* awaited, however many calls come, fail or are cancelled.                *)
THEOREM SandboxesAreKept == RunsSpec => []SandboxIsKept
<1>1. BoxInv /\ [RunsStep]_runVars => BoxInv'
  <2>1. BoxInv /\ UNCHANGED runVars => BoxInv'
    <3> SUFFICES ASSUME BoxInv, UNCHANGED runVars PROVE BoxInv'
      OBVIOUS
    <3>1. RunsOK'
      BY DEF BoxInv, RunsOK, runVars
    <3>2. NothingBeforeTheStart' /\ MarksAreOfStarted' /\ SweepersHaveBoxes'
      BY DEF BoxInv, NothingBeforeTheStart, MarksAreOfStarted, SweepersHaveBoxes,
             Sweeping, At, Agent, runVars
    <3>3. OneHoldsTheSlot'
      BY DEF BoxInv, OneHoldsTheSlot, OneSlot, AtWork, At, Agent, runVars
    <3>4. SandboxIsKept'
      BY DEF BoxInv, SandboxIsKept, At, Agent, runVars
    <3> QED
      BY <3>1, <3>2, <3>3, <3>4 DEF BoxInv
  <2>2. BoxInv /\ RunsStep => BoxInv'
    BY RunsStepTyped, HandlingKeepsBoxes, ArrivingKeepsBoxes DEF RunsStep, BoxInv
  <2> QED
    BY <2>1, <2>2
<1>2. BoxInv => SandboxIsKept
  BY DEF BoxInv
<1> QED
  BY BoxInit, <1>1, <1>2, PTL DEF RunsSpec
=============================================================================
