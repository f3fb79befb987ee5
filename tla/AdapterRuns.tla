----------------------------- MODULE AdapterRuns -----------------------------
(***************************************************************************)
(* Calls of the agent adapters (agent-mesh-common/agent_mesh_adapter.py)   *)
(* and the two runners that start a subprocess for each: clawcode-adapter  *)
(* and openhands-adapter (server.py).  An agent may call an adapter again, *)
(* over HTTP with the depth header, or through the MCP tool, which starts  *)
(* a new count.                                                            *)
(*                                                                         *)
(* A coroutine suspends at its locks and at the subprocesses it awaits.    *)
(* Each adapter has one session here.  The prompt, the output and the      *)
(* files of a run are left out.                                            *)
(***************************************************************************)
EXTENDS Naturals, Sequences, FiniteSets

CONSTANTS
    Calls,      \* calls of the adapters, numbered as they arrive
    NoCall,     \* the caller of a call from outside the mesh
    Claw,       \* adapters with a ClawcodeRunner
    Hands,      \* adapters with an OpenHandsRunner
    Slots,      \* slots of each runner's semaphore (2 and 1 in the code)
    Offers,     \* bound on what each call may be, for model checking
    MaxNested   \* max_nested_agent_calls (1 in the code)

Adapters == Claw \cup Hands
Kinds == {"run", "message"}
Ways == {"http", "mcp"}

ASSUME RunsAssumption ==
    /\ Calls \subseteq Nat /\ IsFiniteSet(Calls) /\ NoCall \notin Calls
    /\ Claw \cap Hands = {} /\ Adapters # {}
    /\ Slots \in [Adapters -> Nat \ {0}]
    /\ MaxNested \in Nat \ {0}
    /\ Offers \in [Calls -> SUBSET [agent : Adapters, kind : Kinds, via : Ways]]

VARIABLES
    call,       \* each call: its adapter and kind, its depth, where it is
    child,      \* the agent's process that works for each call
    box,        \* the sandbox container that process started
    mark,       \* sandboxes_before of each call, then its leftovers
    hist        \* the history of each session

runVars == <<call, child, box, mark, hist>>

Waits == {"checking", "locking", "queued", "listing", "running", "sweeping", "removing"}
Ends == {"done", "failed", "refused", "cancelled"}

(* line: the calls it stems from by HTTP alone (observed).                 *)
CallStates == [agent : Adapters, kind : Kinds, via : Ways,
               depth : Nat, line : SUBSET Calls, phase : {"idle"} \cup Waits \cup Ends]

InitRuns ==
    /\ call = [c \in Calls |-> [agent |-> CHOOSE a \in Adapters : TRUE, kind |-> "run",
                  via |-> "http", depth |-> 0, line |-> {}, phase |-> "idle"]]
    /\ child = [c \in Calls |-> "none"]
    /\ box = [c \in Calls |-> "none"]
    /\ mark = [c \in Calls |-> {}]
    /\ hist = [a \in Adapters |-> <<>>]

Agent(c) == call[c].agent
At(c) == call[c].phase
Move(c, phase) == call' = [call EXCEPT ![c].phase = phase]

-----------------------------------------------------------------------------
(* A request comes in.                                                     *)

(* Mutant of Refused: the limit is off by one.                             *)
RefusedLate(depth) == depth > MaxNested + 1

(* make_depth_dep, after it has counted this call.                         *)
Refused(depth) == depth > MaxNested

(* The depth a caller forwards is the one its process was started with;    *)
(* the MCP tool passes no header, whoever calls.  An HTTP call without the *)
(* header, or with one that _parse_depth reads as zero, has no caller.     *)
Depth(via, p) == IF via = "http" /\ p # NoCall THEN call[p].depth + 1 ELSE 1

(* What a handler awaits first.                                            *)
First(a, kind) == CASE a \in Claw -> "checking"
                    [] a \in Hands /\ kind = "message" -> "locking"
                    [] OTHER -> "queued"

(* The MCP tool only runs; messages are posted over HTTP.                  *)
Arrive(c, a, kind, via, p) ==
    LET d == Depth(via, p)
    IN /\ At(c) = "idle" /\ \A b \in Calls : b < c => At(b) # "idle"
       /\ p # NoCall => child[p] = "alive"
       /\ via = "mcp" => kind = "run"
       /\ call' = [call EXCEPT ![c] =
             [agent |-> a, kind |-> kind, via |-> via, depth |-> d,
              line |-> IF via = "http" /\ p # NoCall THEN call[p].line \cup {p} ELSE {},
              phase |-> IF Refused(d) THEN "refused" ELSE First(a, kind)]]
       /\ UNCHANGED <<child, box, mark, hist>>

(* _check_container, before the lock and before the semaphore.             *)
Check(c) ==
    /\ At(c) = "checking"
    /\ \/ Move(c, IF call[c].kind = "message" THEN "locking" ELSE "queued")
       \/ Move(c, "failed")
    /\ UNCHANGED <<child, box, mark, hist>>

-----------------------------------------------------------------------------
(* Locks, slots and processes.                                             *)

(* The calls inside `async with record.lock` and `async with self._sem`.   *)
HoldsLock(c) == call[c].kind = "message"
                /\ At(c) \in {"queued", "listing", "running", "sweeping", "removing"}

HoldsSlot(c) == At(c) \in {"listing", "running", "sweeping", "removing"}
                /\ ~(call[c].kind = "message" /\ Agent(c) \in Claw)

WithTurn(c, role) == [hist EXCEPT ![Agent(c)] = Append(@, [role |-> role, call |-> c])]

(* A process is started, or the attempt raises.                            *)
Spawn(c) ==
    \/ Move(c, "running") /\ child' = [child EXCEPT ![c] = "alive"]
    \/ Move(c, "failed") /\ UNCHANGED child

LockIsFree(c) == ~ \E d \in Calls : HoldsLock(d) /\ Agent(d) = Agent(c)

(* post_message: the user's turn is written, and the claw runner starts    *)
(* its process without a slot; run_one_shot may raise before it waits for  *)
(* one, which leaves the turn unanswered.                                  *)
LockUnlocked(c) ==
    /\ At(c) = "locking"
    /\ hist' = WithTurn(c, "user")
    /\ \/ Agent(c) \in Claw /\ Spawn(c)
       \/ Agent(c) \in Hands /\ Move(c, "queued") /\ UNCHANGED child
       \/ Agent(c) \in Hands /\ Move(c, "failed") /\ UNCHANGED child
    /\ UNCHANGED <<box, mark>>

Lock(c) ==
    /\ At(c) = "locking" /\ LockIsFree(c)
    /\ hist' = WithTurn(c, "user")
    /\ \/ Agent(c) \in Claw /\ Spawn(c)
       \/ Agent(c) \in Hands /\ Move(c, "queued") /\ UNCHANGED child
       \/ Agent(c) \in Hands /\ Move(c, "failed") /\ UNCHANGED child
    /\ UNCHANGED <<box, mark>>

(* Mutant of SlotIsFree: one slot too many.                                *)
SlotIsFreeLate(a) ==
    Cardinality({d \in Calls : HoldsSlot(d) /\ Agent(d) = a}) <= Slots[a]

SlotIsFree(a) ==
    Cardinality({d \in Calls : HoldsSlot(d) /\ Agent(d) = a}) < Slots[a]

Acquire(c) ==
    /\ At(c) = "queued" /\ SlotIsFree(Agent(c))
    /\ \/ Agent(c) \in Claw /\ Spawn(c)
       \/ Agent(c) \in Hands /\ Move(c, "listing") /\ UNCHANGED child
    /\ UNCHANGED <<box, mark, hist>>

Present == {c \in Calls : box[c] = "there"}

(* docker ps, or its failure, which reads as an empty list.                *)
Listing == {Present, {}}

ListBefore(c) ==
    /\ At(c) = "listing"
    /\ \E names \in Listing : mark' = [mark EXCEPT ![c] = names]
    /\ Spawn(c)
    /\ UNCHANGED <<box, hist>>

-----------------------------------------------------------------------------
(* The end of a run.                                                       *)

(* The handler returns; a message gets its answer, whatever it is.         *)
Done(c) ==
    /\ Move(c, "done")
    /\ hist' = IF call[c].kind = "message" THEN WithTurn(c, "assistant") ELSE hist

(* Mutant of Outlives: nothing bounds a subprocess.                        *)
NeverTimesOut(c) == {}

(* What is left of the process when run_subprocess kills it after its      *)
(* timeout: docker exec dies, the claw in the container may live on.       *)
Outlives(c) == IF Agent(c) \in Claw THEN {"dead", "alive"} ELSE {"dead"}

Collect(c) ==
    /\ At(c) = "running"
    /\ \/ child[c] = "dead" /\ UNCHANGED child
       \/ \E left \in Outlives(c) :
            child[c] = "alive" /\ child' = [child EXCEPT ![c] = left]
    /\ IF Agent(c) \in Claw THEN Done(c) ELSE Move(c, "sweeping") /\ UNCHANGED hist
    /\ UNCHANGED <<box, mark>>

(* _cleanup_sandboxes: what was not there before is removed, one by one.   *)
ListAfter(c) ==
    /\ At(c) = "sweeping"
    /\ \E names \in Listing :
         /\ mark' = [mark EXCEPT ![c] = names \ @]
         /\ IF names \subseteq mark[c] THEN Done(c) ELSE Move(c, "removing") /\ UNCHANGED hist
    /\ UNCHANGED <<child, box>>

(* docker rm -f, which may fail.                                           *)
Remove(c) ==
    /\ At(c) = "removing"
    /\ \E b \in mark[c] :
         /\ box' \in {box, [box EXCEPT ![b] = "removed"]}
         /\ mark' = [mark EXCEPT ![c] = @ \ {b}]
         /\ IF mark[c] = {b} THEN Done(c) ELSE UNCHANGED <<call, hist>>
    /\ UNCHANGED child

(* An MCP client gives up: the tool's coroutine is cancelled wherever it   *)
(* is, and leaves its process and its sandbox alone.                       *)
CancelCall(c) ==
    /\ call[c].via = "mcp" /\ At(c) \in Waits
    /\ Move(c, "cancelled")
    /\ UNCHANGED <<child, box, mark, hist>>

(* The agent: its process starts a sandbox, and ends by itself.            *)
StartBox(c) ==
    /\ child[c] = "alive" /\ Agent(c) \in Hands /\ box[c] = "none"
    /\ box' = [box EXCEPT ![c] = "there"]
    /\ UNCHANGED <<call, child, mark, hist>>

ChildExits(c) ==
    /\ child[c] = "alive"
    /\ child' = [child EXCEPT ![c] = "dead"]
    /\ UNCHANGED <<call, box, mark, hist>>

Handle(c) == Check(c) \/ Lock(c) \/ Acquire(c) \/ ListBefore(c) \/ Collect(c)
             \/ ListAfter(c) \/ Remove(c)

RunsStep ==
    \/ \E c \in Calls, p \in Calls \cup {NoCall} : \E o \in Offers[c] :
         Arrive(c, o.agent, o.kind, o.via, p)
    \/ \E c \in Calls : Handle(c) \/ CancelCall(c) \/ StartBox(c) \/ ChildExits(c)

RunsSpec == InitRuns /\ [][RunsStep]_runVars

(* asyncio's locks and semaphores are fair; every subprocess is awaited    *)
(* with a timeout.                                                         *)
RunsFairness == \A c \in Calls : SF_runVars(Handle(c))

-----------------------------------------------------------------------------
RunsOK ==
    /\ call \in [Calls -> CallStates]
    /\ child \in [Calls -> {"none", "alive", "dead"}]
    /\ box \in [Calls -> {"none", "there", "removed"}]
    /\ mark \in [Calls -> SUBSET Calls]
    /\ hist \in [Adapters -> Seq([role : {"user", "assistant"}, call : Calls])]

(* The cycle guard: a chain of agents that call each other with the depth  *)
(* header is never longer than the limit.  (Through the MCP tool it is:    *)
(* the tool counts anew.)                                                  *)
NestingIsBounded == \A c \in Calls :
    At(c) \notin {"idle", "refused"} => Cardinality(call[c].line) < MaxNested

(* Every call ends, though an agent may call the adapter whose slot or     *)
(* session its own caller holds: with finitely many calls, from some time  *)
(* on none of them waits.                                                  *)
EveryCallEnds == <>[](\A c \in Calls : At(c) \notin Waits)

(* A cleanup never takes the sandbox of a run that is still awaited: what  *)
(* it finds new is its own, or of a run nobody awaits any more.  With the  *)
(* one openhands adapter and its one slot; a second would break it.        *)
SandboxIsKept == \A c \in Calls :
    Hands = {Agent(c)} /\ Slots[Agent(c)] = 1 /\ At(c) = "running" => box[c] # "removed"

(* In the history a session replays to its agent, an answer stands right   *)
(* behind the message it answers.                                          *)
AnswerFollowsQuestion == \A a \in Adapters : \A i \in DOMAIN hist[a] :
    hist[a][i].role = "assistant" =>
        i > 1 /\ hist[a][i - 1] = [role |-> "user", call |-> hist[a][i].call]
=============================================================================
