---------------------------- MODULE TaskServices ----------------------------
(***************************************************************************)
(* What surrounds the tasks of one agent: runners that stop for in-task    *)
(* authorization, the push dispatcher that reports it all to webhooks, a   *)
(* client that pages through the list, and the bindings that answer        *)
(* JSON-RPC batches and gRPC calls, over one task store.                   *)
(***************************************************************************)
EXTENDS InTaskAuth, PushDispatcher, TaskListing, TaskRpc

CONSTANTS
    Parts,      \* the services in use: {"auth", "push"}, {"list"}, ...
    Busy        \* the tasks the services deal with; the others fill the table

ASSUME ServicesAssumption == Busy \subseteq Tasks

VARIABLE use    \* the services this behaviour exercises

servicesVars == <<store, now, work, authVars, pushVars, walk, rpc, use>>

InitServices ==
    /\ Init /\ InitAuth /\ InitPush /\ InitWalk /\ InitRpc
    /\ use \in Parts

-----------------------------------------------------------------------------
(* The bindings and the runners, as the services see them.                 *)

(* A report of a runner that is not waiting for credentials.  On a task    *)
(* that only fills the table it matters to the list alone.                 *)
Report(t, state) ==
    /\ t \in Live(store)
    /\ t \in Busy \/ "list" \in use
    /\ store.task[t].rev < IF t \in Busy THEN MaxRev ELSE 1
    /\ \A a \in Askers : Waiting(a) => call[a].task # t
    /\ store' = RecordStatus(store, t, state)
    /\ UNCHANGED <<now, work>>

Tasking ==
    /\ "rpc" \notin use
    /\ \/ "list" \in use /\ TimePasses
       \/ \E t \in Tasks : \/ SubmitMessage(t)
                           \/ t \in Busy /\ Cancel(t)
                           \/ \E state \in {"WORKING", "COMPLETED"} : Report(t, state)
    /\ UNCHANGED <<authVars, pushVars, walk, rpc>>

NextServices ==
    /\ UNCHANGED use
    /\ \/ Tasking
       \/ /\ "auth" \in use /\ \E t \in Busy : AuthStep(t)
          /\ UNCHANGED <<pushVars, walk, rpc, work>>
       \/ /\ "push" \in use /\ \E t \in Busy : DispatcherStep(t)
          /\ UNCHANGED <<authVars, walk, rpc, work>>
       \/ /\ "list" \in use /\ (TurnPage \/ \E f \in Filters : BeginWalk(f))
          /\ UNCHANGED <<authVars, pushVars, rpc, work>>
       \/ /\ "rpc" \in use /\ RpcStep
          /\ UNCHANGED <<authVars, pushVars, walk>>

ServicesSpec == InitServices /\ [][NextServices]_servicesVars /\ PushFairness
=============================================================================
