--------------------------- MODULE MCTaskServices ---------------------------
(* Small instances of TaskServices for TLC.                                 *)
EXTENDS TaskServices

CONSTANTS c1, c2

MCParts == {{"auth"}, {"push"}, {"list"}, {"rpc"}}

MCFilters == {[states |-> AnyState, after |-> 0, size |-> 1],
              [states |-> {"SUBMITTED", "WORKING"}, after |-> 0, size |-> 2],
              [states |-> AnyState, after |-> 1, size |-> 1]}

Asks(method, task) == [method |-> method, task |-> task, id |-> TRUE]
Tells(method, task) == [method |-> method, task |-> task, id |-> FALSE]

MCBodies ==
    {[list |-> FALSE, reqs |-> <<r>>] :
        r \in {Asks(m, NoTask) : m \in {"send", "stream"}}
              \cup {Asks(m, 1) : m \in {"cancel", "resubscribe"}}}
    \cup {[list |-> TRUE, reqs |-> s] : s \in
            {<<Asks("send", NoTask), Tells("cancel", 1), Asks("send", NoTask)>>,
             <<Tells("sendnow", NoTask), Asks("cancel", 1), Asks("get", 1)>>,
             <<Asks("get", 1), Asks("stream", NoTask)>>}}
=============================================================================
