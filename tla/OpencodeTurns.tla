---------------------------- MODULE OpencodeTurns ----------------------------
(***************************************************************************)
(* What happens on a ready connection to opencode: session/prompt and the  *)
(* updates of its turn (opencode-adapter/acp_client.py), the turns of      *)
(* run_one_shot and post_message (server.py), and the terminals opencode   *)
(* asks for (terminals.py).  AcpClient models the connection itself.       *)
(*                                                                         *)
(* opencode's messages come through one pipe, in order, and one reader     *)
(* handles each to its end before it takes the next.  What an update or a  *)
(* terminal's output says is left out.                                     *)
(***************************************************************************)
EXTENDS Naturals, Sequences

CONSTANTS
    Turns,      \* the calls of session_prompt, numbered as they begin
    Shared,     \* the ACP session of a chat; a run has a session of its own
    NoTurn,
    MaxUpdates, \* bound on the updates of a turn, for model checking
    MaxPipe,    \* bound on what is unread in the pipe, for model checking
    Shells      \* the turns that use a terminal

ASSUME TurnsAssumption ==
    /\ Turns \subseteq Nat /\ {Shared, NoTurn} \cap Turns = {}
    /\ {MaxUpdates, MaxPipe} \subseteq Nat /\ Shells \subseteq Turns

VARIABLES
    turn,       \* each turn: its kind, where it is, the updates it collected
    stream,     \* _update_streams: whose queue an ACP session has
    pipe,       \* what opencode has written and the reader not read
    agent,      \* opencode's side of each turn
    term,       \* the terminal of each turn
    reader      \* the terminal request the reader is held up by

turnVars == <<turn, stream, pipe, agent, term, reader>>

Idling == [how |-> "free", turn |-> NoTurn]
NoTerminal == [proc |-> "none", exited |-> FALSE, watched |-> FALSE, listed |-> FALSE]

InitTurns ==
    /\ turn = [t \in Turns |-> [kind |-> "run", phase |-> "idle",
                                got |-> [u \in Turns |-> 0]]]
    /\ stream = [s \in Turns \cup {Shared} |-> NoTurn]
    /\ pipe = <<>>
    /\ agent = [t \in Turns |-> [phase |-> "none", sent |-> 0, asked |-> {}]]
    /\ term = [t \in Turns |-> NoTerminal]
    /\ reader = Idling

Session(t) == IF turn[t].kind = "run" THEN t ELSE Shared

-----------------------------------------------------------------------------
(* The turns.                                                              *)

(* The queue is registered before the prompt is written.  A message holds  *)
(* the lock of its session's record.                                       *)
Begin(t, kind) ==
    /\ turn[t].phase = "idle" /\ \A u \in Turns : u < t => turn[u].phase # "idle"
    /\ kind = "message" => \A u \in Turns :
           turn[u].kind = "message" => turn[u].phase \notin {"sent", "answered"}
    /\ turn' = [turn EXCEPT ![t].kind = kind, ![t].phase = "sent"]
    /\ stream' = [stream EXCEPT ![IF kind = "run" THEN t ELSE Shared] = t]
    /\ agent' = [agent EXCEPT ![t].phase = "working"]
    /\ UNCHANGED <<pipe, term, reader>>

(* session_prompt's finally clauses.                                       *)
Close(t, phase) ==
    /\ turn' = [turn EXCEPT ![t].phase = phase]
    /\ stream' = [stream EXCEPT ![Session(t)] = NoTurn]

EndTurn(t) ==
    /\ turn[t].phase = "answered"
    /\ Close(t, "done")
    /\ UNCHANGED <<pipe, agent, term, reader>>

(* Only run_one_shot tells opencode to cancel.                             *)
TimeOut(t) ==
    /\ turn[t].phase = "sent"
    /\ Close(t, "timeout")
    /\ agent' = IF turn[t].kind = "run" /\ agent[t].phase = "working"
                THEN [agent EXCEPT ![t].phase = "cancelling"] ELSE agent
    /\ UNCHANGED <<pipe, term, reader>>

-----------------------------------------------------------------------------
(* opencode.                                                               *)

WritePipe(what, t) ==
    Len(pipe) < MaxPipe /\ pipe' = Append(pipe, [what |-> what, turn |-> t])

SendUpdate(t) ==
    /\ agent[t].phase \in {"working", "cancelling"} /\ agent[t].sent < MaxUpdates
    /\ WritePipe("update", t)
    /\ agent' = [agent EXCEPT ![t].sent = @ + 1]
    /\ UNCHANGED <<turn, stream, term, reader>>

(* A request about a terminal it knows of.                                 *)
AskTerminal(t, what) ==
    /\ t \in Shells /\ agent[t].phase = "working" /\ what \notin agent[t].asked
    /\ what # "create" => term[t] # NoTerminal
    /\ WritePipe(what, t)
    /\ agent' = [agent EXCEPT ![t].asked = @ \cup {what}]
    /\ UNCHANGED <<turn, stream, term, reader>>

SendReply(t) ==
    /\ agent[t].phase \in {"working", "cancelling"}
    /\ WritePipe("reply", t)
    /\ agent' = [agent EXCEPT ![t].phase = "replied"]
    /\ UNCHANGED <<turn, stream, term, reader>>

(* A command ends, and the terminal's _wait task hears of it.              *)
CommandEnds(t) ==
    /\ term[t].proc = "running"
    /\ term' = [term EXCEPT ![t].proc = "dead"]
    /\ UNCHANGED <<turn, stream, pipe, agent, reader>>

ExitSeen(t) ==
    /\ term[t].proc = "dead" /\ term[t].watched
    /\ term' = [term EXCEPT ![t].exited = TRUE, ![t].watched = FALSE]
    /\ UNCHANGED <<turn, stream, pipe, agent, reader>>

-----------------------------------------------------------------------------
(* The reader: _dispatch of the message at the head of the pipe.           *)

(* Mutant of StreamOf: an update goes to the turn that began last.         *)
StreamOfLatest(t) ==
    LET open == {u \in Turns : stream[Session(u)] = u}
    IN IF open = {} THEN NoTurn ELSE CHOOSE u \in open : \A v \in open : v <= u

StreamOf(t) == stream[Session(t)]

(* session/update: queued for the turn that is under way in its session.   *)
OnUpdate(t) ==
    /\ turn' = IF StreamOf(t) = NoTurn THEN turn
               ELSE [turn EXCEPT ![StreamOf(t)].got[t] = @ + 1]
    /\ UNCHANGED <<stream, term, reader>>

(* The reply of a turn that was given up finds no future.                  *)
OnReply(t) ==
    /\ turn' = IF turn[t].phase = "sent" THEN [turn EXCEPT ![t].phase = "answered"] ELSE turn
    /\ UNCHANGED <<stream, term, reader>>

OnCreate(t) ==
    /\ term' \in {term, [term EXCEPT ![t] = [proc |-> "running", exited |-> FALSE,
                                             watched |-> TRUE, listed |-> TRUE]]}
    /\ UNCHANGED <<turn, stream, reader>>

(* wait_for_exit holds the reader up until the command has ended.          *)
OnWait(t) ==
    /\ reader' = IF term[t].listed /\ ~term[t].exited
                 THEN [how |-> "wait", turn |-> t] ELSE Idling
    /\ UNCHANGED <<turn, stream, term>>

(* kill holds it up for five seconds at most.                              *)
OnKill(t) ==
    /\ IF term[t].listed /\ ~term[t].exited
       THEN /\ term' = [term EXCEPT ![t].proc = "dead"]
            /\ reader' = [how |-> "kill", turn |-> t]
       ELSE UNCHANGED <<term, reader>>
    /\ UNCHANGED <<turn, stream>>

(* release kills the command and cancels the task that waits for it.       *)
OnRelease(t) ==
    /\ term' = IF term[t].listed
               THEN [term EXCEPT ![t] = [@ EXCEPT !.proc = "dead", !.watched = FALSE,
                                                  !.listed = FALSE]]
               ELSE term
    /\ UNCHANGED <<turn, stream, reader>>

(* Mutant of ReaderFree: requests are handled in tasks of their own.       *)
ReaderNeverBusy == reader.how \in {"free", "wait", "kill"}

ReaderFree == reader.how = "free"

ReadNext ==
    /\ ReaderFree /\ pipe # <<>>
    /\ pipe' = Tail(pipe)
    /\ LET what == Head(pipe).what
           t == Head(pipe).turn
       IN \/ what = "update" /\ OnUpdate(t)
          \/ what = "reply" /\ OnReply(t)
          \/ what = "create" /\ OnCreate(t)
          \/ what = "wait" /\ OnWait(t)
          \/ what = "kill" /\ OnKill(t)
          \/ what = "release" /\ OnRelease(t)
    /\ UNCHANGED agent

(* The request that held the reader up is answered.                        *)
Resume ==
    /\ reader.how # "free"
    /\ reader.how = "wait" => term[reader.turn].exited
    /\ reader' = Idling
    /\ UNCHANGED <<turn, stream, pipe, agent, term>>

TurnsStep ==
    \/ \E t \in Turns :
         \/ \E kind \in {"run", "message"} : Begin(t, kind)
         \/ EndTurn(t) \/ TimeOut(t)
         \/ SendUpdate(t) \/ SendReply(t)
         \/ \E what \in {"create", "wait", "kill", "release"} : AskTerminal(t, what)
         \/ CommandEnds(t) \/ ExitSeen(t)
    \/ ReadNext \/ Resume

TurnsSpec == InitTurns /\ [][TurnsStep]_turnVars

-----------------------------------------------------------------------------
(* A turn that is answered has every update opencode sent for it before    *)
(* the answer.  It has no other turn's updates, but for those of an        *)
(* earlier message of the chat that was given up and never cancelled.      *)
TurnCollectsItsUpdates == \A t \in Turns : turn[t].phase \in {"answered", "done"} =>
    /\ turn[t].got[t] = agent[t].sent
    /\ \A u \in Turns \ {t} : turn[t].got[u] > 0 =>
         /\ u < t /\ turn[u].phase = "timeout"
         /\ turn[u].kind = "message" /\ turn[t].kind = "message"

(* A wait_for_exit under way is over when its command is: nobody releases  *)
(* the terminal and cancels its _wait task meanwhile.                      *)
PendingWaitEnds ==
    reader.how = "wait" => term[reader.turn].watched \/ term[reader.turn].exited
=============================================================================
