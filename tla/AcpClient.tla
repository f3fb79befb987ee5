------------------------------ MODULE AcpClient ------------------------------
(***************************************************************************)
(* The opencode adapter's connection to opencode: AcpClient and its        *)
(* JSON-RPC peer (opencode-adapter/acp_client.py), driven by the one-shot  *)
(* runs of OpencodeRunner.run_one_shot (opencode-adapter/server.py).       *)
(*                                                                         *)
(* All runs share one client: one subprocess, one peer that reads its      *)
(* stdout, one asyncio lock around start and stop, which is not reentrant. *)
(* A run makes two calls, session/new and session/prompt, each behind      *)
(* ensure_initialized.  A failed session/new closes the connection and is  *)
(* tried once more; a prompt that times out is cancelled.                  *)
(*                                                                         *)
(* Three awaits have no time limit: a write into a full pipe, aclose()     *)
(* until the reader loop has ended, and the lock.  opencode need not read  *)
(* its stdin, need not exit when it ends, and may hang at any point.       *)
(***************************************************************************)
EXTENDS Naturals, FiniteSets

CONSTANTS
    Runs,           \* the calls of run_one_shot
    NoRun,          \* holds the lock when nobody does
    Concurrency,    \* slots of the runner's semaphore
    MaxDeaths,      \* bound on the deaths of the subprocess
    HalfDead,       \* may the reader end before returncode is set?
    InitMayFail     \* may the initialize handshake fail or time out?
                    \* (both TRUE but where a counterexample is narrowed down)

ASSUME AcpAssumption ==
    /\ IsFiniteSet(Runs)
    /\ NoRun \notin Runs
    /\ Concurrency \in Nat \ {0}
    /\ MaxDeaths \in Nat
    /\ {HalfDead, InitMayFail} \subseteq BOOLEAN

VARIABLES
    proc,           \* _proc: none, live, dying (dead, but its returncode is
                    \* not known yet) or exited (returncode is set)
    peer,           \* _peer: absent, reading, or past the end of its loop
    stdin,          \* is the subprocess's stdin open?
    initialized,    \* _initialized
    greeted,        \* observed: has a handshake succeeded on this peer?
    lock,           \* _lock: the run that holds it, or NoRun
    at,             \* where each run stands
    call,           \* the call a run is after: session/new or session/prompt
    answer,         \* what the future of a run's pending call holds
    writing,        \* the runs inside _send_obj: waiting for _write_lock or
                    \* for room in the pipe
    late,           \* the runs whose call was registered with a peer whose
                    \* reader loop had already ended
    retried,        \* the runs that spent their retry
    result,         \* what each run returned
    deaths          \* deaths so far

conn == <<proc, peer, stdin, initialized, greeted>>
calls == <<answer, writing, late>>
vars == <<conn, lock, at, call, calls, retried, result, deaths>>

Places == {"idle", "entering", "spawning", "initializing", "selfwait",
           "calling", "cancelling", "closing", "draining", "reaping", "done"}

(* The places where a run awaits a JSON-RPC reply.                         *)
InFlight(c) == at[c] \in {"initializing", "calling"}

Init ==
    /\ proc = "none" /\ peer = "none" /\ stdin = FALSE
    /\ initialized = FALSE /\ greeted = FALSE
    /\ lock = NoRun
    /\ at = [c \in Runs |-> "idle"]
    /\ call = [c \in Runs |-> "new"]
    /\ answer = [c \in Runs |-> "none"]
    /\ writing = {} /\ late = {}
    /\ retried = {}
    /\ result = [c \in Runs |-> "none"]
    /\ deaths = 0

Go(c, place) == at' = [at EXCEPT ![c] = place]

(* A call is sent over a peer: its future is pending, and the write is     *)
(* done at once or waits.  Nobody will fail the future if the reader loop  *)
(* has ended before.                                                       *)
Send(c, place, over) ==
    /\ Go(c, place)
    /\ answer' = [answer EXCEPT ![c] = "none"]
    /\ writing' \in {writing, writing \cup {c}}
    /\ late' = IF over = "open" THEN late \ {c} ELSE late \cup {c}

(* The call of a run is over: written, and its future done.                *)
Answered(c, answers) == c \notin writing /\ answer[c] \in answers

Failures == {"error", "timeout", "closed"}

Finish(c, outcome) ==
    /\ Go(c, "done")
    /\ result' = [result EXCEPT ![c] = outcome]

-----------------------------------------------------------------------------
(* ensure_initialized                                                      *)

Busy == {c \in Runs : at[c] \notin {"idle", "done"}}

Start(c) ==
    /\ at[c] = "idle"
    /\ Cardinality(Busy) < Concurrency
    /\ Go(c, "entering")
    /\ UNCHANGED <<conn, lock, call, calls, retried, result, deaths>>

Ready == initialized /\ peer = "open"

(* The lock is taken and released without suspending.                      *)
EnterReady(c) ==
    /\ at[c] = "entering" /\ lock = NoRun
    /\ Ready
    /\ Send(c, "calling", peer)
    /\ UNCHANGED <<conn, lock, call, retried, result, deaths>>

(* returncode is None.                                                     *)
Unreaped == proc \in {"live", "dying"}

(* _spawn finds no subprocess, or one whose returncode is set.             *)
EnterSpawning(c) ==
    /\ at[c] = "entering" /\ lock = NoRun
    /\ ~Ready
    /\ ~Unreaped
    /\ lock' = c
    /\ Go(c, "spawning")
    /\ UNCHANGED <<conn, call, calls, retried, result, deaths>>

(* _spawn finds returncode None and keeps the subprocess, and the peer     *)
(* even if that peer has stopped reading.                                  *)
EnterReusing(c) ==
    /\ at[c] = "entering" /\ lock = NoRun
    /\ ~Ready
    /\ Unreaped
    /\ lock' = c
    /\ Send(c, "initializing", peer)
    /\ UNCHANGED <<conn, call, retried, result, deaths>>

(* create_subprocess_exec raises: the lock is released, and OSError is not *)
(* among the errors a run recovers from.                                   *)
SpawnFails(c) ==
    /\ at[c] = "spawning"
    /\ InitMayFail
    /\ lock' = NoRun
    /\ Finish(c, "failed")
    /\ UNCHANGED <<conn, call, calls, retried, deaths>>

(* Mutant of Spawned: the handshake is made outside of the lock.           *)
SpawnedReleasesLock(c) ==
    /\ at[c] = "spawning" /\ writing = {}
    /\ proc' = "live" /\ peer' = "open" /\ stdin' = TRUE
    /\ greeted' = FALSE
    /\ lock' = NoRun
    /\ Send(c, "initializing", "open")
    /\ UNCHANGED <<initialized, call, retried, result, deaths>>

(* The new subprocess has its pipes; asyncio has heard before that those   *)
(* of the one it replaces are broken.  _initialized stays as it is.        *)
Spawned(c) ==
    /\ at[c] = "spawning" /\ writing = {}
    /\ proc' = "live" /\ peer' = "open" /\ stdin' = TRUE
    /\ greeted' = FALSE
    /\ Send(c, "initializing", "open")
    /\ UNCHANGED <<initialized, lock, call, retried, result, deaths>>

(* Mutant of Initialized: the lock outlives the handshake.                 *)
InitializedKeepsLock(c) ==
    /\ at[c] = "initializing" /\ Answered(c, {"ok"})
    /\ initialized' = TRUE /\ greeted' = TRUE
    /\ Send(c, "calling", peer)
    /\ UNCHANGED <<proc, peer, stdin, lock, call, retried, result, deaths>>

(* The reader loop may have ended since the reply came: _initialized is    *)
(* then set on a peer that is closed.                                      *)
Initialized(c) ==
    /\ at[c] = "initializing" /\ Answered(c, {"ok"})
    /\ initialized' = TRUE /\ greeted' = TRUE
    /\ lock' = NoRun
    /\ Send(c, "calling", peer)
    /\ UNCHANGED <<proc, peer, stdin, call, retried, result, deaths>>

(* The failure handler calls aclose(), which waits for the lock that this  *)
(* run holds: there is no step out of "selfwait".                          *)
InitializeFailed(c) ==
    /\ at[c] = "initializing" /\ Answered(c, Failures)
    /\ Go(c, "selfwait")
    /\ UNCHANGED <<conn, lock, call, calls, retried, result, deaths>>

-----------------------------------------------------------------------------
(* The two calls of a run.                                                 *)

SessionCreated(c) ==
    /\ at[c] = "calling" /\ call[c] = "new" /\ Answered(c, {"ok"})
    /\ call' = [call EXCEPT ![c] = "prompt"]
    /\ Go(c, "entering")
    /\ UNCHANGED <<conn, lock, calls, retried, result, deaths>>

SessionFailed(c) ==
    /\ at[c] = "calling" /\ call[c] = "new" /\ Answered(c, Failures)
    /\ IF c \in retried
       THEN Finish(c, "failed") /\ UNCHANGED retried
       ELSE /\ Go(c, "closing")
            /\ retried' = retried \cup {c}
            /\ UNCHANGED result
    /\ UNCHANGED <<conn, lock, call, calls, deaths>>

(* AcpError and ConnectionError end the run.                               *)
PromptAnswered(c) ==
    /\ at[c] = "calling" /\ call[c] = "prompt"
    /\ Answered(c, {"ok", "error", "closed"})
    /\ Finish(c, IF answer[c] = "ok" THEN "ok" ELSE "failed")
    /\ UNCHANGED <<conn, lock, call, calls, retried, deaths>>

(* session_cancel: a notification to whatever peer there is now, unless    *)
(* its stdin is closed.                                                    *)
PromptTimedOut(c) ==
    /\ at[c] = "calling" /\ call[c] = "prompt" /\ Answered(c, {"timeout"})
    /\ Go(c, "cancelling")
    /\ \/ UNCHANGED writing
       \/ /\ peer # "none" /\ stdin
          /\ writing' = writing \cup {c}
    /\ UNCHANGED <<conn, lock, call, answer, late, retried, result, deaths>>

(* Its errors are only logged.                                             *)
CancelSent(c) ==
    /\ at[c] = "cancelling" /\ c \notin writing
    /\ Finish(c, "failed")
    /\ UNCHANGED <<conn, lock, call, calls, retried, deaths>>

-----------------------------------------------------------------------------
(* aclose, from the retry of session/new.                                  *)

(* Mutant of Closing: aclose does without the lock.                        *)
ClosingUnlocked(c) ==
    /\ at[c] = "closing"
    /\ Go(c, IF peer = "none" THEN "reaping" ELSE "draining")
    /\ stdin' = FALSE
    /\ UNCHANGED <<proc, peer, initialized, greeted, lock, call, calls, retried, result, deaths>>

Closing(c) ==
    /\ at[c] = "closing" /\ lock = NoRun
    /\ lock' = c
    /\ Go(c, IF peer = "none" THEN "reaping" ELSE "draining")
    /\ stdin' = FALSE
    /\ UNCHANGED <<proc, peer, initialized, greeted, call, calls, retried, result, deaths>>

(* The peer's aclose waits until the reader loop has ended, without limit. *)
Drained(c) ==
    /\ at[c] = "draining"
    /\ peer = "closed"
    /\ peer' = "none"
    /\ Go(c, "reaping")
    /\ UNCHANGED <<proc, stdin, initialized, greeted, lock, call, calls, retried, result, deaths>>

(* Mutant of Reaped: the lock outlives aclose.                             *)
ReapedKeepsLock(c) ==
    /\ at[c] = "reaping"
    /\ proc' = "none"
    /\ initialized' = FALSE
    /\ Go(c, "entering")
    /\ UNCHANGED <<peer, stdin, greeted, lock, call, calls, retried, result, deaths>>

(* terminate, and kill after five seconds.                                 *)
Reaped(c) ==
    /\ at[c] = "reaping"
    /\ proc' = "none"
    /\ initialized' = FALSE
    /\ lock' = NoRun
    /\ Go(c, "entering")
    /\ UNCHANGED <<peer, stdin, greeted, call, calls, retried, result, deaths>>

RunStep(c) ==
    \/ Start(c)
    \/ EnterReady(c) \/ EnterSpawning(c) \/ EnterReusing(c)
    \/ SpawnFails(c) \/ Spawned(c) \/ Initialized(c) \/ InitializeFailed(c)
    \/ SessionCreated(c) \/ SessionFailed(c)
    \/ PromptAnswered(c) \/ PromptTimedOut(c) \/ CancelSent(c)
    \/ Closing(c) \/ Drained(c) \/ Reaped(c)

-----------------------------------------------------------------------------
(* The other side: opencode, and the pipe to it.                           *)

Initializing == \E c \in Runs : at[c] \in {"spawning", "initializing"}

(* opencode reads: a write finds room in the pipe.                         *)
Written(c) ==
    /\ c \in writing /\ proc = "live"
    /\ writing' = writing \ {c}
    /\ UNCHANGED <<conn, lock, at, call, answer, late, retried, result, deaths>>

(* A write to the stdin of a subprocess that is gone raises, at once or    *)
(* while it waits for room.                                                *)
PipeBreaks(c) ==
    /\ proc # "live"
    /\ c \in writing \/ (InFlight(c) /\ answer[c] = "none")
    /\ writing' = writing \ {c}
    /\ answer' = IF InFlight(c) THEN [answer EXCEPT ![c] = "closed"] ELSE answer
    /\ UNCHANGED <<conn, lock, at, call, late, retried, result, deaths>>

(* The run waits for its reply.                                            *)
Awaits(c) == InFlight(c) /\ answer[c] = "none" /\ c \notin writing

(* A reply that the reader hands to the pending future; opencode may still *)
(* answer what it has read when its stdin is closed.                       *)
Reply(c) == \E a \in {"ok", "error"} :
    /\ Awaits(c) /\ c \notin late
    /\ proc = "live" /\ peer = "open"
    /\ a = "ok" \/ at[c] = "calling" \/ InitMayFail
    /\ answer' = [answer EXCEPT ![c] = a]
    /\ UNCHANGED <<conn, lock, at, call, writing, late, retried, result, deaths>>

(* wait_for begins when the call is written.                               *)
Timeout(c) ==
    /\ Awaits(c)
    /\ at[c] = "calling" \/ InitMayFail \/ c \in late
    /\ answer' = [answer EXCEPT ![c] = "timeout"]
    /\ UNCHANGED <<conn, lock, at, call, writing, late, retried, result, deaths>>

(* opencode exits: by itself, or because its stdin was closed.             *)
ProcessDies ==
    /\ proc = "live"
    /\ \/ ~stdin /\ UNCHANGED deaths
       \/ stdin /\ deaths < MaxDeaths /\ deaths' = deaths + 1
    /\ Initializing => InitMayFail
    /\ proc' = "dying"
    /\ UNCHANGED <<peer, stdin, initialized, greeted, lock, at, call, calls, retried, result>>

(* The child watcher of the event loop sets returncode.                    *)
StatusKnown ==
    /\ proc = "dying"
    /\ proc' = "exited"
    /\ UNCHANGED <<peer, stdin, initialized, greeted, lock, at, call, calls, retried, result, deaths>>

(* The reader loop ends with stdout, which the event loop may notice       *)
(* before or after the exit status; or, opencode living on, at a line over *)
(* the StreamReader's own limit of 64 KiB.                                 *)
ReaderMayEnd ==
    /\ peer = "open"
    /\ \/ proc = "exited" /\ UNCHANGED deaths
       \/ HalfDead /\ proc = "dying" /\ UNCHANGED deaths
       \/ /\ HalfDead /\ proc = "live"
          /\ Initializing => InitMayFail
          /\ deaths < MaxDeaths /\ deaths' = deaths + 1

(* Mutant of ReaderEnds: pending futures are forgotten.                    *)
ReaderEndsSilently ==
    /\ ReaderMayEnd
    /\ peer' = "closed"
    /\ initialized' = FALSE
    /\ UNCHANGED <<proc, stdin, greeted, lock, at, call, calls, retried, result>>

(* Its finally clause fails every pending future and calls                 *)
(* _on_peer_closed.                                                        *)
ReaderEnds ==
    /\ ReaderMayEnd
    /\ peer' = "closed"
    /\ initialized' = FALSE
    /\ answer' = [c \in Runs |->
                    IF InFlight(c) /\ answer[c] = "none" /\ c \notin late
                    THEN "closed" ELSE answer[c]]
    /\ UNCHANGED <<proc, stdin, greeted, lock, at, call, writing, late, retried, result>>

Next ==
    \/ \E c \in Runs :
          RunStep(c) \/ Written(c) \/ PipeBreaks(c) \/ Reply(c) \/ Timeout(c)
    \/ ProcessDies \/ StatusKnown \/ ReaderEnds

Spec == Init /\ [][Next]_vars

(* Runs advance when they can; a caller that finds the lock taken is next  *)
(* in a FIFO queue; wait_for ends every call that was written; the event   *)
(* loop learns of a broken pipe and of an exit.  opencode owes nothing: it *)
(* need not read, answer or exit, nor need the reader loop ever end.       *)
Fairness ==
    /\ \A c \in Runs : /\ SF_vars(RunStep(c))
                       /\ WF_vars(Reply(c) \/ Timeout(c))
                       /\ WF_vars(PipeBreaks(c))
    /\ WF_vars(StatusKnown)

FairSpec == Spec /\ Fairness

(* An opencode that reads its stdin as long as it lives.                   *)
ReadingSpec == FairSpec /\ \A c \in Runs : WF_vars(Written(c))

-----------------------------------------------------------------------------
(* The types, and the bound the runner's semaphore sets.                   *)
TypeOK ==
    /\ proc \in {"none", "live", "dying", "exited"}
    /\ peer \in {"none", "open", "closed"}
    /\ {stdin, initialized, greeted} \subseteq BOOLEAN
    /\ lock \in Runs \cup {NoRun}
    /\ at \in [Runs -> Places]
    /\ call \in [Runs -> {"new", "prompt"}]
    /\ answer \in [Runs -> {"none", "ok", "error", "timeout", "closed"}]
    /\ {writing, late, retried} \subseteq SUBSET Runs
    /\ result \in [Runs -> {"none", "ok", "failed"}]
    /\ deaths \in Nat
    /\ Cardinality(Busy) <= Concurrency

(* No call is forgotten by a reader loop that ends: a pending future       *)
(* belongs to a peer that is still reading, or has been failed             *)
(* (_reader_loop's finally clause), or was registered with that peer only  *)
(* after the clause had run, and then its time limit ends it.              *)
CallsHaveReader == \A c \in Runs :
    InFlight(c) /\ answer[c] = "none" => peer = "open" \/ c \in late

(* A run that finds the connection ready finds a peer on which a handshake *)
(* has succeeded.  _initialized alone does not say so: it may be set just  *)
(* after the reader loop has ended, and nothing resets it before the next  *)
(* peer is there; the lock is what hides it until that peer is greeted.    *)
ReadyIsGreeted == lock = NoRun /\ Ready => greeted

(* Starting and stopping the subprocess exclude each other: the run inside *)
(* _spawn, the handshake or aclose is the one that holds _lock, and _lock  *)
(* is held by a run that is there.  This survives every failure.           *)
Inside == {"spawning", "initializing", "selfwait", "draining", "reaping"}

OneAtATime == \A c \in Runs : at[c] \in Inside <=> lock = c

(* Whatever happens to opencode or to its pipe, aclose never takes the     *)
(* subprocess from a connection that counts as ready (one on which         *)
(* ensure_initialized returns at once).                                    *)
ReadyHasProcess == Ready => proc # "none"

(* Where a run can stand for ever: ensure_initialized's failure handler,   *)
(* which waits for its own lock; aclose, while the reader loop goes on;    *)
(* and a write that an opencode that lives on does not read.               *)
Stuck(d) ==
    \/ at[d] = "selfwait"
    \/ at[d] = "draining" /\ peer = "open"
    \/ d \in writing /\ proc = "live"

(* Every run comes to a result, whatever opencode does or fails to do, but *)
(* for one that stands for ever at one of these three awaits without a     *)
(* time limit, or waits for the lock behind one that does.  Nothing else   *)
(* keeps a run: not a lost reply, a reader that ended too early, a call    *)
(* registered too late, a write into a broken pipe, or a lock not given    *)
(* back.                                                                   *)
RunsFinishOrHang == \A c \in Runs :
    at[c] = "entering"
        ~> (at[c] = "done" \/ \E d \in Runs : [](d \in {c, lock} /\ Stuck(d)))

(* acp_client.py:398 "If the underlying process dies (container restart,   *)
(* OOM, ...) the next call transparently respawns".                        *)
RespawnsTransparently == \A c \in Runs :
    (at[c] = "entering" /\ peer = "closed" /\ proc \in {"dying", "exited"})
        ~> at[c] \in {"calling", "done"}

(* server.py:264 "One transparent retry: process might have died between   *)
(* the last successful call and now": the retry replaces a connection that *)
(* is gone, not one that others are using.                                 *)
RetryReplacesDeadConnection ==
    [][\A c \in Runs : Closing(c) =>
          ~ \E d \in Runs \ {c} : at[d] = "calling" /\ answer[d] = "none" /\ peer = "open"]_vars
=============================================================================
