-------------------------- MODULE AcpClient_proofs --------------------------
(***************************************************************************)
(* Proofs about the connection to opencode (AcpClient), for any number of  *)
(* runs, any concurrency and any number of deaths, whatever opencode does. *)
(***************************************************************************)
EXTENDS AcpClient, FiniteSetTheorems, TLAPS

-----------------------------------------------------------------------------
(* The types, without the bound of the semaphore.                          *)
Types ==
    /\ proc \in {"none", "live", "dying", "exited"}
    /\ peer \in {"none", "open", "closed"}
    /\ stdin \in BOOLEAN
    /\ initialized \in BOOLEAN
    /\ greeted \in BOOLEAN
    /\ lock \in Runs \cup {NoRun}
    /\ at \in [Runs -> Places]
    /\ call \in [Runs -> {"new", "prompt"}]
    /\ answer \in [Runs -> {"none", "ok", "error", "timeout", "closed"}]
    /\ writing \in SUBSET Runs
    /\ late \in SUBSET Runs
    /\ retried \in SUBSET Runs
    /\ result \in [Runs -> {"none", "ok", "failed"}]
    /\ deaths \in Nat

(* A run that starts is the only one to become busy, and only while the    *)
(* semaphore has a slot.                                                   *)
LEMMA BusyGrowsByOne ==
    ASSUME Types, Next
    PROVE  \/ Busy' \subseteq Busy
           \/ /\ Cardinality(Busy) < Concurrency
              /\ \E c \in Runs : Busy' \subseteq Busy \cup {c}
  <1> USE DEF Types, Busy, Places
  <1>1. CASE \E c \in Runs : Start(c)
    BY <1>1 DEF Start, Go
  <1>2. ASSUME NEW c \in Runs, RunStep(c), ~Start(c)
        PROVE  Busy' \subseteq Busy
    BY <1>2 DEF RunStep, EnterReady, EnterSpawning, EnterReusing, SpawnFails, Spawned,
        Initialized, InitializeFailed, SessionCreated, SessionFailed, PromptAnswered,
        PromptTimedOut, CancelSent, Closing, Drained, Reaped, Go, Send, Finish
  <1>3. CASE \E c \in Runs : Written(c) \/ PipeBreaks(c) \/ Reply(c) \/ Timeout(c)
    BY <1>3 DEF Written, PipeBreaks, Reply, Timeout
  <1>4. CASE ProcessDies \/ StatusKnown \/ ReaderEnds
    BY <1>4 DEF ProcessDies, StatusKnown, ReaderEnds
  <1> QED
    BY <1>1, <1>2, <1>3, <1>4 DEF Next

-----------------------------------------------------------------------------
(* The lock.                                                               *)

LEMMA TypesInductive ==
    ASSUME Types, [Next]_vars
    PROVE  Types'
  <1> USE DEF Types
  <1>1. ASSUME NEW c \in Runs, RunStep(c)
        PROVE  Types'
    <2> USE DEF Places, Go, Send, Finish
    <2>1. CASE Start(c) \/ EnterReady(c) \/ EnterSpawning(c) \/ EnterReusing(c)
      BY <2>1 DEF Start, EnterReady, EnterSpawning, EnterReusing, Unreaped, conn, calls
    <2>2. CASE SpawnFails(c) \/ Spawned(c) \/ Initialized(c) \/ InitializeFailed(c)
      BY <2>2 DEF SpawnFails, Spawned, Initialized, InitializeFailed, conn, calls
    <2>3. CASE SessionCreated(c) \/ SessionFailed(c) \/ PromptAnswered(c)
            \/ PromptTimedOut(c) \/ CancelSent(c)
      BY <2>3 DEF SessionCreated, SessionFailed, PromptAnswered, PromptTimedOut, CancelSent, conn, calls
    <2>4. CASE Closing(c) \/ Drained(c) \/ Reaped(c)
      BY <2>4 DEF Closing, Drained, Reaped, calls
    <2> QED
      BY <1>1, <2>1, <2>2, <2>3, <2>4 DEF RunStep
  <1>2. ASSUME NEW c \in Runs, Written(c) \/ PipeBreaks(c) \/ Reply(c) \/ Timeout(c)
        PROVE  Types'
    BY <1>2 DEF Written, PipeBreaks, Reply, Timeout, conn, calls
  <1>3. CASE ProcessDies \/ StatusKnown
    BY <1>3 DEF ProcessDies, StatusKnown, calls
  <1>4. CASE ReaderEnds
    <2>1. answer' \in [Runs -> {"none", "ok", "error", "timeout", "closed"}]
      BY <1>4 DEF ReaderEnds
    <2>2. deaths' \in Nat
      BY <1>4 DEF ReaderEnds, ReaderMayEnd
    <2> QED
      BY <1>4, <2>1, <2>2 DEF ReaderEnds
  <1>5. CASE UNCHANGED vars
    BY <1>5 DEF vars, conn, calls
  <1> QED
    BY <1>1, <1>2, <1>3, <1>4, <1>5 DEF Next

LEMMA SlotsInductive ==
    ASSUME AcpAssumption, Types, Cardinality(Busy) <= Concurrency, [Next]_vars
    PROVE  Cardinality(Busy)' <= Concurrency
  <1>1. IsFiniteSet(Busy) /\ IsFiniteSet(Busy') /\ Concurrency \in Nat
    BY FS_Subset DEF AcpAssumption, Busy
  <1>2. Cardinality(Busy) \in Nat /\ Cardinality(Busy') \in Nat
    BY <1>1, FS_CardinalityType
  <1>3. CASE Busy' \subseteq Busy
    <2>1. Cardinality(Busy') <= Cardinality(Busy)
      BY <1>1, <1>3, FS_Subset
    <2> QED
      BY <1>1, <1>2, <2>1
  <1>4. ASSUME Cardinality(Busy) < Concurrency,
               NEW c \in Runs, Busy' \subseteq Busy \cup {c}
        PROVE  Cardinality(Busy') <= Concurrency
    <2>1. /\ IsFiniteSet(Busy \cup {c})
          /\ Cardinality(Busy \cup {c}) \in Nat
          /\ Cardinality(Busy \cup {c}) <= Cardinality(Busy) + 1
      <3>1. IsFiniteSet(Busy \cup {c})
        BY <1>1, FS_AddElement
      <3>2. CASE c \in Busy
        BY <1>1, <1>2, <3>1, <3>2, FS_AddElement
      <3>3. CASE c \notin Busy
        BY <1>1, <1>2, <3>1, <3>3, FS_AddElement
      <3> QED
        BY <3>1, <3>2, <3>3
    <2>2. Cardinality(Busy') <= Cardinality(Busy \cup {c})
      BY <1>4, <2>1, FS_Subset
    <2> QED
      BY <1>1, <1>2, <1>4, <2>1, <2>2
  <1>5. CASE UNCHANGED vars
    BY <1>1, <1>2, <1>5, <1>3 DEF vars, Busy
  <1> QED
    BY <1>3, <1>4, <1>5, BusyGrowsByOne

(* What the exclusion rests on: a peer that reads has its subprocess, and  *)
(* aclose terminates a subprocess whose peer is already gone.              *)
PeerHasProcess == peer = "open" => proc # "none"

ReapsAlone == \A c \in Runs : at[c] = "reaping" => peer # "open"

IInv == Types /\ OneAtATime /\ PeerHasProcess /\ ReapsAlone

LEMMA IInvInductive ==
    ASSUME AcpAssumption, IInv, [Next]_vars
    PROVE  IInv'
  <1> USE DEF OneAtATime, Inside, PeerHasProcess, ReapsAlone
  <1>0. Types /\ Types' /\ NoRun \notin Runs
    BY TypesInductive DEF IInv, AcpAssumption
  <1>1. ASSUME NEW c \in Runs, RunStep(c)
        PROVE  OneAtATime' /\ PeerHasProcess' /\ ReapsAlone'
    <2> USE DEF IInv, Types, Go, Send, Finish
    <2>1. CASE Start(c) \/ EnterReady(c) \/ EnterSpawning(c) \/ EnterReusing(c)
      BY <1>0, <2>1 DEF Start, EnterReady, EnterSpawning, EnterReusing, Unreaped, conn, calls
    <2>2. CASE SpawnFails(c) \/ Spawned(c) \/ Initialized(c) \/ InitializeFailed(c)
      BY <1>0, <2>2 DEF SpawnFails, Spawned, Initialized, InitializeFailed, conn, calls
    <2>3. CASE SessionCreated(c) \/ SessionFailed(c) \/ PromptAnswered(c)
            \/ PromptTimedOut(c) \/ CancelSent(c)
      BY <1>0, <2>3 DEF SessionCreated, SessionFailed, PromptAnswered, PromptTimedOut, CancelSent, conn, calls
    <2>4. CASE Closing(c) \/ Drained(c) \/ Reaped(c)
      BY <1>0, <2>4 DEF Closing, Drained, Reaped, calls
    <2> QED
      BY <1>1, <2>1, <2>2, <2>3, <2>4 DEF RunStep
  <1>2. ASSUME NEW c \in Runs, Written(c) \/ PipeBreaks(c) \/ Reply(c) \/ Timeout(c)
        PROVE  OneAtATime' /\ PeerHasProcess' /\ ReapsAlone'
    BY <1>0, <1>2 DEF IInv, Types, Written, PipeBreaks, Reply, Timeout, conn, calls
  <1>3. CASE ProcessDies \/ StatusKnown \/ ReaderEnds
    BY <1>0, <1>3 DEF IInv, Types, ProcessDies, StatusKnown, ReaderEnds, ReaderMayEnd, calls
  <1>4. CASE UNCHANGED vars
    BY <1>0, <1>4 DEF IInv, vars, conn, calls
  <1> QED
    BY <1>0, <1>1, <1>2, <1>3, <1>4 DEF Next, IInv

LEMMA IInvInit ==
    ASSUME AcpAssumption, Init
    PROVE  IInv /\ Cardinality(Busy) <= Concurrency
  <1>1. IInv
    BY DEF AcpAssumption, Init, IInv, Types, Places, OneAtATime, Inside, PeerHasProcess, ReapsAlone
  <1>2. Busy = {}
    BY DEF Init, Busy
  <1> QED
    BY <1>1, <1>2, FS_EmptySet DEF AcpAssumption

(* Types and the semaphore's bound: no more runs share opencode than       *)
(* OPENCODE_ADAPTER_CONCURRENCY allows.                                    *)
THEOREM TypeCorrect == Spec => []TypeOK
  <1> USE AcpAssumption
  <1> DEFINE J == IInv /\ Cardinality(Busy) <= Concurrency
  <1>1. Init => J
    BY IInvInit
  <1>2. J /\ [Next]_vars => J'
    BY IInvInductive, SlotsInductive DEF IInv
  <1>3. J => TypeOK
    BY DEF IInv, Types, TypeOK
  <1> QED
    BY <1>1, <1>2, <1>3, PTL DEF Spec

(* Whatever fails, at most one run starts or stops the subprocess: the one *)
(* that holds _lock.                                                       *)
THEOREM MutualExclusion == Spec => []OneAtATime
  <1> USE AcpAssumption
  <1>1. Init => IInv
    BY IInvInit
  <1>2. IInv /\ [Next]_vars => IInv'
    BY IInvInductive
  <1>3. IInv => OneAtATime
    BY DEF IInv
  <1> QED
    BY <1>1, <1>2, <1>3, PTL DEF Spec

(* aclose never takes the subprocess from under a connection that counts   *)
(* as ready, whatever happens to opencode or to its pipe.                  *)
THEOREM ReadyIsAlive == Spec => []ReadyHasProcess
  <1> USE AcpAssumption
  <1>1. Init => IInv
    BY IInvInit
  <1>2. IInv /\ [Next]_vars => IInv'
    BY IInvInductive
  <1>3. IInv => ReadyHasProcess
    BY DEF IInv, PeerHasProcess, ReadyHasProcess, Ready
  <1> QED
    BY <1>1, <1>2, <1>3, PTL DEF Spec

-----------------------------------------------------------------------------
(* Pending calls.                                                          *)

LEMMA CallsInductive ==
    ASSUME AcpAssumption, IInv, CallsHaveReader, [Next]_vars
    PROVE  CallsHaveReader'
  <1> USE DEF CallsHaveReader, InFlight, IInv, Types
  <1>1. ASSUME NEW c \in Runs, RunStep(c)
        PROVE  CallsHaveReader'
    <2> USE DEF Go, Send, Finish
    <2>1. CASE Start(c) \/ EnterReady(c) \/ EnterSpawning(c) \/ EnterReusing(c)
      BY <2>1 DEF Start, EnterReady, EnterSpawning, EnterReusing, conn, calls
    <2>2. CASE SpawnFails(c) \/ Spawned(c) \/ Initialized(c) \/ InitializeFailed(c)
      BY <2>2 DEF SpawnFails, Spawned, Initialized, InitializeFailed, conn, calls
    <2>3. CASE SessionCreated(c) \/ SessionFailed(c) \/ PromptAnswered(c)
            \/ PromptTimedOut(c) \/ CancelSent(c)
      BY <2>3 DEF SessionCreated, SessionFailed, PromptAnswered, PromptTimedOut,
                  CancelSent, conn, calls
    <2>4. CASE Closing(c) \/ Drained(c) \/ Reaped(c)
      BY <2>4 DEF Closing, Drained, Reaped, calls
    <2> QED
      BY <1>1, <2>1, <2>2, <2>3, <2>4 DEF RunStep
  <1>2. ASSUME NEW c \in Runs, Written(c) \/ PipeBreaks(c) \/ Reply(c) \/ Timeout(c)
        PROVE  CallsHaveReader'
    BY <1>2 DEF Written, PipeBreaks, Reply, Timeout, conn
  <1>3. CASE ProcessDies \/ StatusKnown \/ ReaderEnds
    BY <1>3 DEF ProcessDies, StatusKnown, ReaderEnds, calls
  <1>4. CASE UNCHANGED vars
    BY <1>4 DEF vars, conn, calls
  <1> QED
    BY <1>1, <1>2, <1>3, <1>4 DEF Next

(* A reader loop that ends, however it ends, leaves no call behind that    *)
(* was registered with it in time.                                         *)
THEOREM PendingCallsHaveReader == Spec => []CallsHaveReader
  <1> USE AcpAssumption
  <1> DEFINE J == IInv /\ CallsHaveReader
  <1>1. Init => J
    BY IInvInit DEF Init, CallsHaveReader, InFlight
  <1>2. J /\ [Next]_vars => J'
    BY IInvInductive, CallsInductive
  <1>3. J => CallsHaveReader
    OBVIOUS
  <1> QED
    BY <1>1, <1>2, <1>3, PTL DEF Spec

-----------------------------------------------------------------------------
(* Readiness.                                                              *)

(* A peer that reads is greeted, but while the lock hides it: during its   *)
(* first handshake, and for ever once that has failed.                     *)
Greeting == \E c \in Runs : lock = c /\ at[c] \in {"initializing", "selfwait"}

OpenIsGreeted == peer = "open" => greeted \/ Greeting

LEMMA OpenIsGreetedInductive ==
    ASSUME AcpAssumption, IInv, OpenIsGreeted, [Next]_vars
    PROVE  OpenIsGreeted'
  <1> USE DEF OpenIsGreeted, Greeting, IInv, Types
  <1>0. OneAtATime /\ OneAtATime' /\ NoRun \notin Runs
    BY IInvInductive DEF AcpAssumption
  <1>1. ASSUME NEW c \in Runs, RunStep(c)
        PROVE  OpenIsGreeted'
    <2> USE DEF Go, Send, Finish
    <2>1. CASE Start(c) \/ EnterReady(c) \/ EnterSpawning(c) \/ EnterReusing(c)
      BY <1>0, <2>1 DEF Start, EnterReady, EnterSpawning, EnterReusing, conn, calls
    <2>2. CASE SpawnFails(c)
      BY <1>0, <2>2 DEF SpawnFails, OneAtATime, Inside, conn
    <2>3. CASE Spawned(c)
      BY <1>0, <2>3 DEF Spawned, OneAtATime, Inside
    <2>4. CASE Initialized(c)
      BY <2>4 DEF Initialized
    <2>5. CASE InitializeFailed(c)
      BY <1>0, <2>5 DEF InitializeFailed, conn
    <2>6. CASE SessionCreated(c) \/ SessionFailed(c) \/ PromptAnswered(c)
            \/ PromptTimedOut(c) \/ CancelSent(c)
      BY <1>0, <2>6 DEF SessionCreated, SessionFailed, PromptAnswered, PromptTimedOut,
                  CancelSent, conn
    <2>7. CASE Closing(c)
      BY <1>0, <2>7 DEF Closing
    <2>8. CASE Drained(c) \/ Reaped(c)
      BY <1>0, <2>8 DEF Drained, Reaped, ReapsAlone
    <2> QED
      BY <1>1, <2>1, <2>2, <2>3, <2>4, <2>5, <2>6, <2>7, <2>8 DEF RunStep
  <1>2. ASSUME NEW c \in Runs, Written(c) \/ PipeBreaks(c) \/ Reply(c) \/ Timeout(c)
        PROVE  OpenIsGreeted'
    BY <1>2 DEF Written, PipeBreaks, Reply, Timeout, conn
  <1>3. CASE ProcessDies \/ StatusKnown \/ ReaderEnds
    BY <1>3 DEF ProcessDies, StatusKnown, ReaderEnds
  <1>4. CASE UNCHANGED vars
    BY <1>4 DEF vars, conn
  <1> QED
    BY <1>1, <1>2, <1>3, <1>4 DEF Next

(* A run that finds the connection ready finds a peer that was greeted,    *)
(* even after _initialized was set on a peer that had closed.              *)
THEOREM ReliableConnection == Spec => []ReadyIsGreeted
  <1> USE AcpAssumption
  <1> DEFINE J == IInv /\ OpenIsGreeted
  <1>1. Init => J
    BY IInvInit DEF Init, OpenIsGreeted
  <1>2. J /\ [Next]_vars => J'
    BY IInvInductive, OpenIsGreetedInductive
  <1>3. J => ReadyIsGreeted
    BY DEF OpenIsGreeted, Greeting, ReadyIsGreeted, Ready, AcpAssumption
  <1> QED
    BY <1>1, <1>2, <1>3, PTL DEF Spec
=============================================================================
