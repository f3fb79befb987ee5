---------------------------- MODULE TaskLifecycle ----------------------------
(***************************************************************************)
(* What a client of the A2A surface may rely on: every task walks once     *)
(* through                                                                 *)
(*                                                                         *)
(*     ABSENT -> SUBMITTED -> WORKING -> COMPLETED | FAILED | CANCELED     *)
(*                        \-> REJECTED | CANCELED                          *)
(*                                                                         *)
(* and stays where it ends, until a submission that finds the table full   *)
(* makes it GONE, whatever it was doing.                                   *)
(***************************************************************************)
EXTENDS Naturals, FiniteSets

CONSTANTS Tasks, MaxTasks

VARIABLE phase      \* where each task stands

Outside == {"ABSENT", "GONE"}
Ended == {"COMPLETED", "FAILED", "CANCELED", "REJECTED"}
Phases == Outside \cup Ended \cup {"SUBMITTED", "WORKING"}

Present == {t \in Tasks : phase[t] \notin Outside}

LifecycleInit == phase = [t \in Tasks |-> "ABSENT"]

Admit(t) ==
    /\ phase[t] = "ABSENT"
    /\ \/ /\ Cardinality(Present) < MaxTasks
          /\ phase' = [phase EXCEPT ![t] = "SUBMITTED"]
       \/ /\ Cardinality(Present) = MaxTasks
          /\ \E victim \in Present :
                phase' = [phase EXCEPT ![t] = "SUBMITTED", ![victim] = "GONE"]

Begin(t) ==
    /\ phase[t] = "SUBMITTED"
    /\ phase' = [phase EXCEPT ![t] = "WORKING"]

TurnDown(t) ==
    /\ phase[t] = "SUBMITTED"
    /\ phase' = [phase EXCEPT ![t] = "REJECTED"]

Conclude(t) == \E verdict \in {"COMPLETED", "FAILED"} :
    /\ phase[t] = "WORKING"
    /\ phase' = [phase EXCEPT ![t] = verdict]

CallOff(t) ==
    /\ phase[t] \in {"SUBMITTED", "WORKING"}
    /\ phase' = [phase EXCEPT ![t] = "CANCELED"]

LifecycleNext == \E t \in Tasks :
    Admit(t) \/ Begin(t) \/ TurnDown(t) \/ Conclude(t) \/ CallOff(t)

Lifecycle == LifecycleInit /\ [][LifecycleNext]_phase
=============================================================================
