---------------------------- MODULE MCTaskBridge ----------------------------
(* Small instances of TaskBridge for TLC.                                    *)
EXTENDS TaskBridge, TLC

(* Tasks, and the streams that are no waiters, are interchangeable.  Only   *)
(* safety runs use this.                                                    *)
Symmetry == Permutations(Tasks) \cup Permutations(Subs \ Waiters)
=============================================================================
