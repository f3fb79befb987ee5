---------------------------- MODULE MCTaskHandlers ----------------------------
(* Small instances of TaskHandlers for TLC.                                    *)
EXTENDS TaskHandlers, TLC

(* Tasks and streams are interchangeable.  Only safety runs use this.       *)
Symmetry == Permutations(Tasks) \cup Permutations(Subs)
=============================================================================
