----------------------------- MODULE MultiSearch -----------------------------
(***************************************************************************)
(* multi_search of the web search MCP server (mcp/multi.py): every engine  *)
(* is asked at once, each under a timeout of its own, and what they found  *)
(* is merged round-robin, without duplicates, up to a limit.               *)
(*                                                                         *)
(* A result is its deduplication key, the normalised URL.  Engines are     *)
(* numbered in the order they are listed in.                               *)
(***************************************************************************)
EXTENDS Naturals, Sequences, FiniteSets

CONSTANTS
    Engines,    \* the engines asked
    Keys,       \* normalised URLs
    PerEngine,  \* max_results_per_engine
    MaxLimit    \* bound on an explicit total_limit, for model checking

ASSUME SearchAssumption ==
    /\ Engines \subseteq Nat /\ IsFiniteSet(Engines)
    /\ PerEngine \in Nat \ {0} /\ MaxLimit \in Nat

VARIABLES
    found,      \* the outcome of each engine: its results
    answered,   \* each engine: "asked", "ok" or "error"
    merge       \* _round_robin_dedup: next result of each engine, out, limit

searchVars == <<found, answered, merge>>

(* pos: how many results were taken; round: who is yet to give one in it.  *)
InitSearch ==
    /\ found = [e \in Engines |-> <<>>]
    /\ answered = [e \in Engines |-> "asked"]
    /\ merge = [phase |-> "gather", limit |-> 0, pos |-> [e \in Engines |-> 0],
                ended |-> {}, round |-> {}, out |-> <<>>]

Used == {e \in Engines : answered[e] = "ok"}

Results == UNION {[1..n -> Keys] : n \in 0..PerEngine}

(* _run_engine: the results, or an error: of the engine, of the transport  *)
(* after one retry, or the timeout.                                        *)
EngineAnswers(e) ==
    /\ answered[e] = "asked"
    /\ \/ \E r \in Results :
            found' = [found EXCEPT ![e] = r] /\ answered' = [answered EXCEPT ![e] = "ok"]
       \/ answered' = [answered EXCEPT ![e] = "error"] /\ UNCHANGED found
    /\ UNCHANGED merge

(* The default total_limit: half of the engines' worth.                    *)
DefaultLimit ==
    LET half == Cardinality(Used) \div 2
    IN PerEngine * (IF half = 0 THEN 1 ELSE half)

(* gather is over: one task for each engine, whatever became of it.        *)
Gather(limit) ==
    /\ merge.phase = "gather"
    /\ \A e \in Engines : answered[e] # "asked"
    /\ merge' = [merge EXCEPT !.phase = "merging", !.limit = limit, !.round = Used]
    /\ UNCHANGED <<found, answered>>

InTurn(e) == merge.phase = "merging" /\ e \in merge.round
           /\ \A f \in merge.round : e <= f

(* Mutant of Taken: only the last key counts.                              *)
TakenLast(k) == merge.out # <<>> /\ merge.out[Len(merge.out)] = k

Taken(k) == \E i \in DOMAIN merge.out : merge.out[i] = k

(* One next(): a key, unless it is there already, or the iterator's end.   *)
(* The limit is looked at after every key that is taken, and a round ends  *)
(* with the last engine that is not exhausted.                             *)
Take(e) ==
    LET i == merge.pos[e] + 1
        over == i > Len(found[e])
        out == IF over \/ Taken(found[e][i]) THEN merge.out ELSE Append(merge.out, found[e][i])
        ended == IF over THEN merge.ended \cup {e} ELSE merge.ended
        rest == merge.round \ {e}
    IN /\ InTurn(e) /\ Len(merge.out) < merge.limit
       /\ merge' = [merge EXCEPT !.pos[e] = i, !.ended = ended, !.out = out,
                       !.round = IF rest = {} THEN Used \ ended ELSE rest]
       /\ UNCHANGED <<found, answered>>

EndMerge ==
    /\ merge.phase = "merging"
    /\ merge.round = {} \/ Len(merge.out) >= merge.limit
    /\ merge' = [merge EXCEPT !.phase = "done"]
    /\ UNCHANGED <<found, answered>>

SearchStep ==
    \/ \E e \in Engines : EngineAnswers(e) \/ Take(e)
    \/ \E limit \in 0..MaxLimit : Gather(limit)
    \/ Gather(DefaultLimit)
    \/ EndMerge

SearchSpec == InitSearch /\ [][SearchStep]_searchVars

-----------------------------------------------------------------------------
(* The reference: a result comes before another by its rank at its engine  *)
(* and then by its engine, and only the first with its key counts.         *)
Ranked == {<<e, i>> : e \in Used, i \in 1..PerEngine}
Offered == {x \in Ranked : x[2] <= Len(found[x[1]])}
Key(x) == found[x[1]][x[2]]
Before(x, y) == x[2] < y[2] \/ (x[2] = y[2] /\ x[1] < y[1])
Firsts == {x \in Offered : \A y \in Offered : Key(y) = Key(x) => ~Before(y, x)}

(* The merge is the fair interleave it claims to be: the results that are  *)
(* first with their key, by rank and then by engine, up to the limit; none *)
(* is lost, repeated or out of its turn, whatever the engines answer.      *)
MergeIsFair == merge.phase = "done" =>
    /\ Len(merge.out) = IF Cardinality(Firsts) < merge.limit
                        THEN Cardinality(Firsts) ELSE merge.limit
    /\ \A x \in Firsts :
         LET place == Cardinality({y \in Firsts : Before(y, x)}) + 1
         IN place <= Len(merge.out) => merge.out[place] = Key(x)
=============================================================================
