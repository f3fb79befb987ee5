------------------------------- MODULE AgentMesh -------------------------------
(***************************************************************************)
(* The services around the task API, side by side: the skill catalogue,    *)
(* the registry's cards over it, the runs of the adapters, the turns on a  *)
(* connection to opencode, a web search, and a signed card.  A behaviour   *)
(* follows one of them: only the registry's cards read what another part   *)
(* writes, and they are followed together with the catalogue.              *)
(***************************************************************************)
EXTENDS AgentRegistry, AdapterRuns, OpencodeTurns, MultiSearch, CardSigning

CONSTANT CardRequests   \* the manager's calls while the cards are followed

ASSUME MeshAssumption == CardRequests \subseteq Requests

VARIABLE part           \* what a behaviour follows

meshVars == <<skillsVars, cardVars, runVars, turnVars, searchVars, signVars, part>>

Parts == {"skills", "cards", "runs", "turns", "search", "signing"}

Init ==
    /\ InitSkills /\ InitCards /\ InitRuns /\ InitTurns
    /\ InitSearch /\ InitSigning
    /\ part \in Parts
    /\ part # "skills" => \A s \in Skills : disk[s] = Absent
    /\ part # "cards" => native = Carded

(* All that a card can tell of the catalogue is the revision its adapter   *)
(* has loaded: one way of writing it will do.                              *)
CatalogueMoves ==
    \/ \E r \in CardRequests :
         \/ \E s \in Skills : CreateOrReplace(r, s, {Star}, "good")
         \/ \E a \in Carded : Reload(r, a, "heard")
    \/ \E a \in Carded : AdapterStops(a)

FollowSkills == SkillsStep /\ UNCHANGED cardVars
FollowCards ==
    \/ CatalogueMoves /\ UNCHANGED cardVars
    \/ CardStep /\ UNCHANGED skillsVars
    \/ \E a \in Carded : Rebuild(a)

Next ==
    /\ UNCHANGED part
    /\ \/ /\ \/ part = "skills" /\ FollowSkills
             \/ part = "cards" /\ FollowCards
          /\ UNCHANGED <<runVars, turnVars, searchVars, signVars>>
       \/ /\ part = "runs" /\ RunsStep
          /\ UNCHANGED <<skillsVars, cardVars, turnVars, searchVars, signVars>>
       \/ /\ part = "turns" /\ TurnsStep
          /\ UNCHANGED <<skillsVars, cardVars, runVars, searchVars, signVars>>
       \/ /\ part = "search" /\ SearchStep
          /\ UNCHANGED <<skillsVars, cardVars, runVars, turnVars, signVars>>
       \/ /\ part = "signing" /\ SigningStep
          /\ UNCHANGED <<skillsVars, cardVars, runVars, turnVars, searchVars>>

Spec == Init /\ [][Next]_meshVars /\ RunsFairness
=============================================================================
