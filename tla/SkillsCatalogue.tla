--------------------------- MODULE SkillsCatalogue ---------------------------
(***************************************************************************)
(* The skill tree .ai/skills, the skills manager that writes it            *)
(* (skills-manager/server.py), and the adapters that load it at startup    *)
(* and at POST /admin/reload (skills_loader.py, agent_mesh_adapter.py).    *)
(*                                                                         *)
(* A handler of the manager runs in one step up to the broadcast, which    *)
(* waits for every adapter; an adapter's reload is one step.  Of a         *)
(* manifest the model keeps its agents list and whether its front matter   *)
(* parses: the writer quotes too few strings, so a name can break it.      *)
(* Who attaches names an adapter; the id "*", which nothing refuses, is    *)
(* the same as setting the list to everybody.                              *)
(***************************************************************************)
EXTENDS Naturals, FiniteSets

CONSTANTS
    Skills,     \* skill ids
    Agents,     \* adapters the manager knows (ADAPTERS_IDS)
    Star,       \* the entry "*" of an agents list
    Lists,      \* the agents lists a client writes
    Requests    \* the calls of the skills manager, numbered as they arrive

ASSUME SkillsAssumption ==
    /\ Star \notin Agents
    /\ Lists \subseteq SUBSET (Agents \cup {Star})
    /\ Requests \subseteq Nat

VARIABLES
    disk,       \* SKILL.md of each skill
    writes,     \* how often the tree was changed: the revision of a manifest
    bundle,     \* what each adapter has loaded, and at which revision
    up,         \* the adapters that run
    req,        \* each request: its broadcast
    off         \* adapters detached since the list was last set or empty (observed)

skillsVars == <<disk, writes, bundle, up, req, off>>

Manifests == [kind : {"absent", "good", "broken"}, agents : SUBSET (Agents \cup {Star}),
              rev : Nat]
Bundles == [shown : [Skills -> Nat], read : Nat]
RequestStates == [phase : {"idle", "reloading", "done", "failed"}, at : Nat,
                  todo : SUBSET Agents, ok : BOOLEAN]

Absent == [kind |-> "absent", agents |-> {}, rev |-> 0]

-----------------------------------------------------------------------------
(* The loader.                                                             *)

(* _coerce_str_list(...) or ["*"]: an empty list is read as everybody.     *)
Listed(m) == IF m.agents = {} THEN {Star} ELSE m.agents

MatchesAgent(m, a) == m.kind = "good" /\ Listed(m) \cap {Star, a} # {}

(* A front matter that does not parse raises out of load_skills.           *)
Loads(d) == \A s \in Skills : d[s].kind # "broken"

LoadSkills(d, a) == [s \in Skills |-> IF MatchesAgent(d[s], a) THEN d[s].rev ELSE 0]

LoadBundle(a) == [shown |-> LoadSkills(disk, a), read |-> writes]

(* The tree as it is found; every adapter has loaded it.                   *)
InitSkills ==
    /\ disk \in [Skills -> {Absent} \cup
                  {[kind |-> "good", agents |-> list, rev |-> 1] : list \in Lists}]
    /\ writes = 1
    /\ bundle = [a \in Agents |-> [shown |-> LoadSkills(disk, a), read |-> 1]]
    /\ up = Agents
    /\ req = [r \in Requests |-> [phase |-> "idle", at |-> 0, todo |-> {}, ok |-> TRUE]]
    /\ off = [s \in Skills |-> {}]

-----------------------------------------------------------------------------
(* The skills manager.                                                     *)

Arrives(r) ==
    /\ req[r].phase = "idle"
    /\ \A q \in Requests : q < r => req[q].phase # "idle"

BroadcastReload(r) == req' = [req EXCEPT ![r] =
    [phase |-> "reloading", at |-> writes', todo |-> Agents, ok |-> TRUE]]

Fails(r) == req' = [req EXCEPT ![r].phase = "failed", ![r].at = writes']

Save(s, m) ==
    /\ disk' = [disk EXCEPT ![s] = [m EXCEPT !.rev = writes + 1]]
    /\ writes' = writes + 1

(* _write_skill saves, reads back what it saved, and raises before the     *)
(* broadcast when that does not parse.                                     *)
WriteSkill(r, s, agents, kind) ==
    /\ Arrives(r)
    /\ Save(s, [kind |-> kind, agents |-> agents, rev |-> 0])
    /\ IF kind = "broken" THEN Fails(r) ELSE BroadcastReload(r)
    /\ UNCHANGED <<bundle, up>>

(* POST /skills refuses an existing directory; PUT /skills/{id} does not.  *)
CreateOrReplace(r, s, agents, kind) ==
    /\ WriteSkill(r, s, agents, kind)
    /\ off' = [off EXCEPT ![s] = {}]

(* Mutant of DetachedList: the wildcard is not spelled out first.          *)
DetachedListLazily(m, a) == Listed(m) \ {a}

(* What attach writes with enabled = false and true, if it writes.         *)
DetachedList(m, a) ==
    IF Star \in Listed(m) THEN Agents \ {a} ELSE Listed(m) \ {a}

Detach(r, s, a, kind) ==
    /\ disk[s].kind = "good"
    /\ WriteSkill(r, s, DetachedList(disk[s], a), kind)
    /\ off' = [off EXCEPT ![s] = IF DetachedList(disk[s], a) = {} THEN {} ELSE @ \cup {a}]

Attach(r, s, a, kind) ==
    /\ disk[s].kind = "good"
    /\ {Star, a} \cap Listed(disk[s]) = {}
    /\ WriteSkill(r, s, Listed(disk[s]) \cup {a}, kind)
    /\ off' = [off EXCEPT ![s] = @ \ {a}]

(* Mutant of DeleteSkill: the adapters are not told.                       *)
DeleteSkillQuietly(r, s) ==
    /\ Arrives(r) /\ disk[s].kind # "absent"
    /\ disk' = [disk EXCEPT ![s] = Absent]
    /\ writes' = writes + 1
    /\ req' = [req EXCEPT ![r].phase = "done", ![r].at = writes + 1]
    /\ off' = [off EXCEPT ![s] = {}]
    /\ UNCHANGED <<bundle, up>>

DeleteSkill(r, s) ==
    /\ Arrives(r) /\ disk[s].kind # "absent"
    /\ disk' = [disk EXCEPT ![s] = Absent]
    /\ writes' = writes + 1
    /\ BroadcastReload(r)
    /\ off' = [off EXCEPT ![s] = {}]
    /\ UNCHANGED <<bundle, up>>

(* An import overwrites what is there and is not read back.                *)
ImportSkill(r, s, agents, kind) ==
    /\ Arrives(r)
    /\ Save(s, [kind |-> kind, agents |-> agents, rev |-> 0])
    /\ BroadcastReload(r)
    /\ off' = [off EXCEPT ![s] = {}]
    /\ UNCHANGED <<bundle, up>>

ReloadAll(r) ==
    /\ Arrives(r)
    /\ UNCHANGED <<disk, writes, bundle, up, off>>
    /\ BroadcastReload(r)

(* One adapter's part of the broadcast: the adapter may not get the        *)
(* request, and the manager may not get the answer in time.                *)
Reload(r, a, outcome) ==
    LET loaded == outcome # "missed" /\ a \in up /\ Loads(disk)
    IN /\ req[r].phase = "reloading" /\ a \in req[r].todo
       /\ bundle' = IF loaded THEN [bundle EXCEPT ![a] = LoadBundle(a)] ELSE bundle
       /\ req' = [req EXCEPT ![r].todo = @ \ {a}, ![r].ok = @ /\ loaded /\ outcome = "heard"]
       /\ UNCHANGED <<disk, writes, up, off>>

FinishBroadcast(r) ==
    /\ req[r].phase = "reloading" /\ req[r].todo = {}
    /\ req' = [req EXCEPT ![r].phase = "done"]
    /\ UNCHANGED <<disk, writes, bundle, up, off>>

(* An adapter stops; build_app loads the tree when it starts again, and    *)
(* does not come up while some manifest is broken.                         *)
AdapterStops(a) ==
    /\ up' = up \ {a} /\ a \in up
    /\ UNCHANGED <<disk, writes, bundle, req, off>>

AdapterStarts(a) ==
    /\ a \notin up /\ Loads(disk)
    /\ up' = up \cup {a}
    /\ bundle' = [bundle EXCEPT ![a] = LoadBundle(a)]
    /\ UNCHANGED <<disk, writes, req, off>>

SkillsStep ==
    \/ \E r \in Requests, s \in Skills, kind \in {"good", "broken"} :
         \/ \E agents \in Lists :
              CreateOrReplace(r, s, agents, kind) \/ ImportSkill(r, s, agents, kind)
         \/ \E a \in Agents : Detach(r, s, a, kind) \/ Attach(r, s, a, kind)
    \/ \E r \in Requests, s \in Skills : DeleteSkill(r, s)
    \/ \E r \in Requests : ReloadAll(r) \/ FinishBroadcast(r)
    \/ \E r \in Requests, a \in Agents, outcome \in {"heard", "unheard", "missed"} :
         Reload(r, a, outcome)
    \/ \E a \in Agents : AdapterStops(a) \/ AdapterStarts(a)

SkillsSpec == InitSkills /\ [][SkillsStep]_skillsVars

-----------------------------------------------------------------------------
SkillsOK ==
    /\ disk \in [Skills -> Manifests] /\ writes \in Nat
    /\ bundle \in [Agents -> Bundles] /\ up \subseteq Agents
    /\ req \in [Requests -> RequestStates]
    /\ off \in [Skills -> SUBSET Agents]

(* An adapter never shows an old catalogue in silence: some request that   *)
(* changed the tree since has yet to reach it, or said that it failed.     *)
Overdue(r, a) ==
    /\ req[r].at > bundle[a].read
    /\ \/ req[r].phase = "reloading" /\ (a \in req[r].todo \/ ~req[r].ok)
       \/ req[r].phase = "failed"
       \/ req[r].phase = "done" /\ ~req[r].ok

StaleBundleIsReported == \A a \in up :
    bundle[a].shown # LoadSkills(disk, a) => \E r \in Requests : Overdue(r, a)

(* A skill that was detached from an adapter stays off it whatever is      *)
(* attached and detached elsewhere, until its list is set anew or runs     *)
(* empty, which the loader reads as everybody.                             *)
DetachmentsHold == \A s \in Skills : \A a \in off[s] : ~MatchesAgent(disk[s], a)
=============================================================================
