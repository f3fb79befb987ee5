------------------------- MODULE AgentRegistry_proofs -------------------------
(***************************************************************************)
(* Proofs about the skill catalogue and the registry's cards, for any      *)
(* number of skills, adapters, requests and fetches.                       *)
(*                                                                         *)
(* An adapter behind the tree has a request to wait for or to blame: the   *)
(* request that changed the tree last carries its revision, and either     *)
(* reaches the adapter, which then is up to date, or notes that it failed. *)
(* The cards rest on an adapter's revision never going back: an answer is  *)
(* at least as new as the moment its fetch began.                          *)
(***************************************************************************)
EXTENDS AgentRegistry, TLAPS

(* What all operations that write the tree have in common.                 *)
TreeChanges(r, s) ==
    /\ Arrives(r) /\ writes' = writes + 1 /\ UNCHANGED <<bundle, up>>
    /\ \E m \in Manifests : disk' = [disk EXCEPT ![s] = m]
    /\ BroadcastReload(r) \/ Fails(r)

(* SkillsOK without the set that is only observed.                         *)
TreeOK ==
    /\ disk \in [Skills -> Manifests] /\ writes \in Nat
    /\ bundle \in [Agents -> Bundles] /\ up \subseteq Agents
    /\ req \in [Requests -> RequestStates]

-----------------------------------------------------------------------------
(* What the writing operations do to the tree.                             *)

LEMMA SavingChanges ==
    ASSUME TreeOK, NEW r \in Requests, NEW s \in Skills, Arrives(r),
           NEW list \in SUBSET (Agents \cup {Star}), NEW kind \in {"good", "broken"},
           Save(s, [kind |-> kind, agents |-> list, rev |-> 0]),
           BroadcastReload(r) \/ Fails(r), UNCHANGED <<bundle, up>>
    PROVE  TreeChanges(r, s)
<1> DEFINE m == [kind |-> kind, agents |-> list, rev |-> writes + 1]
<1>1. m \in Manifests
  BY DEF Manifests, TreeOK
<1>2. m = [[kind |-> kind, agents |-> list, rev |-> 0] EXCEPT !.rev = writes + 1]
  OBVIOUS
<1>3. disk' = [disk EXCEPT ![s] = m] /\ writes' = writes + 1
  BY <1>2, Zenon DEF Save
<1> QED
  BY <1>1, <1>3 DEF TreeChanges

LEMMA ListsOfAgents ==
    ASSUME TreeOK, NEW s \in Skills, NEW a \in Agents
    PROVE  /\ Listed(disk[s]) \in SUBSET (Agents \cup {Star})
           /\ DetachedList(disk[s], a) \in SUBSET (Agents \cup {Star})
BY DEF TreeOK, Manifests, Listed, DetachedList

LEMMA DeletingChanges ==
    ASSUME TreeOK, NEW r \in Requests, NEW s \in Skills, DeleteSkill(r, s)
    PROVE  TreeChanges(r, s)
BY DEF DeleteSkill, TreeChanges, Absent, Manifests

LEMMA LoadedTyped ==
    ASSUME TreeOK, NEW a \in Agents
    PROVE  LoadBundle(a) \in Bundles
BY DEF LoadBundle, LoadSkills, Bundles, TreeOK, Manifests

-----------------------------------------------------------------------------
(* An adapter's view of the tree.                                          *)

ViewIsOfItsRevision == \A a \in Agents :
    /\ bundle[a].read <= writes
    /\ bundle[a].read = writes => bundle[a].shown = LoadSkills(disk, a)

RequestsReachOrReport == \A r \in Requests : req[r].phase # "idle" =>
    /\ req[r].at <= writes
    /\ \A a \in Agents : bundle[a].read >= req[r].at \/ Overdue(r, a)

LastWriterAsked == \A a \in Agents : bundle[a].read < writes =>
    \E r \in Requests : req[r].phase # "idle" /\ req[r].at = writes

ViewInv ==
    /\ TreeOK /\ ViewIsOfItsRevision /\ RequestsReachOrReport /\ LastWriterAsked

LEMMA ViewInit == InitSkills => ViewInv
<1> SUFFICES ASSUME InitSkills PROVE ViewInv
  OBVIOUS
<1>1. disk \in [Skills -> Manifests]
  BY SkillsAssumption DEF InitSkills, Absent, Manifests
<1>2. \A a \in Agents : LoadSkills(disk, a) \in [Skills -> Nat]
  BY <1>1 DEF LoadSkills, Manifests
<1>3. bundle \in [Agents -> Bundles] /\ req \in [Requests -> RequestStates]
  BY <1>2 DEF InitSkills, Bundles, RequestStates
<1>4. ViewIsOfItsRevision /\ RequestsReachOrReport /\ LastWriterAsked
  BY DEF InitSkills, ViewIsOfItsRevision, RequestsReachOrReport, LastWriterAsked
<1> QED
  BY <1>1, <1>3, <1>4 DEF ViewInv, TreeOK, InitSkills

(* A change of the tree leaves every adapter behind it, and its request    *)
(* has them all to reach, or has failed.                                   *)
LEMMA ChangingKeepsView ==
    ASSUME ViewInv, NEW r \in Requests, NEW s \in Skills, TreeChanges(r, s)
    PROVE  ViewInv'
<1>1. /\ disk' \in [Skills -> Manifests] /\ writes' = writes + 1 /\ writes' \in Nat
      /\ UNCHANGED <<bundle, up>> /\ req[r].phase = "idle"
  BY DEF ViewInv, TreeOK, TreeChanges, Arrives
<1>2. req' \in [Requests -> RequestStates]
  <2>1. CASE BroadcastReload(r)
    BY <1>1, <2>1 DEF BroadcastReload, ViewInv, TreeOK, RequestStates
  <2>2. CASE Fails(r)
    BY <1>1, <2>2 DEF Fails, ViewInv, TreeOK, RequestStates
  <2> QED
    BY <2>1, <2>2 DEF TreeChanges
<1>3. \A q \in Requests \ {r} : req'[q] = req[q]
  BY DEF TreeChanges, BroadcastReload, Fails, ViewInv, TreeOK
<1>4. /\ req'[r].at = writes'
      /\ \/ req'[r].phase = "reloading" /\ req'[r].todo = Agents
         \/ req'[r].phase = "failed"
  BY DEF TreeChanges, BroadcastReload, Fails, ViewInv, TreeOK, RequestStates
<1>5. \A a \in Agents : bundle[a].read \in Nat /\ bundle[a].read < writes'
  BY <1>1 DEF ViewInv, TreeOK, ViewIsOfItsRevision, Bundles
<1>6. ViewIsOfItsRevision'
  BY <1>1, <1>5 DEF ViewIsOfItsRevision
<1>7. RequestsReachOrReport'
  <2> SUFFICES ASSUME NEW q \in Requests, req'[q].phase # "idle"
               PROVE  /\ req'[q].at <= writes'
                      /\ \A a \in Agents : bundle'[a].read >= req'[q].at \/ Overdue(q, a)'
    BY DEF RequestsReachOrReport
  <2>1. CASE q = r
    BY <1>1, <1>4, <1>5, <2>1 DEF Overdue
  <2>2. CASE q # r
    <3>1. req'[q] = req[q] /\ req[q].at \in Nat
      BY <1>3, <2>2 DEF ViewInv, TreeOK, RequestStates
    <3> QED
      BY <1>1, <3>1 DEF Overdue, ViewInv, TreeOK, RequestsReachOrReport
  <2> QED
    BY <2>1, <2>2
<1>8. LastWriterAsked'
  BY <1>4 DEF LastWriterAsked
<1> QED
  BY <1>1, <1>2, <1>6, <1>7, <1>8 DEF ViewInv, TreeOK

LEMMA ReloadAllKeepsView ==
    ASSUME ViewInv, NEW r \in Requests, ReloadAll(r)
    PROVE  ViewInv'
<1>1. UNCHANGED <<disk, writes, bundle, up>> /\ req[r].phase = "idle"
  BY DEF ReloadAll, Arrives
<1>2. /\ req' \in [Requests -> RequestStates]
      /\ req'[r].at = writes' /\ req'[r].phase = "reloading" /\ req'[r].todo = Agents
      /\ \A q \in Requests \ {r} : req'[q] = req[q]
  BY <1>1 DEF ReloadAll, BroadcastReload, ViewInv, TreeOK, RequestStates
<1>3. \A a \in Agents : bundle[a].read \in Nat /\ writes \in Nat
  BY DEF ViewInv, TreeOK, Bundles
<1>4. RequestsReachOrReport'
  BY <1>1, <1>2, <1>3 DEF RequestsReachOrReport, Overdue, ViewInv, TreeOK
<1>5. LastWriterAsked'
  BY <1>1, <1>2 DEF LastWriterAsked
<1> QED
  BY <1>1, <1>2, <1>4, <1>5 DEF ViewInv, TreeOK, ViewIsOfItsRevision

LEMMA FinishingKeepsView ==
    ASSUME ViewInv, NEW r \in Requests, FinishBroadcast(r)
    PROVE  ViewInv'
<1>1. /\ UNCHANGED <<disk, writes, bundle, up>>
      /\ req[r].phase = "reloading" /\ req[r].todo = {}
      /\ req' = [req EXCEPT ![r].phase = "done"]
  BY DEF FinishBroadcast
<1>2. req' \in [Requests -> RequestStates]
  BY <1>1 DEF ViewInv, TreeOK, RequestStates
<1>3. \A q \in Requests : /\ req'[q].at = req[q].at /\ req'[q].ok = req[q].ok
                          /\ req'[q].todo = req[q].todo
                          /\ req'[q].phase = IF q = r THEN "done" ELSE req[q].phase
  BY <1>1 DEF ViewInv, TreeOK, RequestStates
<1>4. RequestsReachOrReport'
  BY <1>1, <1>3 DEF RequestsReachOrReport, Overdue, ViewInv, TreeOK
<1>5. LastWriterAsked'
  BY <1>1, <1>3 DEF LastWriterAsked, ViewInv, TreeOK
<1> QED
  BY <1>1, <1>2, <1>4, <1>5 DEF ViewInv, TreeOK, ViewIsOfItsRevision

(* An adapter that loads the tree is up to date; one that does not is      *)
(* noted as a failure of the broadcast.                                    *)
LEMMA ReloadingKeepsView ==
    ASSUME ViewInv, NEW r \in Requests, NEW a \in Agents,
           NEW outcome \in {"heard", "unheard", "missed"}, Reload(r, a, outcome)
    PROVE  ViewInv'
<1> DEFINE loaded == outcome # "missed" /\ a \in up /\ Loads(disk)
<1>1. /\ req[r].phase = "reloading" /\ a \in req[r].todo
      /\ bundle' = IF loaded THEN [bundle EXCEPT ![a] = LoadBundle(a)] ELSE bundle
      /\ req' = [req EXCEPT ![r].todo = @ \ {a}, ![r].ok = @ /\ loaded /\ outcome = "heard"]
      /\ UNCHANGED <<disk, writes, up>>
  BY DEF Reload
<1> HIDE DEF loaded
<1>2. TreeOK /\ LoadBundle(a) \in Bundles
  BY LoadedTyped DEF ViewInv
<1>3. bundle' \in [Agents -> Bundles]
  BY <1>1, <1>2 DEF TreeOK
<1>4. \A q \in Requests : /\ req'[q].phase = req[q].phase /\ req'[q].at = req[q].at
                          /\ \A b \in Agents : b \in req[q].todo => b \in req'[q].todo \/ b = a
                          /\ ~req[q].ok => ~req'[q].ok
                          /\ q # r => req'[q] = req[q]
  BY <1>1, <1>2 DEF TreeOK, RequestStates
<1>5. req'[r].ok = (req[r].ok /\ loaded /\ outcome = "heard")
  BY <1>1, <1>2 DEF TreeOK, RequestStates
<1>6. req'[r].ok \in BOOLEAN /\ req'[r].todo \in SUBSET Agents
  BY <1>1, <1>2 DEF TreeOK, RequestStates
<1>7. req' \in [Requests -> RequestStates]
  <2>1. req'[r] = [req[r] EXCEPT !.todo = req'[r].todo, !.ok = req'[r].ok]
    BY <1>1, <1>2 DEF TreeOK, RequestStates
  <2>2. req'[r] \in RequestStates
    BY <1>2, <1>6, <2>1 DEF TreeOK, RequestStates
  <2>3. req' = [req EXCEPT ![r] = req'[r]]
    BY <1>1, <1>2 DEF TreeOK
  <2> QED
    BY <1>2, <2>2, <2>3 DEF TreeOK
<1>8. TreeOK'
  BY <1>1, <1>2, <1>3, <1>7 DEF TreeOK
<1>9. /\ \A b \in Agents : bundle[b].read \in Nat /\ bundle'[b].read \in Nat
      /\ \A b \in Agents \ {a} : bundle'[b] = bundle[b]
      /\ loaded => bundle'[a].read = writes /\ bundle'[a].shown = LoadSkills(disk, a)
      /\ ~loaded => bundle'[a] = bundle[a]
      /\ writes \in Nat /\ \A q \in Requests : req[q].at \in Nat
  BY <1>1, <1>2, <1>3 DEF TreeOK, Bundles, LoadBundle, RequestStates
<1>10. ViewIsOfItsRevision'
  BY <1>1, <1>9 DEF ViewInv, ViewIsOfItsRevision
<1>11. LastWriterAsked'
  <2> SUFFICES ASSUME NEW b \in Agents, bundle'[b].read < writes
               PROVE  \E q \in Requests : req'[q].phase # "idle" /\ req'[q].at = writes
    BY <1>1 DEF LastWriterAsked
  <2>1. bundle[b].read < writes
    BY <1>9 DEF ViewInv, ViewIsOfItsRevision
  <2> QED
    BY <1>4, <2>1 DEF ViewInv, LastWriterAsked
<1>12. RequestsReachOrReport'
  <2> SUFFICES ASSUME NEW q \in Requests, req'[q].phase # "idle"
               PROVE  /\ req'[q].at <= writes'
                      /\ \A b \in Agents : bundle'[b].read >= req'[q].at \/ Overdue(q, b)'
    BY DEF RequestsReachOrReport
  <2>1. /\ req[q].phase # "idle" /\ req[q].at <= writes
        /\ \A b \in Agents : bundle[b].read >= req[q].at \/ Overdue(q, b)
    BY <1>4 DEF ViewInv, RequestsReachOrReport
  <2>2. ASSUME NEW b \in Agents, b # a
        PROVE  bundle'[b].read >= req'[q].at \/ Overdue(q, b)'
    <3>1. bundle'[b].read = bundle[b].read
      BY <1>9, <2>2
    <3>2. CASE Overdue(q, b)
      BY <1>4, <2>2, <3>1, <3>2 DEF Overdue
    <3> QED
      BY <1>4, <2>1, <3>1, <3>2
  <2>3. ASSUME loaded
        PROVE  bundle'[a].read >= req'[q].at \/ Overdue(q, a)'
    BY <1>4, <1>9, <2>1, <2>3
  <2>4. ASSUME ~loaded
        PROVE  bundle'[a].read >= req'[q].at \/ Overdue(q, a)'
    <3>1. bundle'[a] = bundle[a]
      BY <1>9, <2>4
    <3>2. CASE bundle[a].read >= req[q].at
      BY <1>4, <3>1, <3>2
    <3>3. CASE Overdue(q, a) /\ q # r
      BY <1>4, <3>1, <3>3 DEF Overdue
    <3>4. CASE Overdue(q, a) /\ q = r
      BY <1>1, <1>4, <1>5, <2>4, <3>1, <3>4 DEF Overdue
    <3> QED
      BY <2>1, <3>2, <3>3, <3>4
  <2> QED
    BY <1>1, <1>4, <2>1, <2>2, <2>3, <2>4
<1> QED
  BY <1>8, <1>10, <1>11, <1>12 DEF ViewInv

LEMMA StartingKeepsView ==
    ASSUME ViewInv, NEW a \in Agents, AdapterStarts(a)
    PROVE  ViewInv'
<1>1. /\ up' = up \cup {a} /\ bundle' = [bundle EXCEPT ![a] = LoadBundle(a)]
      /\ UNCHANGED <<disk, writes, req>>
  BY DEF AdapterStarts
<1>2. TreeOK /\ LoadBundle(a) \in Bundles
  BY LoadedTyped DEF ViewInv
<1>3. TreeOK'
  BY <1>1, <1>2 DEF TreeOK
<1>4. /\ \A b \in Agents : bundle[b].read \in Nat /\ bundle'[b].read \in Nat
      /\ \A b \in Agents \ {a} : bundle'[b] = bundle[b]
      /\ bundle'[a].read = writes /\ bundle'[a].shown = LoadSkills(disk, a)
      /\ writes \in Nat /\ \A q \in Requests : req[q].at \in Nat
  BY <1>1, <1>2, <1>3 DEF TreeOK, Bundles, LoadBundle, RequestStates
<1>5. ViewIsOfItsRevision'
  BY <1>1, <1>4 DEF ViewInv, ViewIsOfItsRevision
<1>6. LastWriterAsked'
  BY <1>1, <1>4 DEF ViewInv, LastWriterAsked
<1>7. RequestsReachOrReport'
  <2> SUFFICES ASSUME NEW q \in Requests, req[q].phase # "idle", NEW b \in Agents
               PROVE  /\ req[q].at <= writes
                      /\ bundle'[b].read >= req[q].at \/ Overdue(q, b)'
    BY <1>1 DEF RequestsReachOrReport, ViewInv
  <2>1. /\ req[q].at <= writes
        /\ bundle[b].read >= req[q].at \/ Overdue(q, b)
    BY DEF ViewInv, RequestsReachOrReport
  <2>2. CASE b = a
    BY <1>4, <2>1, <2>2
  <2>3. CASE b # a
    BY <1>1, <1>4, <2>1, <2>3 DEF Overdue
  <2> QED
    BY <2>1, <2>2, <2>3
<1> QED
  BY <1>3, <1>5, <1>6, <1>7 DEF ViewInv

LEMMA NothingKeepsView ==
    ASSUME ViewInv, UNCHANGED <<disk, writes, bundle, req>>, up' \subseteq up
    PROVE  ViewInv'
BY DEF ViewInv, TreeOK, ViewIsOfItsRevision, RequestsReachOrReport, LastWriterAsked, Overdue

(* A step writes the tree or is an operation that does not.                *)
LEMMA StepKinds ==
    ASSUME TreeOK, SkillsStep
    PROVE  \/ \E r \in Requests, s \in Skills : TreeChanges(r, s)
           \/ \E r \in Requests : ReloadAll(r) \/ FinishBroadcast(r)
           \/ \E r \in Requests, a \in Agents, outcome \in {"heard", "unheard", "missed"} :
                Reload(r, a, outcome)
           \/ \E a \in Agents : AdapterStops(a) \/ AdapterStarts(a)
<1>1. ASSUME NEW r \in Requests, NEW s \in Skills, NEW kind \in {"good", "broken"},
             NEW agents \in Lists,
             CreateOrReplace(r, s, agents, kind) \/ ImportSkill(r, s, agents, kind)
      PROVE  TreeChanges(r, s)
  <2>1. agents \in SUBSET (Agents \cup {Star})
    BY SkillsAssumption
  <2> QED
    BY <1>1, <2>1, SavingChanges DEF CreateOrReplace, ImportSkill, WriteSkill
<1>2. ASSUME NEW r \in Requests, NEW s \in Skills, NEW kind \in {"good", "broken"},
             NEW a \in Agents, Detach(r, s, a, kind) \/ Attach(r, s, a, kind)
      PROVE  TreeChanges(r, s)
  <2>1. /\ Listed(disk[s]) \cup {a} \in SUBSET (Agents \cup {Star})
        /\ DetachedList(disk[s], a) \in SUBSET (Agents \cup {Star})
    BY ListsOfAgents
  <2> QED
    BY <1>2, <2>1, SavingChanges DEF Detach, Attach, WriteSkill
<1> QED
  BY <1>1, <1>2, DeletingChanges DEF SkillsStep

LEMMA ViewStep == ASSUME ViewInv, SkillsStep PROVE ViewInv'
<1>1. TreeOK
  BY DEF ViewInv
<1>2. ASSUME NEW a \in Agents, AdapterStops(a)
      PROVE  ViewInv'
  BY <1>2, NothingKeepsView DEF AdapterStops
<1> QED
  BY <1>1, <1>2, StepKinds, ChangingKeepsView, ReloadAllKeepsView, FinishingKeepsView,
     ReloadingKeepsView, StartingKeepsView

LEMMA ViewInvariant == SkillsSpec => []ViewInv
<1>1. ViewInv /\ UNCHANGED skillsVars => ViewInv'
  BY NothingKeepsView DEF skillsVars
<1> QED
  BY ViewInit, ViewStep, <1>1, PTL DEF SkillsSpec

LEMMA ViewExplainsStaleness == ASSUME ViewInv PROVE StaleBundleIsReported
<1> SUFFICES ASSUME NEW a \in up, bundle[a].shown # LoadSkills(disk, a)
             PROVE  \E r \in Requests : Overdue(r, a)
  BY DEF StaleBundleIsReported
<1>1. a \in Agents /\ bundle[a].read \in Nat /\ writes \in Nat
  BY DEF ViewInv, TreeOK, Bundles
<1>2. bundle[a].read < writes
  BY <1>1 DEF ViewInv, ViewIsOfItsRevision
<1>3. PICK r \in Requests : req[r].phase # "idle" /\ req[r].at = writes
  BY <1>1, <1>2 DEF ViewInv, LastWriterAsked
<1>4. ~(bundle[a].read >= req[r].at)
  BY <1>1, <1>2, <1>3
<1> QED
  BY <1>1, <1>3, <1>4 DEF ViewInv, RequestsReachOrReport

(* However requests, broadcasts, lost answers, broken manifests and        *)
(* restarts of adapters interleave: an adapter that shows an old catalogue *)
(* is still to be reached, or a broadcast has said that it was not.        *)
THEOREM StalenessIsReported == SkillsSpec => []StaleBundleIsReported
BY ViewInvariant, ViewExplainsStaleness, PTL

-----------------------------------------------------------------------------
(* Detached skills.                                                        *)

LEMMA OffTyped ==
    ASSUME SkillsOK, SkillsStep
    PROVE  off' \in [Skills -> SUBSET Agents]
<1> USE DEF SkillsOK
<1>1. ASSUME NEW r \in Requests, NEW s \in Skills, NEW a \in Agents, NEW kind \in {"good", "broken"},
             Detach(r, s, a, kind) \/ Attach(r, s, a, kind)
      PROVE  off' \in [Skills -> SUBSET Agents]
  BY <1>1 DEF Detach, Attach
<1>2. ASSUME NEW r \in Requests, NEW s \in Skills, NEW agents \in Lists,
             NEW kind \in {"good", "broken"},
             CreateOrReplace(r, s, agents, kind) \/ ImportSkill(r, s, agents, kind)
      PROVE  off' \in [Skills -> SUBSET Agents]
  BY <1>2 DEF CreateOrReplace, ImportSkill
<1>3. ASSUME NEW r \in Requests, NEW s \in Skills, DeleteSkill(r, s)
      PROVE  off' \in [Skills -> SUBSET Agents]
  BY <1>3 DEF DeleteSkill
<1>4. UNCHANGED off => off' \in [Skills -> SUBSET Agents]
  OBVIOUS
<1> HIDE DEF SkillsOK
<1> QED
  BY <1>1, <1>2, <1>3, <1>4
     DEF SkillsStep, ReloadAll, FinishBroadcast, Reload, AdapterStops, AdapterStarts

DetachInv == SkillsOK /\ DetachmentsHold

(* The list that is written spares those who were off it already, and is   *)
(* not empty, which would put them all on again.                           *)
LEMMA WritingKeepsDetachments ==
    ASSUME DetachInv, NEW r \in Requests, NEW s \in Skills, NEW kind \in {"good", "broken"},
           NEW a \in Agents, Detach(r, s, a, kind) \/ Attach(r, s, a, kind)
    PROVE  DetachmentsHold'
<1> DEFINE L == IF Detach(r, s, a, kind) THEN DetachedList(disk[s], a)
                ELSE Listed(disk[s]) \cup {a}
<1>1. SkillsOK /\ disk[s].kind = "good"
  BY DEF DetachInv, Detach, Attach
<1>2. /\ disk' = [disk EXCEPT ![s] = [[kind |-> kind, agents |-> L, rev |-> 0]
                                       EXCEPT !.rev = writes + 1]]
      /\ \A b \in off'[s] : b \in Agents /\ b \notin L /\ Star \notin L /\ L # {}
  <2>1. \A b \in off[s] : b \in Agents /\ {Star, b} \cap Listed(disk[s]) = {}
    BY <1>1 DEF DetachInv, DetachmentsHold, MatchesAgent, SkillsOK
  <2>2. CASE Detach(r, s, a, kind)
    <3>1. L = DetachedList(disk[s], a) /\ WriteSkill(r, s, L, kind)
      BY <2>2 DEF Detach
    <3>2. off' = [off EXCEPT ![s] = IF L = {} THEN {} ELSE @ \cup {a}]
      BY <2>2, <3>1 DEF Detach
    <3>3. a \notin L /\ Star \notin L
      BY <3>1, SkillsAssumption DEF DetachedList
    <3>4. off[s] # {} => Star \notin Listed(disk[s])
      BY <2>1
    <3>5. \A b \in off[s] : b \notin L
      BY <2>1, <3>1, <3>4 DEF DetachedList
    <3> HIDE DEF L
    <3> QED
      BY <1>1, <2>1, <3>1, <3>2, <3>3, <3>5 DEF WriteSkill, Save, SkillsOK
  <2>3. CASE ~Detach(r, s, a, kind)
    <3>1. L = Listed(disk[s]) \cup {a} /\ WriteSkill(r, s, L, kind)
      BY <2>3 DEF Attach
    <3>2. off' = [off EXCEPT ![s] = @ \ {a}]
      BY <2>3 DEF Attach
    <3>3. \A b \in off[s] \ {a} : b \in Agents /\ b \notin L /\ Star \notin L /\ L # {}
      BY <2>1, <3>1, SkillsAssumption
    <3> HIDE DEF L
    <3> QED
      BY <1>1, <3>1, <3>2, <3>3 DEF WriteSkill, Save, SkillsOK
  <2> QED
    BY <2>2, <2>3
<1> HIDE DEF L
<1>3. disk'[s].agents = L
  BY <1>1, <1>2 DEF SkillsOK
<1>4. \A b \in off'[s] : ~MatchesAgent(disk'[s], b)
  BY <1>2, <1>3 DEF MatchesAgent, Listed
<1>5. \A t \in Skills \ {s} : disk'[t] = disk[t] /\ off'[t] = off[t]
  BY <1>1, <1>2 DEF SkillsOK, Detach, Attach
<1> QED
  BY <1>4, <1>5 DEF DetachInv, DetachmentsHold

LEMMA SettingKeepsDetachments ==
    ASSUME DetachInv, NEW s \in Skills, NEW m, disk' = [disk EXCEPT ![s] = m],
           off' = [off EXCEPT ![s] = {}]
    PROVE  DetachmentsHold'
BY DEF DetachInv, DetachmentsHold, SkillsOK

LEMMA DetachStep == ASSUME DetachInv, SkillsStep PROVE DetachmentsHold'
<1>1. ASSUME NEW r \in Requests, NEW s \in Skills, NEW agents \in Lists,
             NEW kind \in {"good", "broken"},
             CreateOrReplace(r, s, agents, kind) \/ ImportSkill(r, s, agents, kind)
      PROVE  DetachmentsHold'
  BY <1>1, SettingKeepsDetachments DEF CreateOrReplace, ImportSkill, WriteSkill, Save
<1>2. ASSUME NEW r \in Requests, NEW s \in Skills, DeleteSkill(r, s)
      PROVE  DetachmentsHold'
  BY <1>2, SettingKeepsDetachments DEF DeleteSkill
<1>3. ASSUME UNCHANGED <<disk, off>>
      PROVE  DetachmentsHold'
  BY <1>3 DEF DetachInv, DetachmentsHold
<1> QED
  BY <1>1, <1>2, <1>3, WritingKeepsDetachments
     DEF SkillsStep, ReloadAll, FinishBroadcast, Reload, AdapterStops, AdapterStarts

LEMMA DetachInit == InitSkills => DetachInv
<1>1. InitSkills => SkillsOK
  BY ViewInit DEF ViewInv, TreeOK, SkillsOK, InitSkills
<1> QED
  BY <1>1 DEF InitSkills, DetachInv, DetachmentsHold

LEMMA DetachInvariant == SkillsSpec => []DetachInv
<1>1. ViewInv /\ DetachInv /\ [SkillsStep]_skillsVars => (ViewInv /\ DetachInv)'
  <2>1. ASSUME ViewInv, DetachInv, SkillsStep PROVE (ViewInv /\ DetachInv)'
    <3>1. ViewInv' /\ off' \in [Skills -> SUBSET Agents]
      BY <2>1, ViewStep, OffTyped DEF DetachInv
    <3>2. SkillsOK'
      BY <3>1 DEF ViewInv, TreeOK, SkillsOK
    <3> QED
      BY <2>1, <3>1, <3>2, DetachStep DEF DetachInv
  <2>2. ASSUME ViewInv, DetachInv, UNCHANGED skillsVars PROVE (ViewInv /\ DetachInv)'
    BY <2>2, NothingKeepsView DEF DetachInv, DetachmentsHold, SkillsOK, skillsVars
  <2> QED
    BY <2>1, <2>2
<1> QED
  BY ViewInit, DetachInit, <1>1, PTL DEF SkillsSpec

(* The state of the catalogue is well formed.                              *)
THEOREM SkillsTypeCorrect == SkillsSpec => []SkillsOK
BY DetachInvariant, PTL DEF DetachInv

(* A skill that was taken off an adapter stays off it, whatever is         *)
(* attached and detached elsewhere, for any adapters and any lists.        *)
THEOREM DetachmentsStay == SkillsSpec => []DetachmentsHold
BY DetachInvariant, PTL DEF DetachInv

-----------------------------------------------------------------------------
(* The cards.                                                              *)

FetchesAreHonest == \A f \in Fetches :
    /\ fetch[f].phase # "idle" => fetch[f].asked <= Version(fetch[f].agent)
    /\ fetch[f].phase \in {"answered", "skills"} /\ fetch[f].code = "200"
         => fetch[f].asked <= fetch[f].ver
    /\ fetch[f].phase = "answered" /\ fetch[f].code = "200"
         => fetch[f].etag = fetch[f].ver
    /\ fetch[f].phase = "answered" /\ fetch[f].code = "garbled" /\ fetch[f].etag # NoTag
         => fetch[f].etag = fetch[f].ver

CardInv == CardsOK /\ FetchesAreHonest /\ EtagNamesCard /\ CardIsAsFreshAsItsStamp

LEMMA CardInit == InitCards => CardInv
<1> SUFFICES ASSUME InitCards PROVE CardInv
  OBVIOUS
<1>1. NoFetch \in FetchStates
  <2>1. (CHOOSE a \in Carded : TRUE) \in Carded
    BY RegistryAssumption
  <2> QED
    BY <2>1 DEF NoFetch, FetchStates
<1>2. CardsOK
  BY <1>1 DEF InitCards, CardsOK, Entries, Cards
<1>3. FetchesAreHonest
  BY DEF InitCards, FetchesAreHonest, NoFetch
<1> QED
  BY <1>2, <1>3 DEF CardInv, InitCards, EtagNamesCard, CardIsAsFreshAsItsStamp

(* An adapter never goes back to an earlier revision.                      *)
LEMMA RevisionsGrow ==
    ASSUME ViewInv, SkillsStep, NEW b \in Agents
    PROVE  bundle'[b].read >= bundle[b].read
<1>1. bundle \in [Agents -> Bundles] /\ bundle[b].read \in Nat /\ writes \in Nat
      /\ bundle[b].read <= writes
  BY DEF ViewInv, TreeOK, Bundles, ViewIsOfItsRevision
<1>2. ASSUME NEW a \in Agents, bundle' = [bundle EXCEPT ![a] = LoadBundle(a)]
      PROVE  bundle'[b].read >= bundle[b].read
  BY <1>1, <1>2 DEF LoadBundle
<1>3. UNCHANGED bundle => bundle'[b].read >= bundle[b].read
  BY <1>1
<1>4. TreeOK
  BY DEF ViewInv
<1> QED
  BY <1>2, <1>3, <1>4, StepKinds
     DEF TreeChanges, ReloadAll, FinishBroadcast, Reload, AdapterStops, AdapterStarts

LEMMA CatalogueKeepsCards ==
    ASSUME CardInv, ViewInv, SkillsStep, UNCHANGED <<entry, fetch>>, native' \subseteq Carded
    PROVE  CardInv'
<1>1. \A f \in Fetches : fetch[f].agent \in Agents /\ fetch[f].asked \in Nat
  BY RegistryAssumption DEF CardInv, CardsOK, FetchStates
<1>2. ViewInv' /\ \A b \in Agents : /\ bundle'[b].read >= bundle[b].read
                                   /\ bundle[b].read \in Nat /\ bundle'[b].read \in Nat
  BY RevisionsGrow, ViewStep DEF ViewInv, TreeOK, Bundles
<1>3. FetchesAreHonest'
  BY <1>1, <1>2 DEF CardInv, FetchesAreHonest, Version
<1> QED
  BY <1>3 DEF CardInv, CardsOK, EtagNamesCard, CardIsAsFreshAsItsStamp

LEMMA AskingKeepsCards ==
    ASSUME CardInv, ViewInv, UNCHANGED skillsVars,
           NEW f \in Fetches, NEW a \in Carded, NEW force \in BOOLEAN, Ask(f, a, force)
    PROVE  CardInv'
<1> DEFINE F == [NoFetch EXCEPT !.phase = "asking", !.agent = a,
                    !.tag = IF force THEN NoTag ELSE entry[a].etag, !.asked = Version(a)]
<1>1. /\ fetch' = [fetch EXCEPT ![f] = F] /\ UNCHANGED <<native, entry, bundle>>
  BY DEF Ask, skillsVars
<1>2. Version(a) \in Nat
  BY RegistryAssumption DEF Version, ViewInv, TreeOK, Bundles
<1>3. entry[a].etag \in Nat \cup {NoTag}
  BY DEF CardInv, CardsOK, Entries
<1>4. F \in FetchStates /\ F.asked = Version(a) /\ F.agent = a /\ F.phase = "asking"
  BY <1>2, <1>3 DEF NoFetch, FetchStates
<1> HIDE DEF F
<1>5. CardsOK'
  BY <1>1, <1>4 DEF CardInv, CardsOK
<1>6. FetchesAreHonest'
  <2>1. \A g \in Fetches : fetch'[g] = IF g = f THEN F ELSE fetch[g]
    BY <1>1 DEF CardInv, CardsOK
  <2> QED
    BY <1>1, <1>2, <1>4, <2>1 DEF CardInv, FetchesAreHonest, Version
<1> QED
  BY <1>1, <1>5, <1>6 DEF CardInv, EtagNamesCard, CardIsAsFreshAsItsStamp

LEMMA ServingKeepsCards ==
    ASSUME CardInv, ViewInv, UNCHANGED skillsVars,
           NEW f \in Fetches, Serve(f) \/ ServeSkills(f)
    PROVE  CardInv'
<1> DEFINE a == fetch[f].agent
           v == Version(a)
<1>1. /\ fetch \in [Fetches -> FetchStates] /\ UNCHANGED <<native, entry, bundle>>
      /\ fetch[f].phase # "idle"
  BY DEF CardInv, CardsOK, Serve, ServeSkills, skillsVars
<1>2. v \in Nat /\ fetch[f].asked \in Nat /\ fetch[f].asked <= v
  BY <1>1, RegistryAssumption
     DEF Version, ViewInv, TreeOK, Bundles, CardInv, FetchesAreHonest, FetchStates
<1>3. PICK phase \in {"answered", "skills"}, code \in {"none", "200", "304", "404", "error", "garbled"},
           ver \in Nat, etag \in Nat \cup {NoTag} :
        /\ Responds(f, phase, code, ver, etag)
        /\ code = "200" => ver = v /\ (phase = "answered" => etag = v)
        /\ code = "garbled" /\ etag # NoTag => etag = ver
  <2>1. CASE Serve(f)
    BY <1>2, <2>1 DEF Serve
  <2>2. CASE ServeSkills(f)
    BY <1>2, <2>2 DEF ServeSkills
  <2> QED
    BY <2>1, <2>2
<1> DEFINE F == [fetch[f] EXCEPT !.phase = phase, !.code = code, !.tag = NoTag,
                                 !.ver = ver, !.etag = etag]
<1>4. /\ F \in FetchStates /\ F.agent = a /\ F.asked = fetch[f].asked
      /\ F.phase = phase /\ F.code = code /\ F.ver = ver /\ F.etag = etag
  <2>1. fetch[f] \in FetchStates
    BY <1>1
  <2> QED
    BY <2>1 DEF FetchStates
<1>5. fetch' = [fetch EXCEPT ![f] = F]
  BY <1>3 DEF Responds
<1> HIDE DEF F
<1>6. \A g \in Fetches : fetch'[g] = IF g = f THEN F ELSE fetch[g]
  BY <1>1, <1>5
<1>7. CardsOK'
  BY <1>1, <1>4, <1>5 DEF CardInv, CardsOK
<1>8. FetchesAreHonest'
  BY <1>1, <1>2, <1>3, <1>4, <1>6 DEF CardInv, FetchesAreHonest, Version
<1> QED
  BY <1>1, <1>7, <1>8 DEF CardInv, EtagNamesCard, CardIsAsFreshAsItsStamp

(* A fetch that ends leaves the others and puts a card in the cache.       *)
LEMMA StoringKeepsCards ==
    ASSUME CardInv, UNCHANGED skillsVars, UNCHANGED native, NEW f \in Fetches,
           NEW how \in Cards, NEW ver \in Nat, NEW etag \in Nat \cup {NoTag},
           Store(f, how, ver, etag),
           etag # NoTag => how \in {"native", "garbled", "none"} /\ etag = ver,
           how \in {"native", "synthetic"} => ver >= fetch[f].asked
    PROVE  CardInv'
<1> DEFINE E == [how |-> how, ver |-> ver, etag |-> etag, stamp |-> fetch[f].asked,
                 validated |-> FALSE]
           a == fetch[f].agent
<1>1. /\ fetch \in [Fetches -> FetchStates] /\ entry \in [Carded -> Entries]
      /\ a \in Carded /\ fetch[f].asked \in Nat /\ UNCHANGED bundle
  BY DEF CardInv, CardsOK, FetchStates, skillsVars
<1>2. E \in Entries
  BY <1>1 DEF Entries
<1>3. NoFetch \in FetchStates /\ NoFetch.phase = "idle"
  <2>1. (CHOOSE c \in Carded : TRUE) \in Carded
    BY RegistryAssumption
  <2> QED
    BY <2>1 DEF NoFetch, FetchStates
<1>4. entry' = [entry EXCEPT ![a] = E] /\ fetch' = [fetch EXCEPT ![f] = NoFetch]
  BY DEF Store
<1>5. CardsOK'
  BY <1>1, <1>2, <1>3, <1>4 DEF CardInv, CardsOK
<1>6. FetchesAreHonest'
  <2>1. \A g \in Fetches : fetch'[g] = IF g = f THEN NoFetch ELSE fetch[g]
    BY <1>1, <1>4
  <2> QED
    BY <1>1, <1>3, <2>1 DEF CardInv, FetchesAreHonest, Version
<1>7. \A c \in Carded : entry'[c] = IF c = a THEN E ELSE entry[c]
  BY <1>1, <1>4
<1>8. EtagNamesCard'
  BY <1>7 DEF CardInv, EtagNamesCard
<1>9. CardIsAsFreshAsItsStamp'
  BY <1>7 DEF CardInv, CardIsAsFreshAsItsStamp
<1> QED
  BY <1>5, <1>6, <1>8, <1>9 DEF CardInv

LEMMA ReceivingKeepsCards ==
    ASSUME CardInv, UNCHANGED skillsVars, NEW f \in Fetches, Receive(f)
    PROVE  CardInv'
<1> DEFINE a == fetch[f].agent
<1>1. /\ fetch \in [Fetches -> FetchStates] /\ entry \in [Carded -> Entries]
      /\ fetch[f] \in FetchStates /\ a \in Carded /\ UNCHANGED <<bundle, native>>
      /\ fetch[f].phase = "answered"
  BY DEF CardInv, CardsOK, FetchStates, skillsVars, Receive
<1>2. /\ fetch[f].asked <= Version(a)
      /\ fetch[f].code = "200" => /\ fetch[f].asked <= fetch[f].ver
                                  /\ fetch[f].etag = fetch[f].ver
      /\ fetch[f].code = "garbled" /\ fetch[f].etag # NoTag => fetch[f].etag = fetch[f].ver
  BY <1>1 DEF CardInv, FetchesAreHonest
<1>3. /\ fetch[f].asked \in Nat /\ fetch[f].ver \in Nat /\ fetch[f].etag \in Nat \cup {NoTag}
  BY <1>1 DEF FetchStates
<1>4. NoFetch \in FetchStates /\ NoFetch.phase = "idle"
  <2>1. (CHOOSE c \in Carded : TRUE) \in Carded
    BY RegistryAssumption
  <2> QED
    BY <2>1 DEF NoFetch, FetchStates
<1>5. CASE /\ entry' = [entry EXCEPT ![a].stamp = fetch[f].asked, ![a].validated = TRUE]
           /\ fetch' = [fetch EXCEPT ![f] = NoFetch]
  <2>1. \A c \in Carded : entry'[c] = IF c = a THEN [entry[c] EXCEPT !.stamp = fetch[f].asked,
                                                                     !.validated = TRUE]
                                      ELSE entry[c]
    BY <1>1, <1>5
  <2>2. /\ entry'[a] \in Entries /\ entry'[a].how = entry[a].how
        /\ entry'[a].ver = entry[a].ver /\ entry'[a].etag = entry[a].etag
        /\ entry'[a].validated
    <3>1. entry[a] \in Entries
      BY <1>1
    <3> QED
      BY <1>1, <1>3, <2>1, <3>1 DEF Entries
  <2>3. entry' \in [Carded -> Entries]
    <3>1. entry' = [entry EXCEPT ![a] = entry'[a]]
      BY <1>1, <1>5
    <3> QED
      BY <1>1, <2>2, <3>1
  <2>4. \A g \in Fetches : fetch'[g] = IF g = f THEN NoFetch ELSE fetch[g]
    BY <1>1, <1>5
  <2>5. CardsOK'
    BY <1>1, <1>4, <1>5, <2>3 DEF CardInv, CardsOK
  <2>6. FetchesAreHonest'
    BY <1>1, <1>4, <2>4 DEF CardInv, FetchesAreHonest, Version
  <2>7. EtagNamesCard'
    BY <2>1, <2>2 DEF CardInv, EtagNamesCard
  <2>8. CardIsAsFreshAsItsStamp'
    BY <2>1, <2>2 DEF CardInv, CardIsAsFreshAsItsStamp
  <2> QED
    BY <2>5, <2>6, <2>7, <2>8 DEF CardInv
<1>6. CASE fetch[f].code = "200" /\ Store(f, "native", fetch[f].ver, fetch[f].etag)
  BY <1>1, <1>2, <1>3, <1>6, StoringKeepsCards DEF Cards
<1>7. CASE \E how \in {"none", "garbled"} :
              fetch[f].code = "garbled" /\ Store(f, how, fetch[f].ver, fetch[f].etag)
  BY <1>1, <1>2, <1>3, <1>7, StoringKeepsCards DEF Cards
<1>8. CASE UNCHANGED entry /\ Responds(f, "asking skills", "none", 0, NoTag)
  <2> DEFINE F == [fetch[f] EXCEPT !.phase = "asking skills", !.code = "none",
                      !.tag = NoTag, !.ver = 0, !.etag = NoTag]
  <2>1. F \in FetchStates /\ F.agent = a /\ F.asked = fetch[f].asked /\ F.phase = "asking skills"
    BY <1>1 DEF FetchStates
  <2>2. fetch' = [fetch EXCEPT ![f] = F]
    BY <1>8 DEF Responds
  <2> HIDE DEF F
  <2>3. \A g \in Fetches : fetch'[g] = IF g = f THEN F ELSE fetch[g]
    BY <1>1, <2>2
  <2>4. FetchesAreHonest'
    BY <1>1, <1>2, <2>1, <2>3 DEF CardInv, FetchesAreHonest, Version
  <2> QED
    BY <1>1, <1>8, <2>1, <2>2, <2>4
       DEF CardInv, CardsOK, EtagNamesCard, CardIsAsFreshAsItsStamp
<1>9. CASE UNCHANGED entry /\ fetch' = [fetch EXCEPT ![f] = NoFetch]
  <2>1. \A g \in Fetches : fetch'[g] = IF g = f THEN NoFetch ELSE fetch[g]
    BY <1>1, <1>9
  <2>2. FetchesAreHonest'
    BY <1>1, <1>4, <2>1 DEF CardInv, FetchesAreHonest, Version
  <2> QED
    BY <1>1, <1>4, <1>9, <2>2 DEF CardInv, CardsOK, EtagNamesCard, CardIsAsFreshAsItsStamp
<1> QED
  BY <1>5, <1>6, <1>7, <1>8, <1>9 DEF Receive

LEMMA SynthesisKeepsCards ==
    ASSUME CardInv, UNCHANGED skillsVars, NEW f \in Fetches, Synthesise(f)
    PROVE  CardInv'
<1> DEFINE how == IF fetch[f].code = "200" THEN "synthetic" ELSE "bare"
<1>1. /\ fetch[f] \in FetchStates /\ fetch[f].phase = "skills" /\ UNCHANGED native
      /\ Store(f, how, fetch[f].ver, NoTag)
  BY DEF CardInv, CardsOK, Synthesise
<1>2. how \in {"native", "synthetic"} => fetch[f].ver >= fetch[f].asked
  BY <1>1 DEF CardInv, FetchesAreHonest, FetchStates
<1>3. how \in Cards /\ fetch[f].ver \in Nat
  BY <1>1 DEF Cards, FetchStates
<1> HIDE DEF how
<1> QED
  BY <1>1, <1>2, <1>3, StoringKeepsCards

LEMMA CardStepKeeps == ASSUME CardInv, ViewInv, CardStep, UNCHANGED skillsVars PROVE CardInv'
BY AskingKeepsCards, ServingKeepsCards, ReceivingKeepsCards, SynthesisKeepsCards DEF CardStep

(* A rebuild is for the catalogue the start of an adapter.                 *)
LEMMA RebuildingStarts ==
    ASSUME CardInv, NEW a \in Carded, Rebuild(a)
    PROVE  SkillsStep /\ UNCHANGED <<entry, fetch>> /\ native' \subseteq Carded
BY RegistryAssumption DEF Rebuild, SkillsStep, CardInv, CardsOK

LEMMA CardInvariant == CardsSpec => [](ViewInv /\ CardInv)
<1>1. ASSUME ViewInv, CardInv, RegistryStep PROVE (ViewInv /\ CardInv)'
  <2>1. CASE SkillsStep /\ UNCHANGED cardVars
    <3>1. UNCHANGED <<entry, fetch>> /\ native' \subseteq Carded
      BY <1>1, <2>1 DEF cardVars, CardInv, CardsOK
    <3> QED
      BY <1>1, <2>1, <3>1, ViewStep, CatalogueKeepsCards
  <2>2. CASE CardStep /\ UNCHANGED skillsVars
    BY <1>1, <2>2, CardStepKeeps, NothingKeepsView DEF skillsVars
  <2>3. CASE \E a \in Carded : Rebuild(a)
    BY <1>1, <2>3, RebuildingStarts, ViewStep, CatalogueKeepsCards
  <2> QED
    BY <1>1, <2>1, <2>2, <2>3 DEF RegistryStep
<1>2. ASSUME ViewInv, CardInv, UNCHANGED <<skillsVars, cardVars>> PROVE (ViewInv /\ CardInv)'
  BY <1>2, NothingKeepsView DEF skillsVars, cardVars, CardInv, CardsOK, FetchesAreHonest,
     EtagNamesCard, CardIsAsFreshAsItsStamp, Version
<1> QED
  BY ViewInit, CardInit, <1>1, <1>2, PTL DEF CardsSpec

(* The state of the registry's cache is well formed.                       *)
THEOREM CardsTypeCorrect == CardsSpec => []CardsOK
BY CardInvariant, PTL DEF CardInv

(* Whatever fetches overtake each other, the ETag kept is that of the card *)
(* kept.                                                                   *)
THEOREM EtagsNameCards == CardsSpec => []EtagNamesCard
BY CardInvariant, PTL DEF CardInv

(* A card in the cache that no 304 stamped says at least what its adapter  *)
(* knew when the stamp was taken.                                          *)
THEOREM CardsAreAsFreshAsStamped == CardsSpec => []CardIsAsFreshAsItsStamp
BY CardInvariant, PTL DEF CardInv
=============================================================================
