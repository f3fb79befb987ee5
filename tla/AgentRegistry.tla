---------------------------- MODULE AgentRegistry ----------------------------
(***************************************************************************)
(* The card cache of the agent registry (agent-registry/server.py) in      *)
(* front of adapters that load skills.                                     *)
(*                                                                         *)
(* An adapter serves an Agent Card with an ETag ("native"), or only        *)
(* /v1/skills, from which the registry makes a card; that changes when it  *)
(* is started again in another build.  What a card says is the revision    *)
(* of the catalogue its adapter has loaded.  The time a card is stamped    *)
(* with is the revision its adapter had when `now` was read, so a card is  *)
(* older than its stamp when it says an earlier revision.                  *)
(***************************************************************************)
EXTENDS SkillsCatalogue

CONSTANTS
    Carded,     \* the adapters the registry lists (AGENT_REGISTRY_AGENTS)
    Fetches,    \* calls of _fetch_card that may be under way; a new one
                \* takes the lowest number that is free
    NoTag       \* no ETag

ASSUME RegistryAssumption ==
    /\ Carded \subseteq Agents /\ Carded # {}
    /\ Fetches \subseteq Nat /\ NoTag \notin Nat

VARIABLES
    native,     \* the adapters that serve a card of their own
    entry,      \* AgentEntry: the cached card, its ETag and its stamp
    fetch       \* each fetch: its adapter, what it asked, what came back

cardVars == <<native, entry, fetch>>

(* how: where the cached card comes from; "none" is the empty dict, which  *)
(* a body that is no JSON leaves behind as well.                           *)
Cards == {"none", "native", "synthetic", "bare", "garbled"}
Entries == [how : Cards, ver : Nat, etag : Nat \cup {NoTag}, stamp : Nat,
            validated : BOOLEAN]
FetchStates == [phase : {"idle", "asking", "answered", "asking skills", "skills"},
                agent : Carded, tag : Nat \cup {NoTag}, asked : Nat,
                code : {"none", "200", "304", "404", "error", "garbled"},
                ver : Nat, etag : Nat \cup {NoTag}]
NoFetch == [phase |-> "idle", agent |-> CHOOSE a \in Carded : TRUE, tag |-> NoTag,
            asked |-> 0, code |-> "none", ver |-> 0, etag |-> NoTag]

InitCards ==
    /\ native \in SUBSET Carded
    /\ entry = [a \in Carded |-> [how |-> "none", ver |-> 0, etag |-> NoTag, stamp |-> 0,
                                  validated |-> FALSE]]
    /\ fetch = [f \in Fetches |-> NoFetch]

-----------------------------------------------------------------------------
(* What the adapter says at the moment.                                    *)
Version(a) == bundle[a].read

(* _fetch_card up to its first await.  With a card younger than the TTL    *)
(* and no force it asks nobody and nothing changes.                        *)
Ask(f, a, force) ==
    /\ fetch[f].phase = "idle" /\ \A g \in Fetches : g < f => fetch[g].phase # "idle"
    /\ fetch' = [fetch EXCEPT ![f] = [NoFetch EXCEPT !.phase = "asking", !.agent = a,
                    !.tag = IF force THEN NoTag ELSE entry[a].etag, !.asked = Version(a)]]
    /\ UNCHANGED <<native, entry>>

Responds(f, phase, code, ver, etag) ==
    fetch' = [fetch EXCEPT ![f] = [@ EXCEPT !.phase = phase, !.code = code,
                                            !.tag = NoTag, !.ver = ver, !.etag = etag]]

(* The adapter answers, or the request fails on its way: an exception, a   *)
(* status nobody expects, or a body that is no card, which may come with   *)
(* the header of the adapter's own.                                        *)
Serve(f) ==
    LET a == fetch[f].agent
    IN /\ fetch[f].phase = "asking"
       /\ \/ /\ a \in up \cap native
             /\ IF fetch[f].tag = Version(a)
                THEN Responds(f, "answered", "304", 0, NoTag)
                ELSE \E code \in {"200", "garbled"} :
                         Responds(f, "answered", code, Version(a), Version(a))
          \/ a \in up \ native /\ Responds(f, "answered", "404", 0, NoTag)
          \/ Responds(f, "answered", "error", 0, NoTag)
          \/ Responds(f, "answered", "garbled", 0, NoTag)
       /\ UNCHANGED <<native, entry>>

Store(f, how, ver, etag) ==
    /\ entry' = [entry EXCEPT ![fetch[f].agent] =
           [how |-> how, ver |-> ver, etag |-> etag, stamp |-> fetch[f].asked,
            validated |-> FALSE]]
    /\ fetch' = [fetch EXCEPT ![f] = NoFetch]

(* Mutant of Receive: the stamp is taken when the answer arrives.          *)
ReceiveStampingLate(f) ==
    LET a == fetch[f].agent
    IN /\ fetch[f].phase = "answered" /\ fetch[f].code = "200"
       /\ entry' = [entry EXCEPT ![a] = [how |-> "native", ver |-> fetch[f].ver,
              etag |-> fetch[f].etag, stamp |-> Version(a), validated |-> FALSE]]
       /\ fetch' = [fetch EXCEPT ![f] = NoFetch]
       /\ UNCHANGED native

(* The registry takes the answer: 304 stamps the card it has, 200 replaces *)
(* card and ETag, 404 asks /v1/skills, all else leaves a stale card.       *)
Receive(f) ==
    LET a == fetch[f].agent
        code == fetch[f].code
    IN /\ fetch[f].phase = "answered"
       /\ \/ /\ code = "304" /\ entry[a].how # "none"
             /\ entry' = [entry EXCEPT ![a].stamp = fetch[f].asked, ![a].validated = TRUE]
             /\ fetch' = [fetch EXCEPT ![f] = NoFetch]
          \/ code = "200" /\ Store(f, "native", fetch[f].ver, fetch[f].etag)
          \/ \E how \in {"none", "garbled"} : code = "garbled"
                 /\ Store(f, how, fetch[f].ver, fetch[f].etag)
          \/ code = "404" /\ UNCHANGED entry /\ Responds(f, "asking skills", "none", 0, NoTag)
          \/ /\ code = "error" \/ (code = "304" /\ entry[a].how = "none")
             /\ UNCHANGED entry /\ fetch' = [fetch EXCEPT ![f] = NoFetch]
       /\ UNCHANGED native

(* GET /v1/skills, answered or not.                                        *)
ServeSkills(f) ==
    LET a == fetch[f].agent
    IN /\ fetch[f].phase = "asking skills"
       /\ \/ a \in up /\ Responds(f, "skills", "200", Version(a), NoTag)
          \/ Responds(f, "skills", "error", 0, NoTag)
       /\ UNCHANGED <<native, entry>>

(* Mutant of Synthesise: the ETag of the card before stays.                *)
SynthesiseKeepingTag(f) ==
    /\ fetch[f].phase = "skills"
    /\ Store(f, IF fetch[f].code = "200" THEN "synthetic" ELSE "bare", fetch[f].ver,
             entry[fetch[f].agent].etag)
    /\ UNCHANGED native

(* A synthetic card, without skills when they could not be had.            *)
Synthesise(f) ==
    /\ fetch[f].phase = "skills"
    /\ Store(f, IF fetch[f].code = "200" THEN "synthetic" ELSE "bare", fetch[f].ver, NoTag)
    /\ UNCHANGED native

(* An adapter comes up again in another build.                             *)
Rebuild(a) ==
    /\ a \in Carded
    /\ AdapterStarts(a)
    /\ \E mode \in {native \cup {a}, native \ {a}} : native' = mode
    /\ UNCHANGED <<entry, fetch>>

CardStep ==
    \E f \in Fetches :
        \/ \E a \in Carded, force \in BOOLEAN : Ask(f, a, force)
        \/ Serve(f) \/ Receive(f) \/ ServeSkills(f) \/ Synthesise(f)

(* The registry over the whole catalogue.                                  *)
RegistryStep ==
    \/ SkillsStep /\ UNCHANGED cardVars
    \/ CardStep /\ UNCHANGED skillsVars
    \/ \E a \in Carded : Rebuild(a)

CardsSpec == InitSkills /\ InitCards /\ [][RegistryStep]_<<skillsVars, cardVars>>

-----------------------------------------------------------------------------
CardsOK ==
    /\ native \subseteq Carded
    /\ entry \in [Carded -> Entries]
    /\ fetch \in [Fetches -> FetchStates]

(* The ETag kept came with what is kept: a 304 never stands for a card     *)
(* that the registry made itself, or for another answer than the one that  *)
(* brought the ETag, though fetches overtake each other and adapters       *)
(* change between cards of their own and none.  A body that is no card is  *)
(* kept with its ETag like any other.                                      *)
EtagNamesCard == \A a \in Carded : entry[a].etag # NoTag =>
    entry[a].how \in {"native", "garbled", "none"} /\ entry[a].ver = entry[a].etag

(* A card is no older than its stamp, and so at most the TTL behind when   *)
(* it is served from the cache, unless a 304 stamped it: by then a slower  *)
(* fetch may have put an older card in its place.                          *)
CardIsAsFreshAsItsStamp == \A a \in Carded :
    entry[a].how \in {"native", "synthetic"} /\ ~entry[a].validated
        => entry[a].ver >= entry[a].stamp
=============================================================================
