----------------------------- MODULE CardSigning -----------------------------
(***************************************************************************)
(* The signed Agent Card of an adapter: AgentCardManager, "thread-safe     *)
(* holder for the active Agent Card" (a2a/agent_card.py), and the key it   *)
(* signs with, kept in a file across restarts (a2a/jws.py).                *)
(*                                                                         *)
(* The file is written in two steps, truncation and contents, between      *)
(* which the process may die.  A signature is randomised, so every build   *)
(* gives a card with an ETag of its own; builds are numbered.  An extended *)
(* card is configured.                                                     *)
(***************************************************************************)
EXTENDS Naturals

CONSTANTS
    Threads,    \* the threads that call the manager, one call at a time
    NoThread,
    Generated,  \* the numbers of the keys that can be generated
    MaxBuilds   \* bound on the builds, for model checking

ASSUME SigningAssumption ==
    /\ NoThread \notin Threads
    /\ Generated \subseteq Nat \ {0} /\ MaxBuilds \in Nat

VARIABLES
    keyfile,    \* the private JWK on disk: "missing", "torn" or a key
    holder,     \* the process: its key, the two caches, the manager's lock
    user,       \* each thread: what it calls, where it is, what it got
    built,      \* the builds so far, over all starts
    promise     \* observed: the card of the last reload that has returned,
                \* the keys published while they were in the file, the keys
                \* in the file that a start could not read

signVars == <<keyfile, holder, user, built, promise>>

NoCard == [build |-> 0, key |-> 0]
Down == [up |-> FALSE, key |-> 0, cache |-> NoCard, extended |-> NoCard, lock |-> NoThread]
Away == [call |-> "none", at |-> "idle", card |-> NoCard, floor |-> 0, raced |-> FALSE]

InitSigning ==
    /\ keyfile = [is |-> "missing", key |-> 0]
    /\ holder = Down
    /\ user = [t \in Threads |-> Away]
    /\ built = 0
    /\ promise = [floor |-> 0, keys |-> {}, lost |-> {}]

-----------------------------------------------------------------------------
(* load_or_generate_keypair, at the start of the process.                  *)

Start(key) == holder' = [Down EXCEPT !.up = TRUE, !.key = key]

(* Mutant of LoadKey: the key that is read is not the one that is used.    *)
LoadKeyUnused ==
    /\ ~holder.up /\ keyfile.is = "key"
    /\ \E key \in Generated : Start(key)
    /\ promise' = [promise EXCEPT !.lost = @ \ {keyfile.key}]
    /\ UNCHANGED <<keyfile, user, built>>

LoadKey ==
    /\ ~holder.up /\ keyfile.is = "key"
    /\ Start(keyfile.key)
    /\ promise' = [promise EXCEPT !.lost = @ \ {keyfile.key}]
    /\ UNCHANGED <<keyfile, user, built>>

(* A missing or torn file is written anew, and so is a good one when       *)
(* reading it raises.  A write that fails leaves an ephemeral key; a       *)
(* process that dies in the middle a torn file.                            *)
GenerateKey(key) ==
    /\ ~holder.up
    /\ \/ keyfile' = [is |-> "key", key |-> key] /\ Start(key)
       \/ keyfile' \in {keyfile, [is |-> "torn", key |-> 0]} /\ Start(key)
       \/ keyfile' = [is |-> "torn", key |-> 0] /\ UNCHANGED holder
    /\ promise' = [promise EXCEPT !.lost =
           IF keyfile.is = "key" THEN @ \cup {keyfile.key} ELSE @]
    /\ UNCHANGED <<user, built>>

Crash ==
    /\ holder.up
    /\ holder' = Down /\ user' = [t \in Threads |-> Away]
    /\ promise' = [promise EXCEPT !.floor = 0]
    /\ UNCHANGED <<keyfile, built>>

(* A verifier fetches /.well-known/jwks.json and keeps it.                 *)
Publish ==
    /\ holder.up /\ keyfile = [is |-> "key", key |-> holder.key]
    /\ promise' = [promise EXCEPT !.keys = @ \cup {holder.key}]
    /\ UNCHANGED <<keyfile, holder, user, built>>

-----------------------------------------------------------------------------
(* The manager: cache, extended_cache and reload.                          *)

(* The first look, without the lock.                                       *)
Call(t, what) ==
    LET seen == IF what = "extended" THEN holder.extended ELSE holder.cache
    IN /\ holder.up /\ user[t].at \in {"idle", "returned"}
       /\ user' = [user EXCEPT ![t] = [Away EXCEPT !.call = what, !.floor = promise.floor,
              !.at = IF what # "reload" /\ seen # NoCard THEN "returning" ELSE "locking"]]
       /\ UNCHANGED <<keyfile, holder, built, promise>>

(* Mutant of MayEnter: a reload does not take the lock.                    *)
MayEnterToReload(t) == holder.lock = NoThread \/ user[t].call = "reload"

MayEnter(t) == holder.lock = NoThread

(* The second look, with the lock: somebody may have built it meanwhile.   *)
Acquires(t) ==
    LET seen == IF user[t].call = "extended" THEN holder.extended ELSE holder.cache
        build == user[t].call = "reload" \/ seen = NoCard
    IN /\ user[t].at = "locking" /\ MayEnter(t)
       /\ build => built < MaxBuilds
       /\ built' = IF build THEN built + 1 ELSE built
       /\ holder' = IF build THEN [holder EXCEPT !.lock = t] ELSE holder
       /\ user' = [user EXCEPT ![t] = [@ EXCEPT
              !.at = IF build THEN "building" ELSE "returning",
              !.card = IF build THEN [build |-> built + 1, key |-> holder.key]
                       ELSE user[t].card]]
       /\ UNCHANGED <<keyfile, promise>>

(* A reload drops the extended card; it is built again when it is asked    *)
(* for, and whoever is about to return it returns nothing.                 *)
Built(t) ==
    /\ user[t].at = "building"
    /\ holder' = [holder EXCEPT !.lock = NoThread,
           !.cache = IF user[t].call # "extended" THEN user[t].card ELSE @,
           !.extended = CASE user[t].call = "extended" -> user[t].card
                          [] user[t].call = "reload" -> NoCard
                          [] OTHER -> @]
    /\ user' = [u \in Threads |->
           IF u = t THEN [user[t] EXCEPT !.at = "returning"]
           ELSE [user[u] EXCEPT !.raced = @ \/ user[t].call = "reload"]]
    /\ UNCHANGED <<keyfile, built, promise>>

(* Whoever reads returns what is there by now.  The endpoint of the        *)
(* extended card takes the public one when there is none.                  *)
Return(t) ==
    LET card == IF user[t].call = "extended" THEN holder.extended ELSE holder.cache
    IN /\ user[t].at = "returning"
       /\ IF user[t].call = "extended" /\ card = NoCard
          THEN user' = [user EXCEPT ![t] = [@ EXCEPT !.call = "fallback", !.at =
                           IF holder.cache = NoCard THEN "locking" ELSE "returning"]]
          ELSE user' = [user EXCEPT ![t] = [@ EXCEPT !.at = "returned", !.card = card]]
       /\ promise' = IF user[t].call = "reload" /\ card.build > promise.floor
                     THEN [promise EXCEPT !.floor = card.build] ELSE promise
       /\ UNCHANGED <<keyfile, holder, built>>

SigningStep ==
    \/ LoadKey \/ Crash \/ Publish
    \/ \E key \in Generated : GenerateKey(key)
    \/ \E t \in Threads :
         \/ \E what \in {"cache", "extended", "reload"} : Call(t, what)
         \/ Acquires(t) \/ Built(t) \/ Return(t)

SigningSpec == InitSigning /\ [][SigningStep]_signVars

-----------------------------------------------------------------------------
(* What a verifier relies on, under any interleaving of threads: a card    *)
(* it is given is no older than the last reload it knows to have returned, *)
(* and is the extended one it asked for unless a reload came between.      *)
CardsAreCurrent == \A t \in Threads : user[t].at = "returned" =>
    /\ user[t].card.build >= user[t].floor
    /\ user[t].call = "fallback" => user[t].raced

(* Across all restarts, and crashes in the middle of a write, a card is    *)
(* signed with the key verifiers were given while it was in the file, but  *)
(* for a key that a start of the process could not read: from that start   *)
(* on, until one reads it again, cards carry another                       *)
(* (load_or_generate_keypair goes on with a new key, which it writes over  *)
(* the old one or keeps to itself).                                        *)
CardsAreTrusted == \A t \in Threads :
    user[t].at = "returned" => promise.keys \ promise.lost \subseteq {user[t].card.key}

(* jws.py:177 "generate + persist if missing", and 180-182 a persistent    *)
(* location "so verifiers can reuse a stable kid".                         *)
KidIsStable == holder.up => promise.keys \subseteq {holder.key}
=============================================================================
