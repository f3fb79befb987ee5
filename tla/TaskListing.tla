---------------------------- MODULE TaskListing ----------------------------
(***************************************************************************)
(* list_tasks (a2a/task_store.py) and a client that follows its page       *)
(* tokens from the first page to the last while tasks come and change.     *)
(*                                                                         *)
(* Task ids are compared as strings where timestamps are equal; a task is  *)
(* a number here, for the order alone.  include_artifacts and the length   *)
(* of the history only trim what a page shows.                             *)
(***************************************************************************)
EXTENDS TaskStore

CONSTANT Filters    \* the queries a client makes: [states, after, size]

ASSUME ListingAssumption ==
    /\ Tasks \subseteq Nat
    /\ \A f \in Filters : f.size \in Nat \ {0} /\ f.after \in Nat

VARIABLE walk       \* the client: its query, its token, what it was shown

NoToken == <<>>
AnyState == Terminal \cup Active

InitWalk == walk = [phase |-> "idle", filter |-> CHOOSE f \in Filters : TRUE,
                    token |-> NoToken, shown |-> [t \in Tasks |-> 0], start |-> store.task]

-----------------------------------------------------------------------------
(* The sort key of a task, the cursor of a page token.                     *)
Key(st, t) == <<st.task[t].stamp, t>>

(* Mutant of Later: a cursor shows its own task again.                     *)
LaterOrSame(k, cursor) == k[1] > cursor[1] \/ (k[1] = cursor[1] /\ k[2] >= cursor[2])

Later(k, cursor) == k[1] > cursor[1] \/ (k[1] = cursor[1] /\ k[2] > cursor[2])

Matching(st, f) ==
    {t \in Live(st) : StateOf(st, t) \in f.states /\ st.task[t].stamp >= f.after}

(* The page behind a token: what matches and has fewer than a page of      *)
(* others before it.  The token of the next page is the last key, if the   *)
(* page is full and something matches behind it.                           *)
PageTasks(st, f, token) ==
    LET after == {t \in Matching(st, f) : token # NoToken => Later(Key(st, t), token)}
        ahead(t) == {u \in after \ {t} : Later(Key(st, t), Key(st, u))}
    IN {t \in after : Cardinality(ahead(t)) < f.size}

LastOf(st, page) ==
    CHOOSE t \in page : \A u \in page \ {t} : Later(Key(st, t), Key(st, u))

NextToken(st, f, page) ==
    IF Cardinality(page) < f.size THEN NoToken
    ELSE LET last == Key(st, LastOf(st, page))
         IN IF \E t \in Matching(st, f) : Later(Key(st, t), last) THEN last ELSE NoToken

(* GET /tasks without a token, and then with the token of the page before. *)
BeginWalk(f) ==
    /\ walk.phase = "idle"
    /\ walk' = [phase |-> "walking", filter |-> f, token |-> NoToken,
                shown |-> [t \in Tasks |-> 0], start |-> store.task]
    /\ UNCHANGED <<store, now>>

TurnPage ==
    LET page == PageTasks(store, walk.filter, walk.token)
        next == NextToken(store, walk.filter, page)
    IN /\ walk.phase = "walking"
       /\ walk' = [walk EXCEPT
              !.phase = IF next = NoToken THEN "done" ELSE "walking",
              !.token = next,
              !.shown = [t \in Tasks |-> walk.shown[t] + (IF t \in page THEN 1 ELSE 0)]]
       /\ UNCHANGED <<store, now>>

(* A client that pages while the callers of the store go on.               *)
ListingSpec ==
    /\ InitStore /\ InitWalk
    /\ [][\/ TurnPage \/ \E f \in Filters : BeginWalk(f)
          \/ StoreOperation /\ UNCHANGED walk]_<<store, now, walk>>

-----------------------------------------------------------------------------
(* Whatever else happens meanwhile, a walk shows every matching task that  *)
(* did not change exactly once, and ends; a task that changed has moved    *)
(* behind the cursor and may be shown again.                               *)
WalkIsExact == \A t \in Live(store) :
    LET steady == store.task[t] = walk.start[t] /\ t \in Matching(store, walk.filter)
    IN steady => CASE walk.phase = "done" -> walk.shown[t] = 1
                   [] OTHER -> walk.shown[t] <= 1
=============================================================================
