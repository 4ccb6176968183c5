----------------------------- MODULE PageDesign -----------------------------
(***************************************************************************)
(* The page of an agent: services/agent_design_service.py behind           *)
(* gateway/api/v1/agent_design.py.  The page is a tree of components kept  *)
(* as one JSON column: a request reads the whole tree, changes its copy    *)
(* and writes the whole tree back, and nothing locks the row.              *)
(*                                                                         *)
(* A tree is the sequence of its nodes in preorder, each with its depth;   *)
(* the root is at 1 with depth 0.  The ids in it are the client's: they    *)
(* need not be unique.                                                     *)
(***************************************************************************)
EXTENDS Integers, Sequences, FiniteSets, FiniteSetsExt

CONSTANTS
    NodeIds,        \* the ids of components
    PageCalls,      \* the requests
    PageCallOf,     \* [PageCalls -> [kind, id, parent]]
    FirstPages      \* the pages an agent may have at the start; <<>> is none

VARIABLES
    page,           \* the page_schema stored
    pageAt,         \* [PageCalls -> "idle", "changing", "done" or "refused"]
    pageCopy,       \* [PageCalls -> the tree the request has parsed]
    verdict         \* [PageCalls -> the answer of a validation]

pageVars == <<page, pageAt, pageCopy, verdict>>

IsTree(t) ==
    /\ t \in Seq([id : NodeIds, depth : Nat, sound : BOOLEAN])
    /\ \A i \in 1 .. Len(t) : IF i = 1 THEN t[i].depth = 0 ELSE t[i].depth \in 1 .. t[i - 1].depth + 1

ASSUME PageAssumption ==
    /\ \A t \in FirstPages : IsTree(t)
    /\ \A c \in PageCalls : PageCallOf[c].id \in NodeIds

Node(id, depth, sound) == [id |-> id, depth |-> depth, sound |-> sound]
None == 0

Subtree(t, i) == {j \in i .. Len(t) : j = i \/ \A k \in i + 1 .. j : t[k].depth > t[i].depth}
Children(t, i) == {j \in Subtree(t, i) : t[j].depth = t[i].depth + 1}

\* A variant of Search that looks no further than the first child.
SearchFirst(t, own) ==
    LET find[i \in 1 .. Len(t)] ==
            IF own[i] # None \/ Children(t, i) = {} THEN own[i] ELSE find[Min(Children(t, i))]
    IN  IF t = <<>> THEN None ELSE find[1]
\* The recursion of _find_node and _remove_node: what the node has itself, or else what the first
\* child that finds something finds.
Search(t, own) ==
    LET find[i \in 1 .. Len(t)] ==
            LET hits == {j \in Children(t, i) : find[j] # None} IN
            IF own[i] # None THEN own[i]
            ELSE IF hits = {} THEN None ELSE find[Min(hits)]
    IN  IF t = <<>> THEN None ELSE find[1]

\* _find_node: the node itself.
Found(t, id) == Search(t, [i \in 1 .. Len(t) |-> IF t[i].id = id THEN i ELSE None])

\* _remove_node: the first child with the id.
Removed(t, id) ==
    Search(t, [i \in 1 .. Len(t) |->
                 LET own == {j \in Children(t, i) : t[j].id = id}
                 IN  IF own = {} THEN None ELSE Min(own)])

\* children.pop takes all that is under the child with it.
Without(t, i) ==
    LET last == Max(Subtree(t, i)) IN SubSeq(t, 1, i - 1) \o SubSeq(t, last + 1, Len(t))

\* parent.children.append: behind everything that is under the parent.
Appended(t, i, node) ==
    LET last == Max(Subtree(t, i)) IN SubSeq(t, 1, last) \o <<node>> \o SubSeq(t, last + 1, Len(t))

\* _validate_components: every component is sound, and no two children of one node have the same id.
Valid(t) ==
    \A i \in 1 .. Len(t) :
        /\ t[i].sound
        /\ \A j, k \in Children(t, i) : t[j].id = t[k].id => j = k

PageInit ==
    /\ page \in FirstPages
    /\ pageAt = [c \in PageCalls |-> "idle"]
    /\ pageCopy = [c \in PageCalls |-> <<>>]
    /\ verdict = [c \in PageCalls |-> "none"]

\* get_schema: a request on a component of an agent without a page is refused.
ReadsPage(c) ==
    /\ pageAt[c] = "idle" /\ PageCallOf[c].kind \in {"add", "update", "delete"}
    /\ pageCopy' = [pageCopy EXCEPT ![c] = page]
    /\ pageAt' = [pageAt EXCEPT ![c] = IF page = <<>> THEN "refused" ELSE "changing"]
    /\ UNCHANGED <<page, verdict>>

\* update_schema and the commit of the request's session.
Saves(c, t) ==
    /\ page' = t
    /\ pageAt' = [pageAt EXCEPT ![c] = "done"]
    /\ pageCopy' = [pageCopy EXCEPT ![c] = <<>>]
    /\ UNCHANGED verdict
RefusesPage(c) ==
    /\ pageAt' = [pageAt EXCEPT ![c] = "refused"]
    /\ pageCopy' = [pageCopy EXCEPT ![c] = <<>>]
    /\ UNCHANGED <<page, verdict>>

\* Without a parent the component is the whole new tree.
AddComponent(c) ==
    LET t == pageCopy[c]
        call == PageCallOf[c]
        parent == Found(t, call.parent)
    IN
    /\ pageAt[c] = "changing" /\ call.kind = "add"
    /\ IF call.parent = "no parent" THEN Saves(c, <<Node(call.id, 0, TRUE)>>)
       ELSE IF parent = None THEN RefusesPage(c)
       ELSE Saves(c, Appended(t, parent, Node(call.id, t[parent].depth + 1, TRUE)))

\* The new properties may leave an event without what it needs.
UpdateComponent(c) ==
    LET t == pageCopy[c]
        i == Found(t, PageCallOf[c].id)
    IN
    /\ pageAt[c] = "changing" /\ PageCallOf[c].kind = "update"
    /\ IF i = None THEN RefusesPage(c)
       ELSE \E sound \in BOOLEAN : Saves(c, [t EXCEPT ![i].sound = sound])

DeleteComponent(c) ==
    LET t == pageCopy[c]
        i == Removed(t, PageCallOf[c].id)
    IN
    /\ pageAt[c] = "changing" /\ PageCallOf[c].kind = "delete"
    /\ IF t[1].id = PageCallOf[c].id \/ i = None THEN RefusesPage(c)
       ELSE Saves(c, Without(t, i))

\* validate_design only reads; no page is valid too.
ValidatePage(c) ==
    /\ pageAt[c] = "idle" /\ PageCallOf[c].kind = "validate"
    /\ verdict' = [verdict EXCEPT ![c] = IF Valid(page) THEN "valid" ELSE "invalid"]
    /\ pageAt' = [pageAt EXCEPT ![c] = "done"]
    /\ UNCHANGED <<page, pageCopy>>

PageNext ==
    \E c \in PageCalls :
        ReadsPage(c) \/ AddComponent(c) \/ UpdateComponent(c) \/ DeleteComponent(c) \/ ValidatePage(c)
PageSpec == PageInit /\ [][PageNext]_pageVars

-----------------------------------------------------------------------------
\* The stored page and the copies are trees.
PageTypeOK == IsTree(page) /\ \A c \in PageCalls : IsTree(pageCopy[c])

Places(t, id) == {i \in 1 .. Len(t) : t[i].id = id}
\* The two recursive searches reach every component: a request to change an id finds the first one in
\* preorder that has it, a request to delete finds one below the root whenever there is one, and the
\* two mean the same component where the id is unique (agent_design_service.py:205 to 254).
SearchesReachAll ==
    \A id \in NodeIds :
        LET places == Places(page, id) IN
        /\ Found(page, id) = IF places = {} THEN None ELSE Min(places)
        /\ IF places \subseteq {1} THEN Removed(page, id) = None
           ELSE Removed(page, id) \in places \ {1}
=============================================================================
