----------------------------- MODULE MCServices -----------------------------
(***************************************************************************)
(* Bounds for the services behind the REST API and the streams, and one    *)
(* run for all of them.  They share no state: focus, chosen at the start,  *)
(* says which of them a behaviour is of, and the others rest.              *)
(***************************************************************************)
EXTENDS AgentRuntime, Workspace, Memory, Marketplace, PageDesign, StreamProtocol, TLC

CONSTANTS c1, c2

VARIABLE focus

\* Agents: one call streams to a client of /chat/completions, the other is of any other kind.
TwoKindsOf == (c1 :> {"sse"}) @@ (c2 :> {"execution", "blocking", "pipeline"})

\* Plugins: two publishers of one name; two tenants, and two installs by the first.
OneName == [p \in {"p1", "p2"} |-> "n"]
FirstPlugin == [c \in {"i1", "i2", "i3", "u1", "u2"} |-> "p1"]
TwoTenants == [c \in {"i1", "i2", "i3", "u1", "u2"} |-> IF c = "i3" THEN "t2" ELSE "t1"]

\* Pages: every tree of at most four nodes with these ids; edits of every kind.
PageEdits ==
    [add |-> [kind |-> "add", id |-> "b", parent |-> "a"],
     replace |-> [kind |-> "add", id |-> "a", parent |-> "no parent"],
     delete |-> [kind |-> "delete", id |-> "b", parent |-> "no parent"],
     update |-> [kind |-> "update", id |-> "b", parent |-> "no parent"],
     validate |-> [kind |-> "validate", id |-> "b", parent |-> "no parent"]]
Shapes ==
    {d \in UNION {[1 .. n -> 0 .. 2] : n \in 0 .. 4} :
        \A i \in DOMAIN d : IF i = 1 THEN d[i] = 0 ELSE d[i] \in 1 .. d[i - 1] + 1}
SmallTrees ==
    UNION {{[i \in DOMAIN d |-> Node(id[i], d[i], TRUE)] : id \in [DOMAIN d -> {"a", "b"}]} : d \in Shapes}

Init ==
    /\ RuntimeInit /\ WorkspaceInit /\ MemoryInit /\ MarketInit /\ PageInit /\ StreamInit
    /\ focus \in {"agents", "workspace", "memory", "plugins", "pages", "streams"}
    /\ focus # "pages" => page = <<>>
    /\ focus # "workspace" => ~enforced /\ \A a \in Apps : apps[a] = "draft"

Next ==
    \/ /\ focus = "agents" /\ RuntimeNext
       /\ UNCHANGED <<workspaceVars, memoryVars, marketVars, pageVars, streamVars, focus>>
    \/ /\ focus = "workspace" /\ WorkspaceNext
       /\ UNCHANGED <<runtimeVars, memoryVars, marketVars, pageVars, streamVars, focus>>
    \/ /\ focus = "memory" /\ MemoryNext
       /\ UNCHANGED <<runtimeVars, workspaceVars, marketVars, pageVars, streamVars, focus>>
    \/ /\ focus = "plugins" /\ MarketNext
       /\ UNCHANGED <<runtimeVars, workspaceVars, memoryVars, pageVars, streamVars, focus>>
    \/ /\ focus = "pages" /\ PageNext
       /\ UNCHANGED <<runtimeVars, workspaceVars, memoryVars, marketVars, streamVars, focus>>
    \/ /\ focus = "streams" /\ StreamNext
       /\ UNCHANGED <<runtimeVars, workspaceVars, memoryVars, marketVars, pageVars, focus>>

Spec == Init /\ [][Next]_<<runtimeVars, workspaceVars, memoryVars, marketVars, pageVars, streamVars, focus>>

\* Every service's variables have their types.
TypesOK ==
    CASE focus = "agents" -> RuntimeTypeOK
      [] focus = "workspace" -> WorkspaceTypeOK
      [] focus = "memory" -> MemoryTypeOK
      [] focus = "plugins" -> MarketTypeOK
      [] focus = "pages" -> PageTypeOK
      [] focus = "streams" -> StreamTypeOK

\* What the walks over a sequence find: searches of a page reach every component
\* (agent_design_service.py:205 to 254), and contexts fit their budget, the most important or the
\* oldest messages first (memory.py:135 to 147, 178 to 184).
WalksFit == SearchesReachAll /\ ContextsFit
=============================================================================
