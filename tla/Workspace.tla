----------------------------- MODULE Workspace -----------------------------
(***************************************************************************)
(* Applications, their conversations and messages (models/application.py)  *)
(* under the endpoints of gateway/api/v1/applications.py and               *)
(* gateway/api/v1/conversations.py.                                        *)
(*                                                                         *)
(* A request reads, decides and writes in separate statements; other       *)
(* requests commit in between.  A request that only reads has no action.   *)
(* create_application has none either: it passes a column that the model   *)
(* lacks, and fails.  Applications come from the scripts that fill the     *)
(* database.                                                               *)
(*                                                                         *)
(* The models declare foreign keys.  PostgreSQL enforces them; SQLite, the *)
(* default (core/config.py:37-40), does so only after a PRAGMA that        *)
(* db/session.py does not send.  What follows is of both.                  *)
(***************************************************************************)
EXTENDS Integers, FiniteSets

CONSTANTS
    Apps,           \* applications
    Convs,          \* ids of conversations
    Adds,           \* requests to add a message
    Runs,           \* requests to run an application
    Removals        \* requests to delete an application or a conversation

NoApp == "no-app"
NoConv == "no-conversation"

ASSUME WorkspaceAssumption == NoApp \notin Apps /\ NoConv \notin Convs

VARIABLES
    enforced,       \* the database enforces foreign keys
    apps,           \* status of each application, "absent" if the table has no such row
    convs,          \* the table conversations
    messages,       \* the table messages
    adding,         \* requests to add a message: where they are
    running,        \* requests to run an application
    removing        \* requests to delete: what the session has loaded

workspaceVars == <<enforced, apps, convs, messages, adding, running, removing>>

AppStatus == {"draft", "designing", "published", "archived"}

\* A conversation, its history beside it: the application it was created for, and whether that
\* one was not there by then, or about to go.
Conversation == [state : {"unused", "active", "archived", "deleted"}, app : Apps \cup {NoApp},
                 from : Apps \cup {NoApp}, late : BOOLEAN]
Unused == [state |-> "unused", app |-> NoApp, from |-> NoApp, late |-> FALSE]
Exists(v) == convs[v].state \in {"active", "archived"}

\* A delete of application a, or of conversation v, is between its load and its commit.
Leaving(a) == \E x \in Removals : removing[x].stage = "loaded" /\ removing[x].app = a
Closing(v) == \E x \in Removals : removing[x].stage = "loaded" /\ v \in removing[x].loaded

\* The insert of a conversation: a foreign key that is enforced refuses one without its application.
Open(v, a) ==
    /\ convs[v] = Unused
    /\ enforced /\ a \in Apps => apps[a] # "absent"
    /\ convs' = [convs EXCEPT ![v] = [state |-> "active", app |-> a, from |-> a,
                   late |-> a \in Apps /\ (apps[a] = "absent" \/ Leaving(a))]]

\* after: history, the adds that were committed before this one looked.  late, of an add: history,
\* it inserted its message while a delete of the conversation was under way.
Message == [by : Adds, conv : Convs, sequence_number : Nat, after : SUBSET Adds]
MessagesOf(v) == {m \in messages : m.conv = v}

WorkspaceInit ==
    /\ enforced \in BOOLEAN
    /\ apps \in [Apps -> {"draft", "published", "absent"}]
    /\ convs = [v \in Convs |-> Unused]
    /\ messages = {}
    /\ adding = [d \in Adds |-> [stage |-> "idle", conv |-> NoConv, seq |-> 0, after |-> {}, late |-> FALSE]]
    /\ running = [r \in Runs |-> [stage |-> "idle", app |-> NoApp]]
    /\ removing = [x \in Removals |-> [stage |-> "idle", app |-> NoApp, loaded |-> {}, read |-> {}]]

---------------------------------------------------------------------------
(* Conversations                                                           *)

\* With an application, which nothing looks up, or without.
CreateConversation(v) ==
    /\ \E a \in Apps \cup {NoApp} : Open(v, a)
    /\ UNCHANGED <<apps, messages, adding, running, removing>>

SetArchived(v, state) ==
    /\ Exists(v)
    /\ convs' = [convs EXCEPT ![v].state = state]
    /\ UNCHANGED <<apps, messages, adding, running, removing>>

UpdateConversation(v) == \E state \in {"active", "archived"} : SetArchived(v, state)
ArchiveConversation(v) == SetArchived(v, "archived")
RestoreConversation(v) == SetArchived(v, "active")

\* db.delete loads the messages that go with the conversation.
DeleteFinds(x, v) ==
    /\ removing[x].stage = "idle" /\ Exists(v)
    /\ removing' = [removing EXCEPT ![x] = [stage |-> "loaded", app |-> NoApp,
                       loaded |-> {v}, read |-> MessagesOf(v)]]
    /\ UNCHANGED <<apps, convs, messages, adding, running>>

\* What a commit leaves: without what was loaded, and, by a foreign key that is enforced, without
\* what was added since.
Remaining(x) ==
    IF enforced THEN {m \in messages : m.conv \notin removing[x].loaded} ELSE messages \ removing[x].read

DeleteConversation(x) ==
    /\ removing[x].stage = "loaded" /\ removing[x].app = NoApp
    /\ removing' = [removing EXCEPT ![x].stage = "ended"]
    /\ convs' = [v \in Convs |->
         IF v \in removing[x].loaded THEN [convs[v] EXCEPT !.state = "deleted"] ELSE convs[v]]
    /\ messages' = Remaining(x)
    /\ UNCHANGED <<apps, adding, running>>

\* Variant: the number is the count of messages by the same role.
AddCountsRole(d, v) ==
    /\ adding[d].stage = "idle" /\ Exists(v)
    /\ \E n \in 0 .. Cardinality(MessagesOf(v)) :
         adding' = [adding EXCEPT ![d] = [stage |-> "counted", conv |-> v,
                      seq |-> n, after |-> {m.by : m \in MessagesOf(v)}, late |-> FALSE]]
    /\ UNCHANGED <<apps, convs, messages, running, removing>>

\* add_message looks for the conversation and counts its messages.
AddCounts(d, v) ==
    /\ adding[d].stage = "idle" /\ Exists(v)
    /\ adding' = [adding EXCEPT ![d] = [stage |-> "counted", conv |-> v,
                     seq |-> Cardinality(MessagesOf(v)), after |-> {m.by : m \in MessagesOf(v)}, late |-> FALSE]]
    /\ UNCHANGED <<apps, convs, messages, running, removing>>

\* The commit writes last_activity of the conversation with the message: it fails, and inserts
\* nothing, if the conversation is gone.
AddInserts(d) ==
    LET v == adding[d].conv IN
    /\ adding[d].stage = "counted"
    /\ adding' = [adding EXCEPT ![d].stage = "ended", ![d].late = Closing(v)]
    /\ messages' = messages \cup
         {m \in {[by |-> d, conv |-> v, sequence_number |-> adding[d].seq, after |-> adding[d].after]} :
            Exists(v)}
    /\ UNCHANGED <<apps, convs, running, removing>>

---------------------------------------------------------------------------
(* Applications                                                            *)

\* Any status may be set, in any order.
UpdateApplication(a) ==
    /\ apps[a] # "absent"
    /\ \E s \in AppStatus : apps' = [apps EXCEPT ![a] = s]
    /\ UNCHANGED <<convs, messages, adding, running, removing>>

PublishApplication(a) ==
    /\ apps[a] # "absent"
    /\ apps' = [apps EXCEPT ![a] = "published"]
    /\ UNCHANGED <<convs, messages, adding, running, removing>>

\* Variant: the relationship does not cascade.
DeleteLoadsNothing(x, a) ==
    /\ removing[x].stage = "idle" /\ apps[a] # "absent"
    /\ removing' = [removing EXCEPT ![x] = [stage |-> "loaded", app |-> a, loaded |-> {}, read |-> {}]]
    /\ UNCHANGED <<apps, convs, messages, adding, running>>

\* db.delete loads the conversations and messages that go with the application.
DeleteLoads(x, a) ==
    /\ removing[x].stage = "idle" /\ apps[a] # "absent"
    /\ removing' = [removing EXCEPT ![x] = [stage |-> "loaded", app |-> a,
                      loaded |-> {v \in Convs : Exists(v) /\ convs[v].app = a},
                      read |-> {m \in messages : Exists(m.conv) /\ convs[m.conv].app = a}]]
    /\ UNCHANGED <<apps, convs, messages, adding, running>>

\* The commit deletes them; by a foreign key that is enforced, a conversation that was not loaded
\* loses its reference.
DeleteApplication(x) ==
    LET a == removing[x].app IN
    /\ removing[x].stage = "loaded" /\ a # NoApp
    /\ removing' = [removing EXCEPT ![x].stage = "ended"]
    /\ apps' = [apps EXCEPT ![a] = "absent"]
    /\ convs' = [v \in Convs |->
         IF v \in removing[x].loaded THEN [convs[v] EXCEPT !.state = "deleted"]
         ELSE IF enforced /\ convs[v].app = a THEN [convs[v] EXCEPT !.app = NoApp] ELSE convs[v]]
    /\ messages' = Remaining(x)
    /\ UNCHANGED <<adding, running>>

\* run_application reads the status.
RunChecks(r, a) ==
    /\ running[r].stage = "idle" /\ apps[a] = "published"
    /\ running' = [running EXCEPT ![r] = [stage |-> "checked", app |-> a]]
    /\ UNCHANGED <<apps, convs, messages, adding, removing>>

\* It commits a conversation ...
RunOpens(r, v) ==
    /\ running[r].stage = "checked"
    /\ Open(v, running[r].app)
    /\ running' = [running EXCEPT ![r].stage = "opened"]
    /\ UNCHANGED <<apps, messages, adding, removing>>

\* ... and passes execute a keyword that it does not have: the answer is always an error.
RunEnds(r) ==
    /\ \/ running[r].stage = "opened"
       \/ running[r].stage = "checked" /\ enforced /\ apps[running[r].app] = "absent"
    /\ running' = [running EXCEPT ![r].stage = "error"]
    /\ UNCHANGED <<apps, convs, messages, adding, removing>>

WorkspaceNext ==
    /\ UNCHANGED enforced
    /\ \/ \E v \in Convs :
            \/ CreateConversation(v) \/ UpdateConversation(v) \/ ArchiveConversation(v)
            \/ RestoreConversation(v)
            \/ \E x \in Removals : DeleteFinds(x, v)
            \/ \E d \in Adds : AddCounts(d, v)
            \/ \E r \in Runs : RunOpens(r, v)
       \/ \E d \in Adds : AddInserts(d)
       \/ \E r \in Runs : RunEnds(r)
       \/ \E x \in Removals : DeleteConversation(x) \/ DeleteApplication(x)
       \/ \E a \in Apps :
            \/ UpdateApplication(a) \/ PublishApplication(a)
            \/ \E x \in Removals : DeleteLoads(x, a)
            \/ \E r \in Runs : RunChecks(r, a)

WorkspaceSpec == WorkspaceInit /\ [][WorkspaceNext]_workspaceVars

---------------------------------------------------------------------------
(* Properties                                                              *)

WorkspaceTypeOK ==
    /\ enforced \in BOOLEAN
    /\ apps \in [Apps -> AppStatus \cup {"absent"}]
    /\ convs \in [Convs -> Conversation]
    /\ messages \subseteq Message
    /\ adding \in [Adds -> [stage : {"idle", "counted", "ended"}, conv : Convs \cup {NoConv},
                            seq : Nat, after : SUBSET Adds, late : BOOLEAN]]
    /\ running \in [Runs -> [stage : {"idle", "checked", "opened", "error"}, app : Apps \cup {NoApp}]]
    /\ removing \in [Removals -> [stage : {"idle", "loaded", "ended"}, app : Apps \cup {NoApp},
                                  loaded : SUBSET Convs, read : SUBSET Message]]

\* A message added after another one was committed has the larger sequence number, whatever
\* overlapping adds did (those may get the same number, and leave gaps).
LaterMessagesLater ==
    \A m, n \in messages : m.conv = n.conv /\ m.by \in n.after => m.sequence_number < n.sequence_number

\* Whatever requests overlap with a delete, on either database: a conversation outlives its
\* application only if it was opened when that one was leaving or gone, and where foreign keys are
\* enforced it has lost its reference then; a message outlives its conversation only where they are
\* not, and only if it was added while the conversation was being deleted.
DeletedWithApp ==
    /\ \A v \in Convs :
         Exists(v) /\ convs[v].from # NoApp /\ apps[convs[v].from] = "absent" =>
           convs[v].late /\ (enforced => convs[v].app = NoApp)
    /\ \A m \in messages : ~Exists(m.conv) => ~enforced /\ adding[m.by].late
=============================================================================
