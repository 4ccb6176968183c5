----------------------------- MODULE AgentMail -----------------------------
(***************************************************************************)
(* The queues of agent/core/message_hub.py: tasks and requests put for a   *)
(* role, broadcasts, the agents that take messages, and the results they   *)
(* submit.  The hub keeps one asyncio.Queue per role, made when the role   *)
(* is first named; nothing in src/ reads them but the tests, which is how  *)
(* the readers here behave.  A message is known by the call that sent it,  *)
(* which stands for its correlation id.                                    *)
(***************************************************************************)
EXTENDS Sequences, SequencesExt, Functions

CONSTANTS
    MailRoles,      \* the roles
    Posts,          \* the calls that send: dispatch_task, send_agent_request, broadcast
    PostKind,       \* [Posts -> "task", "request" or "broadcast"]
    PostTo,         \* [Posts -> the role; a broadcast has none]
    Readers,        \* agents that take messages
    ReaderOf        \* [Readers -> the role]

ASSUME MailAssumption ==
    /\ PostKind \in [Posts -> {"task", "request", "broadcast"}]
    /\ PostTo \in [Posts -> MailRoles] /\ ReaderOf \in [Readers -> MailRoles]
    /\ Posts \cap {"idle", "waiting"} = {}

VARIABLES
    queued,         \* [MailRoles -> _queues of the role]
    knownRoles,     \* the roles that have a queue
    activeIds,      \* _active_correlations
    pendingIds,     \* _pending_results
    submitted,      \* _task_results: the messages a result was stored for
    readerAt,       \* [Readers -> the message it works on, "idle" or "waiting"]
    arrived,        \* history: [MailRoles -> all messages put in the queue, in order]
    gone,           \* history: [MailRoles -> all messages taken or dropped from it, in order]
    cleared         \* history: [MailRoles -> the messages a clear_queue dropped]

hubState == <<queued, knownRoles, activeIds, pendingIds, submitted>>
mailVars == <<hubState, readerAt, arrived, gone, cleared>>

Sent == UNION {ToSet(arrived[role]) : role \in MailRoles}

MailInit ==
    /\ queued = [role \in MailRoles |-> <<>>]
    /\ knownRoles = {} /\ activeIds = {} /\ pendingIds = {} /\ submitted = {}
    /\ readerAt = [r \in Readers |-> "idle"]
    /\ arrived = [role \in MailRoles |-> <<>>]
    /\ gone = [role \in MailRoles |-> <<>>]
    /\ cleared = [role \in MailRoles |-> {}]

PutFor(roles, p) ==
    /\ p \notin Sent
    /\ queued' = [role \in MailRoles |-> IF role \in roles THEN Append(queued[role], p) ELSE queued[role]]
    /\ arrived' = [role \in MailRoles |-> IF role \in roles THEN Append(arrived[role], p) ELSE arrived[role]]
    /\ UNCHANGED <<submitted, readerAt, gone, cleared>>

DispatchTask(p) ==
    /\ PostKind[p] = "task"
    /\ PutFor({PostTo[p]}, p)
    /\ knownRoles' = knownRoles \cup {PostTo[p]}
    /\ activeIds' = activeIds \cup {p}
    /\ pendingIds' = pendingIds \cup {p}

SendAgentRequest(p) ==
    /\ PostKind[p] = "request"
    /\ PutFor({PostTo[p]}, p)
    /\ knownRoles' = knownRoles \cup {PostTo[p]}
    /\ pendingIds' = pendingIds \cup {p}
    /\ UNCHANGED activeIds

\* To the roles that have a queue by now: a new hub has none.
Broadcast(p) ==
    /\ PostKind[p] = "broadcast"
    /\ PutFor(knownRoles, p)
    /\ UNCHANGED <<knownRoles, activeIds, pendingIds>>

\* get_message makes the queue, and waits on it.
BeginsToWait(r) ==
    /\ readerAt[r] = "idle"
    /\ readerAt' = [readerAt EXCEPT ![r] = "waiting"]
    /\ knownRoles' = knownRoles \cup {ReaderOf[r]}
    /\ UNCHANGED <<queued, activeIds, pendingIds, submitted, arrived, gone, cleared>>

\* Of the agents of one role that wait, any may run first.
GetMessage(r) ==
    LET role == ReaderOf[r] IN
    /\ readerAt[r] = "waiting" /\ queued[role] # <<>>
    /\ readerAt' = [readerAt EXCEPT ![r] = Head(queued[role])]
    /\ queued' = [queued EXCEPT ![role] = Tail(@)]
    /\ gone' = [gone EXCEPT ![role] = Append(@, Head(queued[role]))]
    /\ UNCHANGED <<knownRoles, activeIds, pendingIds, submitted, arrived, cleared>>

\* wait_for gives up, a message may have come meanwhile: it stays in the queue.
WaitTimesOut(r) ==
    /\ readerAt[r] = "waiting"
    /\ readerAt' = [readerAt EXCEPT ![r] = "idle"]
    /\ UNCHANGED <<hubState, arrived, gone, cleared>>

\* The result is stored; the ids are forgotten if the call names the correlation and it is pending.
SubmitResult(r) ==
    LET p == readerAt[r] IN
    /\ p \in Posts
    /\ \E named \in BOOLEAN :
         LET found == named /\ p \in pendingIds IN
         /\ pendingIds' = IF found THEN pendingIds \ {p} ELSE pendingIds
         /\ activeIds' = IF found THEN activeIds \ {p} ELSE activeIds
    /\ submitted' = submitted \cup {p}
    /\ readerAt' = [readerAt EXCEPT ![r] = "idle"]
    /\ UNCHANGED <<queued, knownRoles, arrived, gone, cleared>>

ClearQueue(role) ==
    /\ queued[role] # <<>>
    /\ queued' = [queued EXCEPT ![role] = <<>>]
    /\ cleared' = [cleared EXCEPT ![role] = @ \cup ToSet(queued[role])]
    /\ gone' = [gone EXCEPT ![role] = @ \o queued[role]]
    /\ UNCHANGED <<knownRoles, activeIds, pendingIds, submitted, readerAt, arrived>>

MailNext ==
    \/ \E p \in Posts : DispatchTask(p) \/ SendAgentRequest(p) \/ Broadcast(p)
    \/ \E r \in Readers : BeginsToWait(r) \/ GetMessage(r) \/ WaitTimesOut(r) \/ SubmitResult(r)
    \/ \E role \in MailRoles : ClearQueue(role)

MailSpec == MailInit /\ [][MailNext]_mailVars

-----------------------------------------------------------------------------
MailTypeOK ==
    /\ knownRoles \subseteq MailRoles
    /\ activeIds \subseteq Posts /\ pendingIds \subseteq Posts /\ submitted \subseteq Posts
    /\ readerAt \in [Readers -> Posts \cup {"idle", "waiting"}]
    /\ \A role \in MailRoles : ToSet(queued[role]) \subseteq Posts /\ (queued[role] # <<>> => role \in knownRoles)

\* With any number of agents on a role, and waits that time out while a message comes, the messages of
\* a role leave its queue once each and in the order they were put, and what an agent has in hand no
\* clear_queue dropped and no other agent of the role has; get_pending_tasks lists a task until a
\* result names its correlation (message_hub.py:264 to 290), so one that stays listed is queued, in
\* work, dropped, or was answered without the name.
MailKept ==
    /\ \A role \in MailRoles : arrived[role] = gone[role] \o queued[role] /\ IsInjective(arrived[role])
    /\ \A r \in Readers : readerAt[r] \in Posts =>
         /\ readerAt[r] \in ToSet(gone[ReaderOf[r]]) \ cleared[ReaderOf[r]]
         /\ \A q \in Readers \ {r} : ReaderOf[q] = ReaderOf[r] => readerAt[q] # readerAt[r]
    /\ activeIds \subseteq pendingIds
    /\ \A p \in {q \in Sent : PostKind[q] = "task"} :
         LET role == PostTo[p]
             inHand == p \in ToSet(queued[role]) \cup {readerAt[r] : r \in Readers} \cup cleared[role]
         IN  /\ p \in activeIds => inHand \/ p \in submitted
             /\ inHand => p \in activeIds
=============================================================================
