------------------------------ MODULE Sessions ------------------------------
(***************************************************************************)
(* services/session_manager.py: sessions kept in Redis.  A session is two  *)
(* keys: its data, which expires, and its id in the tenant's set, which    *)
(* does not.  Every Redis command is a step, since every one is awaited;   *)
(* the manager holds no lock.  All calls here are of one tenant.  Nothing  *)
(* in the service calls the manager yet; any interleaving of calls of its  *)
(* methods is allowed here.                                                *)
(***************************************************************************)
EXTENDS Integers, FiniteSets

CONSTANTS
    SessionIds,     \* the ids token_urlsafe makes
    SessionCalls,   \* the calls
    CallOf,         \* [SessionCalls -> {"create", "update", "refresh", "delete", "list"}]
    SessionOf       \* [SessionCalls -> the session the call is about]

ASSUME SessionsAssumption == SessionOf \in [SessionCalls -> SessionIds]

VARIABLES
    stored,         \* the ids whose data key exists
    tenantSet,      \* the ids in the tenant's set
    at,             \* [SessionCalls -> the step a call is at]
    left,           \* [SessionCalls -> the ids a listing has still to read]
    found,          \* [SessionCalls -> the ids a listing found]
    lastGone,       \* history: [SessionIds -> the calls past their last look at the data when it last went]
    gone            \* history: the sessions whose data was there once and went

sessionsVars == <<stored, tenantSet, at, left, found, lastGone, gone>>

Goes(c, to) == at' = [at EXCEPT ![c] = to]
\* The calls that will write s without looking at it again.
AboutToWrite(s) == {c \in SessionCalls : SessionOf[c] = s /\ at[c] = "writes"}
Vanishes(s) ==
    /\ stored' = stored \ {s}
    /\ gone' = gone \cup {s}
    /\ lastGone' = [lastGone EXCEPT ![s] = AboutToWrite(s)]

SessionsInit ==
    /\ stored = {} /\ tenantSet = {}
    /\ at = [c \in SessionCalls |-> "idle"]
    /\ left = [c \in SessionCalls |-> {}] /\ found = left
    /\ gone = {} /\ lastGone = [s \in SessionIds |-> {}]

\* create_session: SETEX, then SADD.
CreateStores(c) ==
    LET s == SessionOf[c] IN
    /\ at[c] = "idle" /\ CallOf[c] = "create" /\ s \notin stored \cup gone
    /\ stored' = stored \cup {s}
    /\ Goes(c, "adds")
    /\ UNCHANGED <<tenantSet, left, found, lastGone, gone>>

CreateLists(c) ==
    /\ at[c] = "adds"
    /\ tenantSet' = tenantSet \cup {SessionOf[c]}
    /\ Goes(c, "done")
    /\ UNCHANGED <<stored, left, found, lastGone, gone>>

\* update_session and refresh_session begin with get_session.  Only an id a create has made is asked for.
ReadsSession(c) ==
    LET s == SessionOf[c] IN
    /\ at[c] = "idle" /\ CallOf[c] \in {"update", "refresh"} /\ s \in stored \cup gone
    /\ Goes(c, CASE s \notin stored -> "done" [] CallOf[c] = "update" -> "looks" [] OTHER -> "writes")
    /\ UNCHANGED <<stored, tenantSet, left, found, lastGone, gone>>

\* A variant of ReadsTTL that saves whatever TTL said.
LooksInVain(c) ==
    /\ at[c] = "looks"
    /\ Goes(c, "writes")
    /\ UNCHANGED <<stored, tenantSet, left, found, lastGone, gone>>
\* update_session: TTL.  Without a key it is negative: nothing is saved, yet the caller gets the session.
ReadsTTL(c) ==
    /\ at[c] = "looks"
    /\ Goes(c, IF SessionOf[c] \in stored THEN "writes" ELSE "done")
    /\ UNCHANGED <<stored, tenantSet, left, found, lastGone, gone>>

\* SETEX of the copy read: a session deleted in between is there again.  (Its fields are not modelled:
\* another call's update in between is overwritten.)
WritesSession(c) ==
    /\ at[c] = "writes"
    /\ stored' = stored \cup {SessionOf[c]}
    /\ Goes(c, "done")
    /\ UNCHANGED <<tenantSet, left, found, lastGone, gone>>

\* delete_session: DEL, then SREM whatever DEL returned.
DeletesData(c) ==
    LET s == SessionOf[c] IN
    /\ at[c] = "idle" /\ CallOf[c] = "delete" /\ s \in stored \cup gone
    /\ Goes(c, "removes")
    /\ IF s \in stored THEN Vanishes(s) ELSE UNCHANGED <<stored, lastGone, gone>>
    /\ UNCHANGED <<tenantSet, left, found>>

DeleteUnlists(c) ==
    /\ at[c] = "removes"
    /\ tenantSet' = tenantSet \ {SessionOf[c]}
    /\ Goes(c, "done")
    /\ UNCHANGED <<stored, left, found, lastGone, gone>>

\* Redis: the key's time to live is over.  Its id stays in the set, and get_session_count counts it.
SessionExpires(s) ==
    /\ s \in stored
    /\ Vanishes(s)
    /\ UNCHANGED <<tenantSet, at, left, found>>

\* get_tenant_sessions: SMEMBERS, then one GET per id.
ListReadsSet(c) ==
    /\ at[c] = "idle" /\ CallOf[c] = "list"
    /\ left' = [left EXCEPT ![c] = tenantSet]
    /\ Goes(c, "gets")
    /\ UNCHANGED <<stored, tenantSet, found, lastGone, gone>>

ListGets(c) ==
    /\ at[c] = "gets"
    /\ \E s \in left[c] :
        /\ left' = [left EXCEPT ![c] = @ \ {s}]
        /\ found' = [found EXCEPT ![c] = @ \cup ({s} \cap stored)]
    /\ UNCHANGED <<stored, tenantSet, at, lastGone, gone>>

ListEnds(c) ==
    /\ at[c] = "gets" /\ left[c] = {}
    /\ Goes(c, "done")
    /\ UNCHANGED <<stored, tenantSet, left, found, lastGone, gone>>

\* The caller is cancelled, or a Redis command raises, after an earlier command of the call took effect.
CallBreaksOff(c) ==
    /\ at[c] \in {"adds", "looks", "writes", "removes", "gets"}
    /\ Goes(c, "broken")
    /\ UNCHANGED <<stored, tenantSet, left, found, lastGone, gone>>

SessionsStep(c) ==
    \/ CreateStores(c) \/ CreateLists(c) \/ ReadsSession(c) \/ ReadsTTL(c) \/ WritesSession(c)
    \/ DeletesData(c) \/ DeleteUnlists(c) \/ ListReadsSet(c) \/ ListGets(c) \/ ListEnds(c)
    \/ CallBreaksOff(c)

SessionsNext == (\E c \in SessionCalls : SessionsStep(c)) \/ (\E s \in SessionIds : SessionExpires(s))
SessionsSpec == SessionsInit /\ [][SessionsNext]_sessionsVars

-----------------------------------------------------------------------------
SessionsTypeOK ==
    /\ stored \cup tenantSet \cup gone \subseteq SessionIds
    /\ at \in [SessionCalls -> {"idle", "adds", "looks", "writes", "removes", "gets", "done", "broken"}]
    /\ \A c \in SessionCalls : left[c] \cup found[c] \subseteq SessionIds
    /\ lastGone \in [SessionIds -> SUBSET SessionCalls]

\* A session that was deleted or expired is stored again only by an update or a refresh that had taken
\* its last look at the key before the key went (session_manager.py:178 to 185, 270 to 273): no call
\* that looks later brings it back.
GoneStaysGone ==
    \A s \in gone \cap stored : \E c \in lastGone[s] : at[c] = "done"
=============================================================================
