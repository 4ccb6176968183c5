------------------------------ MODULE Accounts ------------------------------
(***************************************************************************)
(* Accounts, sign-in and request authentication: gateway/api/v1/auth.py,   *)
(* services/auth_service.py, auth/flows/authorization_code.py,             *)
(* auth/providers/state.py and gateway/middleware/auth.py, with the        *)
(* WebSocket endpoints that use its verify_api_key_ws.                     *)
(*                                                                         *)
(* A call is one request to one of these endpoints.  A database statement  *)
(* the handler awaits, or a run of them that no other call can tell apart, *)
(* is one step.  A user is named by the call that created it.  The unique  *)
(* indexes are those of models/tenant.py: a tenant's slug, and an email    *)
(* within one tenant; an email may belong to users of several tenants.     *)
(***************************************************************************)
EXTENDS Integers, FiniteSets

CONSTANTS
    AuthCalls,      \* the calls
    AuthKind,       \* [AuthCalls -> {"register", "login", "callback", "refresh", "request", "socket"}]
    EmailOf,        \* [AuthCalls -> the email of the form, or of the provider's user]
    TenantOf,       \* [AuthCalls -> the tenant asked for, or Personal]
    Personal,       \* no tenant_id: register creates a tenant from the email
    GivenTenants,   \* the tenants there are at the start
    SlugOf,         \* the slug of an email's personal tenant: its local part, so two emails may share it
    OAuthStates,    \* the state tokens of /oauth/{provider}/initiate
    StateOf,        \* [AuthCalls -> the state a callback presents]
    MaxOff,         \* model bound: suspensions and deactivations
    MaxArrivals     \* model bound: calls that arrive in one run

Slugs == {SlugOf[c] : c \in AuthCalls}
Of(kind) == {c \in AuthCalls : AuthKind[c] = kind}
Nobody == "nobody"
ASSUME AccountsAssumption ==
    /\ \A c \in AuthCalls : TenantOf[c] \in GivenTenants \cup {Personal}
    /\ \A c \in Of("callback") : StateOf[c] \in OAuthStates
    /\ GivenTenants \cap Slugs = {} /\ Nobody \notin AuthCalls \cup GivenTenants \cup Slugs
    /\ {MaxOff, MaxArrivals} \subseteq Nat

NoUser == [tenant |-> Nobody, email |-> Nobody, password |-> FALSE, link |-> Nobody, active |-> FALSE]

VARIABLES
    tenantStatus,   \* [GivenTenants \cup Slugs -> "none", "active" or "suspended"]
    users,          \* [AuthCalls -> the user the call created, or NoUser]
    oauthState,     \* [OAuthStates -> "unused", "open" or "gone"]
    step,           \* [AuthCalls -> the step a call is at]
    subject,        \* [AuthCalls -> the user a call is about, or Nobody]
    holds,          \* [AuthCalls -> the slug of the tenant a call has flushed but not committed]
    tokens,         \* [AuthCalls -> the user whose token pair the call was answered with]
    off,            \* suspensions and deactivations so far
    overlap,        \* history: the pairs of registrations and callbacks that were under way together
    lateFor,        \* history: [AuthCalls -> the users that were out when a login, refresh or request began]
    closedFor       \* history: [AuthCalls -> the tenants that were suspended when it began]

authVars == <<tenantStatus, users, oauthState, step, subject, holds, tokens, off, overlap, lateFor, closedFor>>

Here == {u \in AuthCalls : users[u] # NoUser}
WithEmail(email) == {u \in Here : users[u].email = email}
WithLink(link) == {u \in Here : users[u].link = link}
UnderWay(c) == step[c] \notin {"idle", "answered", "keyed", "refused"}
Moves(c, to) == step' = [step EXCEPT ![c] = to]
Refuses(c) ==
    /\ Moves(c, "refused")
    /\ holds' = [holds EXCEPT ![c] = Nobody]    \* get_db rolls the session back
    /\ UNCHANGED <<tenantStatus, users, oauthState, subject, tokens>>
\* A user who cannot use the service: deactivated, or of a tenant that is not active.
Out(u) == ~users[u].active \/ tenantStatus[users[u].tenant] # "active"

-----------------------------------------------------------------------------
AccountsInit ==
    /\ tenantStatus = [t \in GivenTenants \cup Slugs |->
                          IF t \in GivenTenants THEN "active" ELSE "none"]
    /\ users = [c \in AuthCalls |-> NoUser]
    /\ oauthState = [s \in OAuthStates |-> "unused"]
    /\ step = [c \in AuthCalls |-> "idle"]
    /\ subject = [c \in AuthCalls |-> Nobody]
    /\ holds = [c \in AuthCalls |-> Nobody]
    /\ tokens = [c \in AuthCalls |-> Nobody]
    /\ off = 0
    /\ overlap = {}
    /\ lateFor = [c \in AuthCalls |-> {}]
    /\ closedFor = [c \in AuthCalls |-> {}]

\* A request arrives.
Creators == Of("register") \cup Of("callback")
Arrives(c) ==
    /\ Cardinality({d \in AuthCalls : step[d] # "idle"}) < MaxArrivals
    /\ overlap' = IF c \in Creators
                  THEN overlap \cup {{c, d} : d \in {x \in Creators : UnderWay(x)}}
                  ELSE overlap
    /\ lateFor' = IF c \in Creators THEN lateFor ELSE [lateFor EXCEPT ![c] = {u \in Here : Out(u)}]
    /\ closedFor' = [closedFor EXCEPT ![c] = {t \in GivenTenants \cup Slugs : tenantStatus[t] = "suspended"}]

----------------------------------------------------------------------------
(* register *)

\* A variant of RegisterChecks: the email is not looked up.
RegisterChecksNothing(c) ==
    /\ AuthKind[c] = "register" /\ step[c] = "idle"
    /\ Arrives(c)
    /\ Moves(c, "tenant")
    /\ UNCHANGED <<tenantStatus, users, oauthState, subject, holds, tokens, off>>

RegisterChecks(c) ==
    /\ AuthKind[c] = "register" /\ step[c] = "idle"
    /\ Arrives(c)
    /\ IF WithEmail(EmailOf[c]) # {}
       THEN Refuses(c)
       ELSE Moves(c, "tenant") /\ UNCHANGED <<tenantStatus, users, oauthState, subject, holds, tokens>>
    /\ UNCHANGED off

\* With a tenant_id the tenant is looked up; without, one is inserted under the
\* email's slug and flushed.  The insert waits for a transaction that has flushed
\* the same slug, and fails when the slug is taken.
RegisterTenant(c) ==
    /\ step[c] = "tenant"
    /\ IF TenantOf[c] # Personal
       THEN Moves(c, "insert") /\ UNCHANGED <<tenantStatus, users, oauthState, subject, holds, tokens>>
       ELSE /\ \A d \in AuthCalls : holds[d] # SlugOf[c]
            /\ IF tenantStatus[SlugOf[c]] # "none"
               THEN Refuses(c)
               ELSE /\ holds' = [holds EXCEPT ![c] = SlugOf[c]]
                    /\ Moves(c, "insert")
                    /\ UNCHANGED <<tenantStatus, users, oauthState, subject, tokens>>
    /\ UNCHANGED <<off, overlap, lateFor, closedFor>>

NewUser(c, tenant, link) ==
    [tenant |-> tenant, email |-> EmailOf[c], password |-> link = Nobody, link |-> link, active |-> TRUE]

\* The user is inserted and, with a personal tenant, committed together with it.
RegisterInserts(c) ==
    /\ step[c] = "insert" /\ AuthKind[c] = "register"
    /\ LET tenant == IF TenantOf[c] = Personal THEN SlugOf[c] ELSE TenantOf[c]
       IN  IF \E u \in WithEmail(EmailOf[c]) : users[u].tenant = tenant
           THEN Refuses(c)
           ELSE /\ users' = [users EXCEPT ![c] = NewUser(c, tenant, Nobody)]
                /\ subject' = [subject EXCEPT ![c] = c]
                /\ tenantStatus' =
                      IF holds[c] # Nobody THEN [tenantStatus EXCEPT ![holds[c]] = "active"]
                                           ELSE tenantStatus
                /\ holds' = [holds EXCEPT ![c] = Nobody]
                /\ Moves(c, "tokens")
                /\ UNCHANGED <<oauthState, tokens>>
    /\ UNCHANGED <<off, overlap, lateFor, closedFor>>

\* create_token_pair: the tenant must be there and active.
IssueTokens(c) ==
    /\ step[c] = "tokens"
    /\ IF tenantStatus[users[subject[c]].tenant] # "active"
       THEN Refuses(c)
       ELSE /\ tokens' = [tokens EXCEPT ![c] = subject[c]]
            /\ Moves(c, "answered")
            /\ UNCHANGED <<tenantStatus, users, oauthState, subject, holds>>
    /\ UNCHANGED <<off, overlap, lateFor, closedFor>>

----------------------------------------------------------------------------
(* login and refresh *)

SignsIn(c, u) ==
    /\ subject' = [subject EXCEPT ![c] = u]
    /\ Moves(c, "tokens")
    /\ UNCHANGED <<tenantStatus, users, oauthState, holds, tokens>>

\* authenticate_user.  scalar_one_or_none raises when two users share the email.
Login(c) ==
    /\ AuthKind[c] = "login" /\ step[c] = "idle"
    /\ Arrives(c)
    /\ \/ \E u \in WithEmail(EmailOf[c]) :
             /\ WithEmail(EmailOf[c]) = {u}
             /\ users[u].active /\ users[u].password
             /\ SignsIn(c, u)
       \/ Refuses(c)                \* nobody, several, inactive, no password or a wrong one
    /\ UNCHANGED off

\* Whom a token that decodes names.  One that is forged, expired or of the other type is refused
\* at once, and changes nothing.
PresentedTokens == {tokens[d] : d \in AuthCalls} \ {Nobody}

\* A variant of Refresh: the user is not read again.
RefreshTrustsToken(c) ==
    /\ AuthKind[c] = "refresh" /\ step[c] = "idle"
    /\ Arrives(c)
    /\ \E u \in PresentedTokens : SignsIn(c, u)
    /\ UNCHANGED off

\* refresh_tokens, with the pair some call was answered with.
Refresh(c) ==
    /\ AuthKind[c] = "refresh" /\ step[c] = "idle"
    /\ Arrives(c)
    /\ \E u \in PresentedTokens :
          IF users[u].active THEN SignsIn(c, u) ELSE Refuses(c)
    /\ UNCHANGED off

----------------------------------------------------------------------------
(* The authorization code flow *)

\* create_state: a random state that nobody has.
CreateState(s) ==
    /\ oauthState[s] = "unused"
    /\ oauthState' = [oauthState EXCEPT ![s] = "open"]

\* initiate: the provider is configured, and a state is stored.
InitiateFlow(s) ==
    /\ CreateState(s)
    /\ UNCHANGED <<tenantStatus, users, step, subject, holds, tokens, off, overlap, lateFor, closedFor>>

\* Ten minutes pass, or cleanup_expired removes the row: it is not found any more.
StateExpires(s) ==
    /\ oauthState[s] = "open"
    /\ oauthState' = [oauthState EXCEPT ![s] = "gone"]
    /\ UNCHANGED <<tenantStatus, users, step, subject, holds, tokens, off, overlap, lateFor, closedFor>>

\* validate_state: the row is selected here and deleted in the next step.
CallbackSelects(c) ==
    /\ AuthKind[c] = "callback" /\ step[c] = "idle"
    /\ Arrives(c)
    /\ IF oauthState[StateOf[c]] = "open"
       THEN Moves(c, "consume") /\ UNCHANGED <<tenantStatus, users, oauthState, subject, holds, tokens>>
       ELSE Refuses(c)
    /\ UNCHANGED off

\* The delete is committed, also when another call has deleted the row already.
CallbackConsumes(c) ==
    /\ step[c] = "consume"
    /\ oauthState' = [oauthState EXCEPT ![StateOf[c]] = "gone"]
    /\ Moves(c, "exchange")
    /\ UNCHANGED <<tenantStatus, users, subject, holds, tokens, off, overlap, lateFor, closedFor>>

\* The provider does not match, has no configuration or refuses the code; or
\* get_or_create_oauth_user finds the user by the provider's id or by email and links
\* it; or there is none and one is to be created.
CallbackExchanges(c) ==
    /\ step[c] = "exchange"
    /\ \/ Refuses(c)
       \/ \E u \in Here :
             /\ \/ WithLink(EmailOf[c]) = {u}
                \/ WithLink(EmailOf[c]) = {} /\ WithEmail(EmailOf[c]) = {u}
             /\ users' = [users EXCEPT ![u] = [@ EXCEPT !.link = EmailOf[c]]]
             /\ subject' = [subject EXCEPT ![c] = u]
             /\ Moves(c, "tokens")
             /\ UNCHANGED <<tenantStatus, oauthState, holds, tokens>>
       \/ /\ WithLink(EmailOf[c]) \cup WithEmail(EmailOf[c]) = {}
          /\ Moves(c, "insert")
          /\ UNCHANGED <<tenantStatus, users, oauthState, subject, holds, tokens>>
    /\ UNCHANGED <<off, overlap, lateFor, closedFor>>

\* A variant of CallbackInserts: the flow goes on with no user.
CallbackInsertsForNobody(c) ==
    /\ step[c] = "insert" /\ AuthKind[c] = "callback"
    /\ IF TenantOf[c] = Personal \/ tenantStatus[TenantOf[c]] # "active"
       THEN Refuses(c)
       ELSE /\ Moves(c, "tokens")
            /\ UNCHANGED <<tenantStatus, users, oauthState, subject, holds, tokens>>
    /\ UNCHANGED <<off, overlap, lateFor, closedFor>>

\* The tenant must be there and active; the email must be new to it.
CallbackInserts(c) ==
    /\ step[c] = "insert" /\ AuthKind[c] = "callback"
    /\ IF TenantOf[c] = Personal \/ tenantStatus[TenantOf[c]] # "active"
             \/ \E u \in WithEmail(EmailOf[c]) : users[u].tenant = TenantOf[c]
       THEN Refuses(c)
       ELSE /\ users' = [users EXCEPT ![c] = NewUser(c, TenantOf[c], EmailOf[c])]
            /\ subject' = [subject EXCEPT ![c] = c]
            /\ Moves(c, "tokens")
            /\ UNCHANGED <<tenantStatus, oauthState, holds, tokens>>
    /\ UNCHANGED <<off, overlap, lateFor, closedFor>>

----------------------------------------------------------------------------
(* AuthMiddleware.dispatch and verify_api_key_ws                           *)

\* validate_api_key finds the key of some user, and does not look at this user.  A key that names
\* nobody, the master key among them, is left out.
KeyFound(c, to) ==
    /\ \E u \in Here : subject' = [subject EXCEPT ![c] = u]
    /\ Moves(c, to)
    /\ UNCHANGED <<tenantStatus, users, oauthState, holds, tokens>>

\* A request without a token that is taken: it has an API key as well, or is refused.
NoToken(c) == KeyFound(c, "keyTenant") \/ Refuses(c)

\* A bearer token decodes and names an active user; or there is none that does.
RequestReadsUser(c) ==
    /\ AuthKind[c] = "request" /\ step[c] = "idle"
    /\ Arrives(c)
    /\ \/ \E u \in PresentedTokens :
             /\ users[u].active
             /\ subject' = [subject EXCEPT ![c] = u]
             /\ Moves(c, "readTenant")
             /\ UNCHANGED <<tenantStatus, users, oauthState, holds, tokens>>
       \/ NoToken(c)
    /\ UNCHANGED off

RequestReadsTenant(c) ==
    /\ step[c] = "readTenant"
    /\ IF tenantStatus[users[subject[c]].tenant] = "active"
       THEN Moves(c, "answered") /\ UNCHANGED <<tenantStatus, users, oauthState, subject, holds, tokens>>
       ELSE NoToken(c)
    /\ UNCHANGED <<off, overlap, lateFor, closedFor>>

\* _validate_api_key: the tenant of the key must be active; whether its user is, is not asked.
KeyReadsTenant(c) ==
    /\ step[c] = "keyTenant"
    /\ IF tenantStatus[users[subject[c]].tenant] = "active"
       THEN Moves(c, "keyed") /\ UNCHANGED <<tenantStatus, users, oauthState, subject, holds, tokens>>
       ELSE Refuses(c)
    /\ UNCHANGED <<off, overlap, lateFor, closedFor>>

\* verify_api_key_ws: the key is enough, its tenant is not read either.
SocketOpens(c) ==
    /\ AuthKind[c] = "socket" /\ step[c] = "idle"
    /\ Arrives(c)
    /\ KeyFound(c, "keyed") \/ Refuses(c)
    /\ UNCHANGED off

----------------------------------------------------------------------------
\* The operators of the service: no handler suspends a tenant or deactivates a user.
Suspends(t) ==
    /\ off < MaxOff /\ tenantStatus[t] = "active"
    /\ tenantStatus' = [tenantStatus EXCEPT ![t] = "suspended"]
    /\ off' = off + 1
    /\ UNCHANGED <<users, oauthState, step, subject, holds, tokens, overlap, lateFor, closedFor>>

Deactivates(u) ==
    /\ off < MaxOff /\ users[u].active
    /\ users' = [users EXCEPT ![u] = [@ EXCEPT !.active = FALSE]]
    /\ off' = off + 1
    /\ UNCHANGED <<tenantStatus, oauthState, step, subject, holds, tokens, overlap, lateFor, closedFor>>

AccountsNext ==
    \/ \E c \in AuthCalls :
          \/ RegisterChecks(c) \/ RegisterTenant(c) \/ RegisterInserts(c) \/ IssueTokens(c)
          \/ Login(c) \/ Refresh(c)
          \/ CallbackSelects(c) \/ CallbackConsumes(c) \/ CallbackExchanges(c) \/ CallbackInserts(c)
          \/ RequestReadsUser(c) \/ RequestReadsTenant(c) \/ KeyReadsTenant(c) \/ SocketOpens(c)
    \/ \E s \in OAuthStates : InitiateFlow(s) \/ StateExpires(s)
    \/ \E t \in GivenTenants \cup Slugs : Suspends(t)
    \/ \E u \in AuthCalls : Deactivates(u)

AccountsSpec == AccountsInit /\ [][AccountsNext]_authVars

-----------------------------------------------------------------------------
Steps == {"idle", "tenant", "insert", "tokens", "consume", "exchange", "readTenant", "keyTenant",
          "answered", "keyed", "refused"}

AccountsTypeOK ==
    /\ tenantStatus \in [GivenTenants \cup Slugs -> {"none", "active", "suspended"}]
    /\ oauthState \in [OAuthStates -> {"unused", "open", "gone"}]
    /\ step \in [AuthCalls -> Steps]
    /\ subject \in [AuthCalls -> AuthCalls \cup {Nobody}]
    /\ tokens \in [AuthCalls -> AuthCalls \cup {Nobody}]
    /\ holds \in [AuthCalls -> Slugs \cup {Nobody}]
    /\ \A c \in AuthCalls : step[c] = "tokens" => subject[c] \in Here

(***************************************************************************)
(* Neither the email check of register nor the one-time use of a state     *)
(* ("if successful, the state record is deleted to prevent replay",        *)
(* state.py) is atomic.  Two users of one email, or two callbacks that got *)
(* past one state, exist only when the two calls were under way together.  *)
(***************************************************************************)
TwiceOnlyTogether ==
    /\ \A u, v \in Here : u # v /\ users[u].email = users[v].email => {u, v} \in overlap
    /\ \A c, d \in Of("callback") :
          c # d /\ StateOf[c] = StateOf[d]
             /\ step[c] \in {"consume", "exchange", "insert", "tokens", "answered"}
             /\ step[d] \in {"consume", "exchange", "insert", "tokens", "answered"}
          => {c, d} \in overlap

(***************************************************************************)
(* A registration is one transaction up to the account, and a second one   *)
(* for the tokens.  A refused call has created no user, unless it was      *)
(* refused for its tokens because the tenant was not active; and a tenant  *)
(* of a registration never exists without its first user.                  *)
(***************************************************************************)
RefusedLeavesNoAccount ==
    /\ \A c \in Here :
          step[c] = "refused" => tenantStatus[users[c].tenant] # "active"
    /\ \A s \in Slugs : tenantStatus[s] # "none" => \E u \in Here : users[u].tenant = s

\* An email is registered twice only by two calls at once, and a refused call leaves no account
\* (auth.py:280 to 327, auth_service.py:324 to 393).
AccountsKept == TwiceOnlyTogether /\ RefusedLeavesNoAccount

(***************************************************************************)
(* Tokens live on, but the user and the tenant are read again: a login, a  *)
(* refresh or a request that is let in by its token began while its user   *)
(* was active and of an active tenant.  Of an API key only the tenant is   *)
(* read: a request it lets in began while the tenant was not suspended,    *)
(* but may be of a user who was deactivated.  Nothing is claimed of        *)
(* sockets, for which neither is read.                                     *)
(***************************************************************************)
OutStaysOut ==
    /\ \A c \in Of("login") \cup Of("refresh") \cup Of("request") :
          step[c] = "answered" => subject[c] \notin lateFor[c]
    /\ \A c \in Of("request") :
          step[c] = "keyed" => users[subject[c]].tenant \notin closedFor[c]
=============================================================================
