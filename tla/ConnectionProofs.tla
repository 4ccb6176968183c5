-------------------------- MODULE ConnectionProofs --------------------------
(***************************************************************************)
(* What holds connections, for any clients, sockets, servers, requests,    *)
(* accounts and sessions: the answers that come over an MCP pipe           *)
(* (McpPipe), the users and organizations that sign-ups and callbacks      *)
(* leave behind (Accounts), what the WebSocket manager knows of its        *)
(* sockets (Sockets), the processes behind the clients of the MCP manager  *)
(* (McpServers), the connections that the heartbeat loop gives up          *)
(* (Heartbeat), and the sessions that are gone (Sessions).                 *)
(***************************************************************************)
EXTENDS MCConnections, FiniteSetTheorems, TLAPS

(* The pipe of an MCP server                                               *)

\* Nothing is under way and nothing is in the pipe.
Empty == /\ \A q \in PipeRequests : request[q].stage \notin Under
         /\ written = <<>> /\ lines = <<>>

\* One request is under way, and its line, or the answer to it, is all there is in the pipe.
Alone(r) ==
    /\ request[r].stage \in Under
    /\ \A q \in PipeRequests \ {r} : request[q].stage \notin Under
    /\ \/ written = <<r>> /\ lines = <<>>
       \/ written = <<>> /\ lines = <<r>>

\* Who waits is the reader; until requests mix, the pipe has nothing of any other request.
PipeInv ==
    /\ PipeTypeOK /\ AnswersFit
    /\ reader # NoRequest => request[reader].stage = "waiting"
    /\ mixed \/ Empty \/ \E r \in PipeRequests : Alone(r)

LEMMA PipeTypes == PipeTypeOK /\ [PipeNext]_pipeVars => PipeTypeOK'
<1> SUFFICES ASSUME PipeTypeOK, [PipeNext]_pipeVars PROVE PipeTypeOK' OBVIOUS
<1> USE PipeAssumption DEF PipeTypeOK, Under
<1>1. ASSUME NEW r \in PipeRequests, SendRequest(r) PROVE PipeTypeOK' BY <1>1 DEF SendRequest
<1>2. ASSUME NEW r \in PipeRequests, Reads(r) PROVE PipeTypeOK'
  <2>1. CASE TakesLine(r)
    <3>1. lines # <<>> /\ lines \in Seq(PipeRequests \cup {Note}) BY <2>1 DEF TakesLine
    <3>2. Head(lines) \in PipeRequests \cup {Note} /\ Tail(lines) \in Seq(PipeRequests \cup {Note}) BY <3>1
    <3> QED BY <1>2, <2>1, <3>2 DEF Reads, TakesLine
  <2>2. CASE ReadFails(r) BY <1>2, <2>2 DEF Reads, ReadFails
  <2>3. CASE Waits(r) BY <1>2, <2>3 DEF Reads, Waits
  <2> QED BY <1>2, <2>1, <2>2, <2>3 DEF Reads
<1>3. ASSUME NEW r \in PipeRequests, GiveUp(r) PROVE PipeTypeOK' BY <1>3 DEF GiveUp
<1>4. ASSUME Wake PROVE reader' \in PipeRequests \cup {NoRequest} /\ request' \in
        [PipeRequests -> [stage : Under \cup {"idle", "answered", "failed", "cancelled"},
                          got : PipeRequests \cup {NoRequest, Note}]]
  BY <1>4 DEF Wake
<1>5. CASE ServerAnswers
  <2>1. written # <<>> /\ Head(written) \in PipeRequests /\ Tail(written) \in Seq(PipeRequests)
    BY <1>5 DEF ServerAnswers
  <2>2. written' \in Seq(PipeRequests) /\ lines' \in Seq(PipeRequests \cup {Note})
    BY <1>5, <2>1 DEF ServerAnswers
  <2> QED BY <1>4, <1>5, <2>2 DEF ServerAnswers
<1>6. CASE ServerNotifies
  <2>1. lines' \in Seq(PipeRequests \cup {Note}) BY <1>6 DEF ServerNotifies
  <2> QED BY <1>4, <1>6, <2>1 DEF ServerNotifies
<1>7. CASE ServerEnds BY <1>4, <1>7 DEF ServerEnds
<1>8. CASE UNCHANGED pipeVars BY <1>8 DEF pipeVars
<1> QED BY <1>1, <1>2, <1>3, <1>5, <1>6, <1>7, <1>8 DEF PipeNext

\* What is mixed stays mixed, and then nothing more is claimed.
LEMMA PipeStep == PipeInv /\ [PipeNext]_pipeVars => PipeInv'
<1> SUFFICES ASSUME PipeInv, [PipeNext]_pipeVars
             PROVE  /\ AnswersFit'
                    /\ (reader # NoRequest => request[reader].stage = "waiting")'
                    /\ (mixed \/ Empty \/ \E r \in PipeRequests : Alone(r))'
  BY PipeTypes DEF PipeInv
<1> USE PipeAssumption DEF PipeInv, PipeTypeOK
<1>1. ASSUME NEW r \in PipeRequests, SendRequest(r)
      PROVE  /\ AnswersFit'
             /\ (reader # NoRequest => request[reader].stage = "waiting")'
             /\ (mixed \/ Empty \/ \E q \in PipeRequests : Alone(q))'
  <2>1. /\ request[r].stage = "idle" /\ request'[r].stage = "draining" /\ r # reader
        /\ \A q \in PipeRequests \ {r} : request'[q] = request[q]
    BY <1>1 DEF SendRequest
  <2>2. AnswersFit' BY <1>1, <2>1 DEF SendRequest, AnswersFit
  <2>3. reader' # NoRequest => request'[reader'].stage = "waiting" BY <1>1, <2>1 DEF SendRequest
  <2>4. CASE InFlight # {} BY <1>1, <2>2, <2>3, <2>4 DEF SendRequest
  <2>5. CASE InFlight = {} /\ ~mixed
    <3>1. \A q \in PipeRequests : request[q].stage \notin Under BY <2>5 DEF InFlight
    <3>3. Empty BY <2>5, <3>1 DEF Alone
    <3>2. Alone(r)' BY <1>1, <2>1, <3>3 DEF SendRequest, Alone, Empty, Under
    <3> QED BY <2>2, <2>3, <3>2
  <2>6. CASE mixed BY <1>1, <2>2, <2>3, <2>6 DEF SendRequest
  <2> QED BY <2>4, <2>5, <2>6
<1>2. ASSUME NEW r \in PipeRequests, Reads(r)
      PROVE  /\ AnswersFit'
             /\ (reader # NoRequest => request[reader].stage = "waiting")'
             /\ (mixed \/ Empty \/ \E q \in PipeRequests : Alone(q))'
  <2>1. request[r].stage \in {"draining", "woken"} /\ r # reader /\ written' = written
    BY <1>2 DEF Reads
  <2>2. CASE TakesLine(r)
    <3>1. /\ request'[r] = [stage |-> "answered", got |-> Head(lines)] /\ lines # <<>>
          /\ \A q \in PipeRequests \ {r} : request'[q] = request[q]
          /\ lines' = Tail(lines) /\ reader' = reader /\ mixed' = mixed
      BY <2>2 DEF TakesLine
    <3>2. reader' # NoRequest => request'[reader'].stage = "waiting" BY <2>1, <3>1
    <3>3. CASE mixed BY <3>1, <3>2, <3>3 DEF AnswersFit
    <3>4. CASE ~mixed
      <4>1. Alone(r) BY <2>1, <3>4 DEF Alone, Empty, Under
      <4>2. lines = <<r>> /\ written = <<>> BY <3>1, <4>1 DEF Alone
      <4>3. Head(lines) = r /\ Tail(lines) = <<>> BY <4>2
      <4>4. Empty' BY <2>1, <3>1, <4>1, <4>2, <4>3 DEF Alone, Empty, Under
      <4>5. AnswersFit' BY <3>1, <4>3 DEF AnswersFit
      <4> QED BY <3>2, <4>4, <4>5
    <3> QED BY <3>3, <3>4
  <2>3. CASE ReadFails(r)
    <3>1. request'[r].stage = "failed" /\ mixed' /\ reader' = reader
      BY <2>3 DEF ReadFails
    <3>2. \A q \in PipeRequests \ {r} : request'[q] = request[q] BY <2>3 DEF ReadFails
    <3> QED BY <2>1, <3>1, <3>2 DEF AnswersFit
  <2>4. CASE Waits(r)
    <3>1. /\ request'[r].stage = "waiting" /\ reader' = r /\ lines' = lines /\ mixed' = mixed
          /\ \A q \in PipeRequests \ {r} : request'[q] = request[q]
      BY <2>4 DEF Waits
    <3>2. AnswersFit' BY <3>1 DEF AnswersFit
    <3>3. ASSUME NEW q \in PipeRequests, Alone(q) PROVE Alone(q)'
      <4>1. q = r BY <2>1, <3>3 DEF Alone, Under
      <4> QED BY <2>1, <3>1, <3>3, <4>1 DEF Alone, Under
    <3>4. ~Empty BY <2>1 DEF Empty, Under
    <3> QED BY <3>1, <3>2, <3>3, <3>4
  <2> QED BY <1>2, <2>2, <2>3, <2>4 DEF Reads
<1>3. ASSUME NEW r \in PipeRequests, GiveUp(r)
      PROVE  /\ AnswersFit'
             /\ (reader # NoRequest => request[reader].stage = "waiting")'
             /\ (mixed \/ Empty \/ \E q \in PipeRequests : Alone(q))'
  BY <1>3 DEF GiveUp, AnswersFit
<1>4. ASSUME Wake
      PROVE  /\ reader' = NoRequest
             /\ \A q \in PipeRequests :
                  \/ request'[q].stage = request[q].stage /\ request'[q].got = request[q].got
                  \/ request[q].stage = "waiting" /\ request'[q].stage = "woken"
  <2>1. reader' = NoRequest BY <1>4 DEF Wake
  <2>2. ASSUME NEW q \in PipeRequests
        PROVE  \/ request'[q].stage = request[q].stage /\ request'[q].got = request[q].got
               \/ request[q].stage = "waiting" /\ request'[q].stage = "woken"
    <3>1. CASE q = reader BY <1>4, <3>1 DEF Wake
    <3>2. CASE q # reader BY <1>4, <3>2 DEF Wake
    <3> QED BY <3>1, <3>2
  <2> QED BY <2>1, <2>2
<1>5. CASE ServerAnswers
  <2>1. /\ written # <<>> /\ written' = Tail(written) /\ lines' = Append(lines, Head(written))
        /\ mixed' = mixed /\ Wake
    BY <1>5 DEF ServerAnswers
  <2>2. AnswersFit' BY <1>4, <2>1 DEF AnswersFit
  <2>3. ~Empty BY <2>1 DEF Empty
  <2>4. ASSUME NEW q \in PipeRequests, Alone(q) PROVE Alone(q)'
    <3>1. written = <<q>> /\ lines = <<>> BY <2>1, <2>4 DEF Alone
    <3>2. written' = <<>> /\ lines' = <<q>> BY <2>1, <3>1
    <3> QED BY <1>4, <2>1, <2>4, <3>2 DEF Alone, Under
  <2> QED BY <1>4, <2>1, <2>2, <2>3, <2>4
<1>6. CASE ServerNotifies BY <1>4, <1>6 DEF ServerNotifies, AnswersFit
<1>7. CASE ServerEnds
  <2>1. Wake /\ UNCHANGED <<written, lines, mixed>> BY <1>7 DEF ServerEnds
  <2>2. AnswersFit' BY <1>4, <2>1 DEF AnswersFit
  <2>3. Empty => Empty' BY <1>4, <2>1 DEF Empty, Under
  <2>4. \A q \in PipeRequests : Alone(q) => Alone(q)' BY <1>4, <2>1 DEF Alone, Under
  <2> QED BY <1>4, <2>1, <2>2, <2>3, <2>4
<1>8. CASE UNCHANGED pipeVars BY <1>8 DEF pipeVars, AnswersFit, Empty, Alone
<1> QED BY <1>1, <1>2, <1>3, <1>5, <1>6, <1>7, <1>8 DEF PipeNext

\* The invariant of the pipe holds throughout.
LEMMA PipeInvariant == PipeSpec => []PipeInv
<1>1. PipeInit => PipeInv
  <2> SUFFICES ASSUME PipeInit PROVE PipeInv OBVIOUS
  <2>1. \A q \in PipeRequests : request[q] = [stage |-> "idle", got |-> NoRequest] BY DEF PipeInit
  <2>2. PipeTypeOK
    <3>1. request \in [PipeRequests -> [stage : Under \cup {"idle", "answered", "failed", "cancelled"},
                                        got : PipeRequests \cup {NoRequest, Note}]]
      BY DEF PipeInit
    <3>2. written \in Seq(PipeRequests) /\ lines \in Seq(PipeRequests \cup {Note})
      <4>1. \A S : <<>> \in Seq(S) OBVIOUS
      <4> QED BY <4>1 DEF PipeInit
    <3> QED BY <3>1, <3>2 DEF PipeInit, PipeTypeOK
  <2>3. AnswersFit BY <2>1 DEF AnswersFit
  <2>4. Empty BY <2>1 DEF PipeInit, Empty, Under
  <2> QED BY <2>2, <2>3, <2>4 DEF PipeInit, PipeInv
<1> QED BY <1>1, PipeStep, PTL DEF PipeSpec

\* As long as requests do not overlap, none is given up and the server only answers, every answered
\* request has the answer to itself (client.py:194 to 220).
THEOREM AnswersCorrect == PipeSpec => []AnswersFit
<1>1. PipeInv => AnswersFit BY DEF PipeInv
<1> QED BY <1>1, PipeInvariant, PTL

-----------------------------------------------------------------------------
(* Accounts                                                                *)

User == [tenant : GivenTenants \cup Slugs, email : {EmailOf[c] : c \in AuthCalls}, password : BOOLEAN,
         link : {EmailOf[c] : c \in AuthCalls} \cup {Nobody}, active : BOOLEAN]
Suspended(u) == tenantStatus[users[u].tenant] = "suspended"

AuthTypeInv ==
    /\ AccountsTypeOK
    /\ users \in [AuthCalls -> User \cup {NoUser}]
    /\ lateFor \in [AuthCalls -> SUBSET AuthCalls]
    /\ closedFor \in [AuthCalls -> SUBSET (GivenTenants \cup Slugs)]
    /\ \A u \in Here : tenantStatus[users[u].tenant] # "none"
    /\ \A t \in GivenTenants : tenantStatus[t] # "none"

\* Which steps are of which kind of call, and of whom they may be.
StepsFit(c) ==
    /\ step[c] = "tenant" => AuthKind[c] = "register"
    /\ step[c] = "insert" => c \in Creators
    /\ step[c] \in {"consume", "exchange"} => AuthKind[c] = "callback"
    /\ step[c] = "readTenant" => AuthKind[c] = "request"
    /\ step[c] = "keyTenant" => AuthKind[c] = "request"
    /\ step[c] = "keyed" => AuthKind[c] \in {"request", "socket"}
    /\ step[c] \in {"tokens", "readTenant", "keyTenant", "keyed"} => subject[c] \in Here
    /\ c \in Here => /\ step[c] \in {"tokens", "answered", "refused"}
                     /\ c \in Creators /\ users[c].email = EmailOf[c] /\ subject[c] = c

\* A registration alone holds the slug it inserts a tenant under, and nobody has seen this tenant.
SlugHeld(c) ==
    /\ holds[c] = IF step[c] = "insert" /\ AuthKind[c] = "register" /\ TenantOf[c] = Personal
                  THEN SlugOf[c] ELSE Nobody
    /\ holds[c] # Nobody => /\ tenantStatus[holds[c]] = "none"
                            /\ \A d \in AuthCalls \ {c} : holds[d] # holds[c]

\* Creators that are under way were so together; past its look at the email, a call has every user of
\* this email for an overlap.
TogetherKnown(c) ==
    /\ \A d \in Creators : c # d /\ c \in Creators /\ UnderWay(c) /\ UnderWay(d) => {c, d} \in overlap
    /\ step[c] \in {"tenant", "insert"} => \A u \in WithEmail(EmailOf[c]) : {c, u} \in overlap

\* A state that a callback has found is in use, and past the delete it is gone.
StateUsed(c) ==
    AuthKind[c] = "callback" =>
        /\ step[c] = "consume" => oauthState[StateOf[c]] # "unused"
        /\ step[c] \in {"exchange", "insert", "tokens", "answered"} => oauthState[StateOf[c]] = "gone"

\* Who was out stays out; and whoever is about to be let in was active, so that only the tenant can bar them.
LateKnown(c) ==
    /\ c \in Creators => lateFor[c] = {}
    /\ \A u \in lateFor[c] : u \in Here /\ Out(u)
    /\ step[c] \in {"tokens", "readTenant"} /\ subject[c] \in lateFor[c] => Suspended(subject[c])
    /\ \A t \in closedFor[c] : tenantStatus[t] = "suspended"

AccountsInv ==
    /\ AuthTypeInv
    /\ \A c \in AuthCalls :
          StepsFit(c) /\ SlugHeld(c) /\ TogetherKnown(c) /\ StateUsed(c) /\ LateKnown(c)
    /\ TwiceOnlyTogether /\ RefusedLeavesNoAccount /\ OutStaysOut

\* What a step does at most, to tenants and users, to the pairs and the states, and to each call.
PastState == {"consume", "exchange", "insert", "tokens", "answered"}
UsersOn ==
    /\ \A t \in GivenTenants \cup Slugs :
         /\ tenantStatus[t] # "none" => tenantStatus'[t] # "none"
         /\ tenantStatus[t] = "suspended" => tenantStatus'[t] = "suspended"
         /\ tenantStatus[t] = "none" /\ tenantStatus'[t] # "none" => \E u \in Here' : users'[u].tenant = t
    /\ \A u \in Here :
         /\ u \in Here' /\ users'[u].tenant = users[u].tenant /\ users'[u].email = users[u].email
         /\ users'[u].active => users[u].active
    /\ \A u \in Here' \ Here :
         step[u] = "insert" /\ u \in Creators /\ step'[u] = "tokens" /\ users'[u].email = EmailOf[u]
PairsOn ==
    /\ overlap \subseteq overlap'
    /\ \A c, d \in Creators : c # d /\ ~UnderWay(c) /\ UnderWay(c)' /\ UnderWay(d) => {c, d} \in overlap'
    /\ \A c, d \in AuthCalls : c # d => step'[c] = step[c] \/ step'[d] = step[d]
StatesOn ==
    \A s \in OAuthStates :
        /\ oauthState[s] # "unused" => oauthState'[s] # "unused"
        /\ oauthState[s] = "gone" => oauthState'[s] = "gone"
LooksOn(c) ==
    /\ step'[c] \in {"tenant", "insert"} =>
         step[c] \in {"tenant", "insert"} \/ (users' = users /\ WithEmail(EmailOf[c]) = {})
    /\ AuthKind[c] = "callback" /\ step'[c] \in PastState =>
         /\ \/ step[c] \in PastState
            \/ step[c] = "idle" /\ step'[c] = "consume" /\ oauthState[StateOf[c]] = "open"
         /\ step'[c] = "consume" \/ step[c] \in PastState \ {"consume"} \/ oauthState'[StateOf[c]] = "gone"
LateOn(c) ==
    /\ \/ lateFor'[c] = lateFor[c]
       \/ /\ lateFor'[c] = {u \in Here : Out(u)} /\ c \notin Creators
          /\ UNCHANGED <<users, tenantStatus>>
    /\ step'[c] \in {"tokens", "readTenant"} =>
         \/ step'[c] = step[c] /\ subject'[c] = subject[c] /\ lateFor'[c] = lateFor[c]
         \/ c \in Creators
         \/ subject'[c] \in Here /\ users[subject'[c]].active /\ UNCHANGED <<users, tenantStatus>>
    /\ step'[c] = "answered" =>
         /\ subject'[c] = subject[c] /\ lateFor'[c] = lateFor[c]
         /\ \/ step[c] = "answered"
            \/ step[c] \in {"tokens", "readTenant"} /\ tenantStatus[users[subject[c]].tenant] = "active"
    /\ \/ closedFor'[c] = closedFor[c]
       \/ /\ \A t \in closedFor'[c] : t \in GivenTenants \cup Slugs /\ tenantStatus[t] = "suspended"
          /\ tenantStatus' = tenantStatus
    /\ step'[c] = "keyed" /\ AuthKind[c] = "request" =>
         /\ subject'[c] = subject[c] /\ closedFor'[c] = closedFor[c]
         /\ \/ step[c] = "keyed"
            \/ step[c] = "keyTenant" /\ tenantStatus[users[subject[c]].tenant] = "active"
    /\ step'[c] = "refused" /\ c \in Here =>
         step[c] = "refused" \/ tenantStatus[users[c].tenant] # "active"
Onward == UsersOn /\ PairsOn /\ StatesOn /\ \A c \in AuthCalls : LooksOn(c) /\ LateOn(c)

\* Who is out stays out.
LEMMA OutStays ==
    ASSUME AuthTypeInv, UsersOn, NEW u \in Here, Out(u)
    PROVE  u \in Here' /\ Out(u)' /\ (Suspended(u) => Suspended(u)')
<1>1. users[u] \in User BY DEF Here, AuthTypeInv
<1>2. users[u].tenant \in GivenTenants \cup Slugs BY <1>1 DEF User
<1>3. u \in Here' /\ users'[u].tenant = users[u].tenant /\ (users'[u].active => users[u].active) BY DEF UsersOn
<1>4. tenantStatus[users[u].tenant] \in {"active", "suspended"}
  BY <1>2 DEF AuthTypeInv, AccountsTypeOK
<1> QED BY <1>2, <1>3, <1>4 DEF UsersOn, Out, Suspended

LEMMA TogetherKept ==
    ASSUME AccountsInv, Onward, NEW c \in AuthCalls
    PROVE  TogetherKnown(c)'
<1> USE DEF AccountsInv, Onward
<1>1. ASSUME NEW d \in Creators, c # d, c \in Creators, UnderWay(c)', UnderWay(d)' PROVE {c, d} \in overlap'
  <2>1. d \in AuthCalls BY DEF Creators, Of
  <2>2. CASE UnderWay(c) /\ UnderWay(d) BY <1>1, <2>2 DEF TogetherKnown, PairsOn
  <2>3. CASE ~UnderWay(c)
    <3>1. step'[c] # step[c] BY <1>1, <2>3 DEF UnderWay
    <3>2. step'[d] = step[d] BY <1>1, <2>1, <3>1 DEF PairsOn
    <3>3. UnderWay(d) BY <1>1, <3>2 DEF UnderWay
    <3> QED BY <1>1, <2>3, <3>3 DEF PairsOn
  <2>4. CASE ~UnderWay(d)
    <3>1. step'[d] # step[d] BY <1>1, <2>4 DEF UnderWay
    <3>2. step'[c] = step[c] BY <1>1, <2>1, <3>1 DEF PairsOn
    <3>3. UnderWay(c) BY <1>1, <3>2 DEF UnderWay
    <3>4. {d, c} \in overlap' BY <1>1, <2>4, <3>3 DEF PairsOn
    <3>5. {d, c} = {c, d} OBVIOUS
    <3> QED BY <3>4, <3>5
  <2> QED BY <2>2, <2>3, <2>4
<1>2. ASSUME step'[c] \in {"tenant", "insert"}, NEW u \in WithEmail(EmailOf[c])' PROVE {c, u} \in overlap'
  <2>1. u \in AuthCalls /\ u \in Here' /\ users'[u].email = EmailOf[c] BY DEF WithEmail, Here
  <2>2. CASE step[c] \in {"tenant", "insert"} /\ u \in Here
    <3>1. u \in WithEmail(EmailOf[c]) BY <2>1, <2>2 DEF UsersOn, WithEmail
    <3> QED BY <2>2, <3>1 DEF TogetherKnown, PairsOn
  <2>3. CASE step[c] \in {"tenant", "insert"} /\ u \notin Here
    <3>1. step[u] = "insert" /\ u \in Creators /\ step'[u] = "tokens" BY <2>1, <2>3 DEF UsersOn
    <3>2. u # c BY <1>2, <3>1
    <3>3. c \in Creators BY <2>3 DEF StepsFit, Creators, Of
    <3>4. UnderWay(c) /\ UnderWay(u) BY <2>3, <3>1 DEF UnderWay
    <3> QED BY <3>1, <3>2, <3>3, <3>4 DEF TogetherKnown, PairsOn
  <2>4. CASE step[c] \notin {"tenant", "insert"}
    <3>1. users' = users /\ WithEmail(EmailOf[c]) = {} BY <1>2, <2>4 DEF LooksOn
    <3> QED BY <2>1, <3>1 DEF WithEmail, Here
  <2> QED BY <2>2, <2>3, <2>4
<1> QED BY <1>1, <1>2 DEF TogetherKnown

LEMMA StateKept ==
    ASSUME AccountsInv, Onward, NEW c \in AuthCalls
    PROVE  StateUsed(c)'
<1> SUFFICES ASSUME AuthKind[c] = "callback"
             PROVE  /\ step'[c] = "consume" => oauthState'[StateOf[c]] # "unused"
                    /\ step'[c] \in PastState \ {"consume"} => oauthState'[StateOf[c]] = "gone"
  BY DEF StateUsed, PastState
<1>1. StateOf[c] \in OAuthStates BY AccountsAssumption DEF AccountsAssumption, Of
<1>2. ASSUME step'[c] = "consume" PROVE oauthState'[StateOf[c]] # "unused"
  <2>1. oauthState[StateOf[c]] # "unused"
    <3>1. CASE step[c] \in PastState BY <3>1 DEF AccountsInv, StateUsed, PastState
    <3>2. CASE step[c] \notin PastState BY <1>2, <3>2 DEF Onward, LooksOn, PastState
    <3> QED BY <3>1, <3>2
  <2> QED BY <1>1, <2>1 DEF Onward, StatesOn
<1>3. ASSUME step'[c] \in PastState \ {"consume"} PROVE oauthState'[StateOf[c]] = "gone"
  <2>1. CASE step[c] \in PastState \ {"consume"}
    <3>1. oauthState[StateOf[c]] = "gone" BY <2>1 DEF AccountsInv, StateUsed, PastState
    <3> QED BY <1>1, <3>1 DEF Onward, StatesOn
  <2>2. CASE step[c] \notin PastState \ {"consume"} BY <1>3, <2>2 DEF Onward, LooksOn
  <2> QED BY <2>1, <2>2
<1> QED BY <1>2, <1>3

LEMMA TwiceKept ==
    ASSUME AccountsInv, Onward
    PROVE  TwiceOnlyTogether'
<1>1. ASSUME NEW u \in Here', NEW v \in Here', u # v, users'[u].email = users'[v].email PROVE {u, v} \in overlap'
  <2>1. u \in AuthCalls /\ v \in AuthCalls BY DEF Here
  <2>2. CASE u \in Here /\ v \in Here
    BY <1>1, <2>2 DEF AccountsInv, TwiceOnlyTogether, Onward, UsersOn, PairsOn
  <2>3. ASSUME NEW x \in Here' \ Here, NEW y \in Here, users'[x].email = users'[y].email
        PROVE  {x, y} \in overlap'
    <3>1. step[x] = "insert" /\ users'[x].email = EmailOf[x] /\ x \in AuthCalls
      BY <2>3 DEF Onward, UsersOn, Here
    <3>2. users'[y].email = users[y].email BY DEF Onward, UsersOn
    <3>3. y \in WithEmail(EmailOf[x]) BY <2>3, <3>1, <3>2 DEF WithEmail
    <3> QED BY <3>1, <3>3 DEF AccountsInv, TogetherKnown, Onward, PairsOn
  <2>4. u \in Here \/ v \in Here
    <3> SUFFICES ASSUME u \notin Here, v \notin Here PROVE FALSE OBVIOUS
    <3>1. step'[u] # step[u] /\ step'[v] # step[v] BY DEF Onward, UsersOn
    <3> QED BY <1>1, <2>1, <3>1 DEF Onward, PairsOn
  <2>5. {v, u} = {u, v} OBVIOUS
  <2> QED BY <1>1, <2>2, <2>3, <2>4, <2>5
<1>2. ASSUME NEW c \in Of("callback"), NEW d \in Of("callback"), c # d, StateOf[c] = StateOf[d],
             step'[c] \in PastState, step'[d] \in PastState
      PROVE  {c, d} \in overlap'
  <2>1. c \in AuthCalls /\ d \in AuthCalls /\ c \in Creators /\ d \in Creators
        /\ AuthKind[c] = "callback" /\ AuthKind[d] = "callback"
    BY DEF Of, Creators
  <2>2. CASE step[c] \in PastState /\ step[d] \in PastState
    BY <1>2, <2>2 DEF AccountsInv, TwiceOnlyTogether, PastState, Onward, PairsOn
  <2>3. ASSUME NEW x \in Of("callback"), NEW y \in Of("callback"), x # y, StateOf[x] = StateOf[y],
               step'[x] \in PastState, step'[y] \in PastState, step[x] \notin PastState
        PROVE  {x, y} \in overlap'
    <3>1. x \in AuthCalls /\ y \in AuthCalls /\ x \in Creators /\ y \in Creators
          /\ AuthKind[x] = "callback" /\ AuthKind[y] = "callback"
      BY DEF Of, Creators
    <3>2. step[x] = "idle" /\ step'[x] = "consume" /\ oauthState[StateOf[x]] = "open"
      BY <2>3, <3>1 DEF Onward, LooksOn
    <3>3. step'[y] = step[y] BY <2>3, <3>1, <3>2 DEF Onward, PairsOn
    <3>4. step[y] = "consume"
      BY <2>3, <3>1, <3>2, <3>3 DEF AccountsInv, StateUsed, PastState
    <3>5. ~UnderWay(x) /\ UnderWay(x)' /\ UnderWay(y) BY <3>2, <3>4 DEF UnderWay
    <3> QED BY <2>3, <3>1, <3>5 DEF Onward, PairsOn
  <2>4. {d, c} = {c, d} OBVIOUS
  <2> QED BY <1>2, <2>2, <2>3, <2>4
<1> QED BY <1>1, <1>2 DEF TwiceOnlyTogether, PastState

LEMMA LateKept ==
    ASSUME AccountsInv, Onward, NEW c \in AuthCalls
    PROVE  LateKnown(c)'
<1> USE DEF AccountsInv, Onward
<1>1. c \in Creators => lateFor'[c] = {} BY DEF LateKnown, LateOn
<1>2. ASSUME NEW u \in lateFor'[c] PROVE u \in Here' /\ Out(u)'
  <2>1. u \in Here /\ Out(u)
    <3>1. CASE lateFor'[c] = lateFor[c] BY <3>1 DEF LateKnown
    <3>2. CASE lateFor'[c] # lateFor[c] BY <3>2 DEF LateOn
    <3> QED BY <3>1, <3>2
  <2> QED BY <2>1, OutStays
<1>3. ASSUME step'[c] \in {"tokens", "readTenant"}, subject'[c] \in lateFor'[c] PROVE Suspended(subject[c])'
  <2>1. c \notin Creators BY <1>1, <1>3
  <2>2. CASE step'[c] = step[c] /\ subject'[c] = subject[c] /\ lateFor'[c] = lateFor[c]
    <3>1. subject[c] \in lateFor[c] /\ Suspended(subject[c]) BY <1>3, <2>2 DEF LateKnown
    <3>2. subject[c] \in Here /\ Out(subject[c]) BY <3>1 DEF LateKnown
    <3>3. tenantStatus'[users'[subject[c]].tenant] = "suspended" BY <3>1, <3>2, OutStays DEF Suspended
    <3> QED BY <2>2, <3>3 DEF Suspended
  <2>3. CASE ~(step'[c] = step[c] /\ subject'[c] = subject[c] /\ lateFor'[c] = lateFor[c])
    <3>1. subject'[c] \in Here /\ users[subject'[c]].active /\ users' = users /\ tenantStatus' = tenantStatus
      BY <1>3, <2>1, <2>3 DEF LateOn
    <3>2. tenantStatus[users[subject'[c]].tenant] # "active" BY <1>2, <1>3, <3>1 DEF Out
    <3>3. users[subject'[c]] \in User BY <3>1 DEF AuthTypeInv, Here
    <3>4. tenantStatus[users[subject'[c]].tenant] = "suspended"
      BY <3>1, <3>2, <3>3 DEF AuthTypeInv, AccountsTypeOK, User
    <3> QED BY <3>1, <3>4 DEF Suspended
  <2> QED BY <2>2, <2>3
<1>4. ASSUME NEW t \in closedFor'[c] PROVE tenantStatus'[t] = "suspended"
  <2>1. t \in GivenTenants \cup Slugs /\ tenantStatus[t] = "suspended"
    <3>1. CASE closedFor'[c] = closedFor[c] BY <3>1 DEF LateKnown, AuthTypeInv
    <3>2. CASE closedFor'[c] # closedFor[c] BY <3>2 DEF LateOn
    <3> QED BY <3>1, <3>2
  <2> QED BY <2>1 DEF UsersOn
<1> QED BY <1>1, <1>2, <1>3, <1>4 DEF LateKnown

LEMMA RefusedKept ==
    ASSUME AccountsInv, Onward
    PROVE  RefusedLeavesNoAccount'
<1> USE DEF AccountsInv, Onward
<1>1. ASSUME NEW c \in Here', step'[c] = "refused" PROVE tenantStatus'[users'[c].tenant] # "active"
  <2>1. c \in Here /\ c \in AuthCalls BY <1>1 DEF UsersOn, Here
  <2>2. tenantStatus[users[c].tenant] # "active"
    BY <1>1, <2>1 DEF LateOn, RefusedLeavesNoAccount
  <2>3. Out(c) BY <2>2 DEF Out
  <2>4. users[c] \in User BY <2>1 DEF AuthTypeInv, Here
  <2>5. Suspended(c) BY <2>1, <2>2, <2>4 DEF Suspended, AuthTypeInv, AccountsTypeOK, User
  <2>6. tenantStatus'[users'[c].tenant] = "suspended" BY <2>1, <2>3, <2>5, OutStays DEF Suspended
  <2> QED BY <2>6
<1>2. ASSUME NEW s \in Slugs, tenantStatus'[s] # "none" PROVE \E u \in Here' : users'[u].tenant = s
  <2>1. CASE tenantStatus[s] = "none" BY <1>2, <2>1 DEF UsersOn
  <2>2. CASE tenantStatus[s] # "none"
    <3>1. PICK u \in Here : users[u].tenant = s BY <2>2 DEF RefusedLeavesNoAccount
    <3> QED BY <3>1 DEF UsersOn
  <2> QED BY <2>1, <2>2
<1> QED BY <1>1, <1>2 DEF RefusedLeavesNoAccount

LEMMA OutKept ==
    ASSUME AccountsInv, Onward
    PROVE  OutStaysOut'
<1>1. ASSUME NEW c \in Of("login") \cup Of("refresh") \cup Of("request"), step'[c] = "answered"
      PROVE  subject'[c] \notin lateFor'[c]
  <2>1. c \in AuthCalls BY DEF Of
  <2>2. subject'[c] = subject[c] /\ lateFor'[c] = lateFor[c] BY <1>1, <2>1 DEF Onward, LateOn
  <2>3. CASE step[c] = "answered" BY <2>2, <2>3 DEF AccountsInv, OutStaysOut
  <2>4. CASE step[c] \in {"tokens", "readTenant"} /\ tenantStatus[users[subject[c]].tenant] = "active"
    BY <2>1, <2>2, <2>4 DEF AccountsInv, LateKnown, Suspended
  <2> QED BY <1>1, <2>1, <2>3, <2>4 DEF Onward, LateOn
<1>2. ASSUME NEW c \in Of("request"), step'[c] = "keyed"
      PROVE  users'[subject'[c]].tenant \notin closedFor'[c]
  <2>1. c \in AuthCalls /\ AuthKind[c] = "request" BY DEF Of
  <2>2. /\ subject'[c] = subject[c] /\ closedFor'[c] = closedFor[c]
        /\ \/ step[c] = "keyed"
           \/ step[c] = "keyTenant" /\ tenantStatus[users[subject[c]].tenant] = "active"
    BY <1>2, <2>1 DEF Onward, LateOn
  <2>3. subject[c] \in Here BY <2>1, <2>2 DEF AccountsInv, StepsFit
  <2>4. users'[subject[c]].tenant = users[subject[c]].tenant BY <2>3 DEF Onward, UsersOn
  <2>5. CASE step[c] = "keyed" BY <2>2, <2>4, <2>5 DEF AccountsInv, OutStaysOut
  <2>6. CASE tenantStatus[users[subject[c]].tenant] = "active"
    BY <2>1, <2>2, <2>4, <2>6 DEF AccountsInv, LateKnown
  <2> QED BY <2>2, <2>5, <2>6
<1> QED BY <1>1, <1>2 DEF OutStaysOut

\* What most steps have in common: one call goes on, and tenants and users stay as they are.
Quietly(c, to) == Moves(c, to) /\ UNCHANGED <<tenantStatus, users>>

\* A step that leaves tenants and users alone.
LEMMA UsersStay == ASSUME UNCHANGED <<tenantStatus, users>> PROVE UsersOn
BY DEF UsersOn, Here

LEMMA StatesStay == ASSUME oauthState' = oauthState PROVE StatesOn
BY DEF StatesOn

\* A call that goes on, or arrives.
LEMMA PairsStay ==
    ASSUME AuthTypeInv, NEW c \in AuthCalls, NEW to, Moves(c, to),
           \/ UnderWay(c) /\ overlap' = overlap
           \/ step[c] = "idle" /\ Arrives(c)
    PROVE  PairsOn
<1> USE DEF AuthTypeInv, AccountsTypeOK
<1>1. \A d \in AuthCalls \ {c} : step'[d] = step[d] BY DEF Moves
<1>2. overlap \subseteq overlap' BY DEF Arrives
<1>3. ASSUME NEW d \in Creators, NEW e \in Creators, d # e, ~UnderWay(d), UnderWay(d)', UnderWay(e)
      PROVE  {d, e} \in overlap'
  <2>1. d \in AuthCalls /\ e \in AuthCalls BY DEF Creators, Of
  <2>2. d = c BY <1>1, <1>3, <2>1 DEF UnderWay
  <2>3. Arrives(c) BY <1>3, <2>2
  <2>4. overlap' = overlap \cup {{c, x} : x \in {y \in Creators : UnderWay(y)}} BY <2>2, <2>3 DEF Arrives
  <2> QED BY <1>3, <2>2, <2>4
<1> QED BY <1>1, <1>2, <1>3 DEF PairsOn

\* The other calls stay where they are.
LEMMA OthersStay ==
    ASSUME AuthTypeInv, NEW c \in AuthCalls, NEW to, Moves(c, to),
           UNCHANGED <<lateFor, closedFor>> \/ Arrives(c),
           \A d \in AuthCalls \ {c} : subject'[d] = subject[d],
           NEW d \in AuthCalls, d # c
    PROVE  LooksOn(d) /\ LateOn(d)
<1> USE DEF AuthTypeInv, AccountsTypeOK
<1>1. step'[d] = step[d] /\ subject'[d] = subject[d] BY DEF Moves
<1>2. lateFor'[d] = lateFor[d] /\ closedFor'[d] = closedFor[d] BY DEF Arrives
<1>3. LooksOn(d) BY <1>1 DEF LooksOn
<1> QED BY <1>1, <1>2, <1>3 DEF LateOn

\* The call that goes on, where nobody is let in: a step to where, and what it looked at.
LEMMA GoesOn ==
    ASSUME AccountsInv, NEW c \in AuthCalls, NEW to, Moves(c, to),
           to \notin {"tokens", "readTenant", "answered", "refused"},
           to = "keyed" => AuthKind[c] # "request",
           to \in {"tenant", "insert"} =>
               step[c] \in {"tenant", "insert"} \/ (users' = users /\ WithEmail(EmailOf[c]) = {}),
           AuthKind[c] = "callback" /\ to \in PastState =>
               /\ \/ step[c] \in PastState
                  \/ step[c] = "idle" /\ to = "consume" /\ oauthState[StateOf[c]] = "open"
               /\ to = "consume" \/ step[c] \in PastState \ {"consume"} \/ oauthState'[StateOf[c]] = "gone",
           \/ UNCHANGED <<lateFor, closedFor>>
           \/ Arrives(c) /\ UNCHANGED <<users, tenantStatus>>
    PROVE  LooksOn(c) /\ LateOn(c)
<1>1. step'[c] = to BY DEF Moves, AccountsInv, AuthTypeInv, AccountsTypeOK
<1>2. LooksOn(c) BY <1>1 DEF LooksOn
<1>3. \/ lateFor'[c] = lateFor[c]
      \/ lateFor'[c] = {u \in Here : Out(u)} /\ c \notin Creators /\ UNCHANGED <<users, tenantStatus>>
  BY DEF Arrives, AccountsInv, AuthTypeInv
<1>4. \/ closedFor'[c] = closedFor[c]
      \/ /\ \A t \in closedFor'[c] : t \in GivenTenants \cup Slugs /\ tenantStatus[t] = "suspended"
         /\ tenantStatus' = tenantStatus
  BY DEF Arrives, AccountsInv, AuthTypeInv
<1>5. LateOn(c) BY <1>1, <1>3, <1>4 DEF LateOn
<1> QED BY <1>2, <1>5

\* A refusal: of a call that has made no user, or for the tenant of the user it has made.
LEMMA RefusesOn ==
    ASSUME AccountsInv, NEW c \in AuthCalls, Refuses(c),
           c \in Here => tenantStatus[users[c].tenant] # "active",
           \/ UnderWay(c) /\ UNCHANGED <<overlap, lateFor, closedFor>>
           \/ step[c] = "idle" /\ Arrives(c)
    PROVE  Onward
<1>1. Moves(c, "refused") /\ UNCHANGED <<tenantStatus, users, oauthState, subject>> BY DEF Refuses
<1>2. UsersOn /\ StatesOn BY <1>1, UsersStay, StatesStay
<1>3. PairsOn BY <1>1, PairsStay DEF AccountsInv
<1>4. step'[c] = "refused" BY <1>1 DEF Moves, AccountsInv, AuthTypeInv, AccountsTypeOK
<1>5. \/ lateFor'[c] = lateFor[c]
      \/ lateFor'[c] = {u \in Here : Out(u)} /\ c \notin Creators /\ UNCHANGED <<users, tenantStatus>>
  BY <1>1 DEF Arrives, AccountsInv, AuthTypeInv
<1>8. \/ closedFor'[c] = closedFor[c]
      \/ /\ \A t \in closedFor'[c] : t \in GivenTenants \cup Slugs /\ tenantStatus[t] = "suspended"
         /\ tenantStatus' = tenantStatus
  BY <1>1 DEF Arrives, AccountsInv, AuthTypeInv
<1>6. LooksOn(c) /\ LateOn(c) BY <1>4, <1>5, <1>8 DEF LooksOn, LateOn, PastState
<1>7. \A d \in AuthCalls \ {c} : LooksOn(d) /\ LateOn(d) BY <1>1, OthersStay DEF AccountsInv, Arrives
<1> QED BY <1>2, <1>3, <1>6, <1>7 DEF Onward

\* Types, steps and slugs: one call goes on while nothing else but its subject and its tokens changes.
LEMMA TypesStay ==
    ASSUME AuthTypeInv, NEW c \in AuthCalls, NEW to \in Steps, Moves(c, to),
           UNCHANGED <<tenantStatus, users>>,
           oauthState' \in [OAuthStates -> {"unused", "open", "gone"}],
           subject' \in [AuthCalls -> AuthCalls \cup {Nobody}],
           \A d \in AuthCalls \ {c} : subject'[d] = subject[d],
           to = "tokens" => subject'[c] \in Here,
           tokens' \in [AuthCalls -> AuthCalls \cup {Nobody}],
           holds' \in [AuthCalls -> Slugs \cup {Nobody}],
           UNCHANGED <<lateFor, closedFor>> \/ Arrives(c)
    PROVE  AuthTypeInv'
<1> USE DEF AuthTypeInv, AccountsTypeOK
<1>1. Here' = Here BY DEF Here
<1>2. step' \in [AuthCalls -> Steps] BY DEF Moves
<1>3. ASSUME NEW d \in AuthCalls, step'[d] = "tokens" PROVE subject'[d] \in Here'
  <2>1. CASE d = c BY <1>1, <1>3, <2>1 DEF Moves
  <2>2. CASE d # c BY <1>1, <1>3, <2>2 DEF Moves
  <2> QED BY <2>1, <2>2
<1>4. /\ lateFor' \in [AuthCalls -> SUBSET AuthCalls]
      /\ closedFor' \in [AuthCalls -> SUBSET (GivenTenants \cup Slugs)]
  BY DEF Arrives, Here
<1>5. AccountsTypeOK' BY <1>2, <1>3
<1> QED BY <1>1, <1>4, <1>5

LEMMA StepsStay ==
    ASSUME AccountsInv, NEW c \in AuthCalls, NEW to, Moves(c, to),
           Here' = Here, \A u \in Here : users'[u].email = users[u].email,
           \A d \in AuthCalls \ {c} : subject'[d] = subject[d],
           to = "tenant" => AuthKind[c] = "register",
           to = "insert" => c \in Creators,
           to \in {"consume", "exchange"} => AuthKind[c] = "callback",
           to \in {"readTenant", "keyTenant"} => AuthKind[c] = "request",
           to = "keyed" => AuthKind[c] \in {"request", "socket"},
           to \in {"tokens", "readTenant", "keyTenant", "keyed"} => subject'[c] \in Here,
           c \in Here => to \in {"tokens", "answered", "refused"} /\ subject'[c] = c,
           NEW d \in AuthCalls
    PROVE  StepsFit(d)'
<1> USE DEF AccountsInv, AuthTypeInv, AccountsTypeOK
<1>1. CASE d = c
  <2>1. step'[c] = to BY DEF Moves
  <2>2. c \in Here => c \in Creators /\ users'[c].email = EmailOf[c] BY DEF StepsFit
  <2> QED BY <1>1, <2>1, <2>2 DEF StepsFit
<1>2. CASE d # c
  <2>1. step'[d] = step[d] /\ subject'[d] = subject[d] BY <1>2 DEF Moves
  <2>2. StepsFit(d) OBVIOUS
  <2> QED BY <2>1, <2>2 DEF StepsFit
<1> QED BY <1>1, <1>2

LEMMA SlugsStay ==
    ASSUME AccountsInv, NEW c \in AuthCalls, NEW to, Moves(c, to), tenantStatus' = tenantStatus,
           holds' = [holds EXCEPT ![c] =
               IF to = "insert" /\ AuthKind[c] = "register" /\ TenantOf[c] = Personal THEN SlugOf[c] ELSE Nobody],
           to = "insert" /\ AuthKind[c] = "register" /\ TenantOf[c] = Personal =>
               /\ tenantStatus[SlugOf[c]] = "none" /\ \A d \in AuthCalls : holds[d] # SlugOf[c],
           NEW d \in AuthCalls
    PROVE  SlugHeld(d)'
<1> USE DEF AccountsInv, AuthTypeInv, AccountsTypeOK
<1>1. SlugHeld(d) /\ SlugHeld(c) OBVIOUS
<1>2. SlugOf[c] # Nobody /\ SlugOf[d] # Nobody BY AccountsAssumption DEF AccountsAssumption, Slugs
<1>3. \A e \in AuthCalls \ {c} : step'[e] = step[e] /\ holds'[e] = holds[e] BY DEF Moves
<1>4. step'[c] = to BY DEF Moves
<1>5. holds'[c] = IF to = "insert" /\ AuthKind[c] = "register" /\ TenantOf[c] = Personal THEN SlugOf[c] ELSE Nobody
  OBVIOUS
<1>6. CASE d = c BY <1>2, <1>3, <1>4, <1>5, <1>6 DEF SlugHeld
<1>7. CASE d # c BY <1>1, <1>2, <1>3, <1>5, <1>7 DEF SlugHeld
<1> QED BY <1>6, <1>7

AccountsKeep == AuthTypeInv' /\ Onward /\ \A d \in AuthCalls : StepsFit(d)' /\ SlugHeld(d)'

\* A call begins, or is under way.
Going(c) ==
    \/ UnderWay(c) /\ UNCHANGED <<overlap, lateFor, closedFor>>
    \/ step[c] = "idle" /\ Arrives(c)

LEMMA RefusalKeeps ==
    ASSUME AccountsInv, NEW c \in AuthCalls, Refuses(c), Going(c),
           c \in Here => tenantStatus[users[c].tenant] # "active"
    PROVE  AccountsKeep
<1> USE DEF Going
<1>1. /\ Moves(c, "refused") /\ UNCHANGED <<tenantStatus, users, oauthState, subject, tokens>>
      /\ holds' = [holds EXCEPT ![c] = Nobody]
  BY DEF Refuses
<1>2. Onward BY RefusesOn
<1>3. "refused" \in Steps BY DEF Steps
<1>4. Here' = Here BY <1>1 DEF Here
<1>5. AuthTypeInv'
  <2>1. /\ oauthState' \in [OAuthStates -> {"unused", "open", "gone"}]
        /\ subject' \in [AuthCalls -> AuthCalls \cup {Nobody}]
        /\ tokens' \in [AuthCalls -> AuthCalls \cup {Nobody}]
        /\ holds' \in [AuthCalls -> Slugs \cup {Nobody}]
    BY <1>1 DEF AccountsInv, AuthTypeInv, AccountsTypeOK
  <2> QED BY <1>1, <1>3, <2>1, TypesStay DEF AccountsInv
<1>6. \A d \in AuthCalls : StepsFit(d)'
  <2>1. c \in Here => subject'[c] = c BY <1>1 DEF AccountsInv, StepsFit
  <2>2. \A u \in Here : users'[u].email = users[u].email BY <1>1
  <2>3. \A d \in AuthCalls \ {c} : subject'[d] = subject[d] BY <1>1
  <2> QED BY <1>1, <1>4, <2>1, <2>2, <2>3, StepsStay
<1>7. \A d \in AuthCalls : SlugHeld(d)' BY <1>1, SlugsStay
<1> QED BY <1>2, <1>5, <1>6, <1>7 DEF AccountsKeep

\* A step that lets nobody in, and leaves tenants, users, subjects and tokens alone.
LEMMA QuietKeeps ==
    ASSUME AccountsInv, NEW c \in AuthCalls, Going(c), c \notin Here,
           NEW to \in {"tenant", "insert", "consume", "exchange"}, Moves(c, to),
           UNCHANGED <<tenantStatus, users, subject, tokens>>,
           oauthState' \in [OAuthStates -> {"unused", "open", "gone"}], StatesOn,
           to = "tenant" => AuthKind[c] = "register",
           to = "insert" => c \in Creators,
           to \in {"consume", "exchange"} => AuthKind[c] = "callback",
           to \in {"tenant", "insert"} => step[c] = "tenant" \/ WithEmail(EmailOf[c]) = {},
           AuthKind[c] = "callback" =>
               /\ step[c] \in PastState \/ (step[c] = "idle" /\ to = "consume" /\ oauthState[StateOf[c]] = "open")
               /\ to = "consume" \/ step[c] \in PastState \ {"consume"} \/ oauthState'[StateOf[c]] = "gone",
           holds' = [holds EXCEPT ![c] =
               IF to = "insert" /\ AuthKind[c] = "register" /\ TenantOf[c] = Personal THEN SlugOf[c] ELSE Nobody],
           to = "insert" /\ AuthKind[c] = "register" /\ TenantOf[c] = Personal =>
               /\ tenantStatus[SlugOf[c]] = "none" /\ \A d \in AuthCalls : holds[d] # SlugOf[c]
    PROVE  AccountsKeep
<1> USE DEF Going
<1>1. UsersOn BY UsersStay
<1>2. PairsOn BY PairsStay DEF AccountsInv
<1>3. \A d \in AuthCalls \ {c} : subject'[d] = subject[d] OBVIOUS
<1>4. \A d \in AuthCalls \ {c} : LooksOn(d) /\ LateOn(d) BY <1>3, OthersStay DEF AccountsInv
<1>5. LooksOn(c) /\ LateOn(c)
  <2>1. to \notin {"tokens", "readTenant", "answered", "refused"} OBVIOUS
  <2>2. to \in {"tenant", "insert"} =>
          step[c] \in {"tenant", "insert"} \/ (users' = users /\ WithEmail(EmailOf[c]) = {})
    OBVIOUS
  <2>3. UNCHANGED <<lateFor, closedFor>> \/ (Arrives(c) /\ UNCHANGED <<users, tenantStatus>>) OBVIOUS
  <2> QED BY <2>1, <2>2, <2>3, GoesOn
<1>6. AuthTypeInv'
  <2>1. /\ to \in Steps
        /\ subject' \in [AuthCalls -> AuthCalls \cup {Nobody}]
        /\ tokens' \in [AuthCalls -> AuthCalls \cup {Nobody}]
    BY DEF AccountsInv, AuthTypeInv, AccountsTypeOK, Steps
  <2>2. SlugOf[c] \in Slugs BY DEF Slugs
  <2>3. holds' \in [AuthCalls -> Slugs \cup {Nobody}] BY <2>2 DEF AccountsInv, AuthTypeInv, AccountsTypeOK
  <2> QED BY <1>3, <2>1, <2>3, TypesStay DEF AccountsInv
<1>7. \A d \in AuthCalls : StepsFit(d)'
  <2>1. Here' = Here /\ \A u \in Here : users'[u].email = users[u].email BY DEF Here
  <2> QED BY <1>3, <2>1, StepsStay
<1>8. \A d \in AuthCalls : SlugHeld(d)' BY SlugsStay
<1> QED BY <1>1, <1>2, <1>4, <1>5, <1>6, <1>7, <1>8 DEF AccountsKeep, Onward

\* Somebody active is about to be let in.
LEMMA LetsInKeeps ==
    ASSUME AccountsInv, NEW c \in AuthCalls, Going(c), c \notin Creators,
           NEW to \in {"tokens", "readTenant"}, Moves(c, to), to = "readTenant" => AuthKind[c] = "request",
           NEW u \in AuthCalls, users[u].active, subject' = [subject EXCEPT ![c] = u],
           UNCHANGED <<tenantStatus, users, oauthState, holds, tokens>>
    PROVE  AccountsKeep
<1> USE DEF Going
<1>1. UsersOn /\ StatesOn BY UsersStay, StatesStay
<1>2. PairsOn BY PairsStay DEF AccountsInv
<1>3. /\ \A d \in AuthCalls \ {c} : subject'[d] = subject[d]
      /\ subject'[c] = u /\ subject' \in [AuthCalls -> AuthCalls \cup {Nobody}]
  BY DEF AccountsInv, AuthTypeInv, AccountsTypeOK
<1>4. \A d \in AuthCalls \ {c} : LooksOn(d) /\ LateOn(d) BY <1>3, OthersStay DEF AccountsInv
<1>5. u \in Here BY DEF Here, NoUser
<1>6. step'[c] = to BY DEF Moves, AccountsInv, AuthTypeInv, AccountsTypeOK
<1>7. LooksOn(c) BY <1>6 DEF LooksOn, Creators, Of
<1>8. \/ lateFor'[c] = lateFor[c]
      \/ lateFor'[c] = {x \in Here : Out(x)} /\ c \notin Creators /\ UNCHANGED <<users, tenantStatus>>
  BY DEF Arrives, AccountsInv, AuthTypeInv
<1>14. \/ closedFor'[c] = closedFor[c]
       \/ /\ \A t \in closedFor'[c] : t \in GivenTenants \cup Slugs /\ tenantStatus[t] = "suspended"
          /\ tenantStatus' = tenantStatus
  BY DEF Arrives, AccountsInv, AuthTypeInv
<1>9. LateOn(c) BY <1>3, <1>5, <1>6, <1>8, <1>14 DEF LateOn
<1>10. c \notin Here BY DEF AccountsInv, StepsFit
<1>11. AuthTypeInv'
  <2>1. /\ oauthState' \in [OAuthStates -> {"unused", "open", "gone"}]
        /\ tokens' \in [AuthCalls -> AuthCalls \cup {Nobody}]
        /\ holds' \in [AuthCalls -> Slugs \cup {Nobody}] /\ to \in Steps
    BY DEF AccountsInv, AuthTypeInv, AccountsTypeOK, Steps
  <2> QED BY <1>3, <1>5, <2>1, TypesStay DEF AccountsInv
<1>12. \A d \in AuthCalls : StepsFit(d)'
  <2>1. Here' = Here /\ \A x \in Here : users'[x].email = users[x].email BY DEF Here
  <2> QED BY <1>3, <1>5, <1>10, <2>1, StepsStay
<1>13. \A d \in AuthCalls : SlugHeld(d)'
  <2>1. holds[c] = Nobody BY DEF AccountsInv, SlugHeld, Creators, Of
  <2>2. holds' = [holds EXCEPT ![c] = Nobody] BY <2>1 DEF AccountsInv, AuthTypeInv, AccountsTypeOK
  <2> QED BY <2>2, SlugsStay
<1> QED BY <1>1, <1>2, <1>4, <1>7, <1>9, <1>11, <1>12, <1>13 DEF AccountsKeep, Onward

\* A call that holds no slug still holds none.
LEMMA HoldsNone ==
    ASSUME AccountsInv, NEW c \in AuthCalls, holds' = holds, holds[c] = Nobody
    PROVE  holds' = [holds EXCEPT ![c] = Nobody]
BY DEF AccountsInv, AuthTypeInv, AccountsTypeOK

LEMMA RegisterChecksKeeps ==
    ASSUME AccountsInv, NEW c \in AuthCalls, RegisterChecks(c) PROVE AccountsKeep
<1>1. AuthKind[c] = "register" /\ step[c] = "idle" /\ Arrives(c) BY DEF RegisterChecks
<1>2. Going(c) /\ c \notin Here BY <1>1 DEF Going, AccountsInv, StepsFit
<1>3. CASE WithEmail(EmailOf[c]) # {} BY <1>2, <1>3, RefusalKeeps DEF RegisterChecks
<1>4. CASE WithEmail(EmailOf[c]) = {}
  <2>1. Moves(c, "tenant") /\ UNCHANGED <<tenantStatus, users, oauthState, subject, holds, tokens>>
    BY <1>4 DEF RegisterChecks
  <2>2. holds[c] = Nobody BY <1>1 DEF AccountsInv, SlugHeld
  <2>3. holds' = [holds EXCEPT ![c] = Nobody] BY <2>1, <2>2, HoldsNone
  <2>4. StatesOn BY <2>1, StatesStay
  <2>5. oauthState' \in [OAuthStates -> {"unused", "open", "gone"}]
    BY <2>1 DEF AccountsInv, AuthTypeInv, AccountsTypeOK
  <2> QED BY <1>1, <1>2, <1>4, <2>1, <2>3, <2>4, <2>5, QuietKeeps
<1> QED BY <1>3, <1>4

LEMMA RegisterTenantKeeps ==
    ASSUME AccountsInv, NEW c \in AuthCalls, RegisterTenant(c) PROVE AccountsKeep
<1>1. step[c] = "tenant" /\ UNCHANGED <<off, overlap, lateFor, closedFor>> BY DEF RegisterTenant
<1>2. AuthKind[c] = "register" /\ c \in Creators BY <1>1 DEF AccountsInv, StepsFit, Creators, Of
<1>3. Going(c) /\ c \notin Here BY <1>1 DEF Going, UnderWay, AccountsInv, StepsFit
<1>4. ASSUME Moves(c, "insert"), UNCHANGED <<tenantStatus, users, oauthState, subject, tokens>>,
             holds' = [holds EXCEPT ![c] = IF TenantOf[c] = Personal THEN SlugOf[c] ELSE Nobody],
             TenantOf[c] = Personal =>
                 tenantStatus[SlugOf[c]] = "none" /\ \A d \in AuthCalls : holds[d] # SlugOf[c]
      PROVE  AccountsKeep
  <2>1. StatesOn BY <1>4, StatesStay
  <2>2. oauthState' \in [OAuthStates -> {"unused", "open", "gone"}]
    BY <1>4 DEF AccountsInv, AuthTypeInv, AccountsTypeOK
  <2> QED BY <1>1, <1>2, <1>3, <1>4, <2>1, <2>2, QuietKeeps
<1>5. CASE TenantOf[c] # Personal
  <2>1. holds[c] = Nobody BY <1>1 DEF AccountsInv, SlugHeld
  <2>2. holds' = [holds EXCEPT ![c] = Nobody] BY <1>5, <2>1, HoldsNone DEF RegisterTenant
  <2> QED BY <1>4, <1>5, <2>2 DEF RegisterTenant
<1>6. CASE TenantOf[c] = Personal /\ tenantStatus[SlugOf[c]] # "none"
  BY <1>3, <1>6, RefusalKeeps DEF RegisterTenant
<1>7. CASE TenantOf[c] = Personal /\ tenantStatus[SlugOf[c]] = "none"
  BY <1>4, <1>7 DEF RegisterTenant
<1> QED BY <1>5, <1>6, <1>7

\* A call with a key that was found, or whose tenant is active.
LEMMA KeyedKeeps ==
    ASSUME AccountsInv, NEW c \in AuthCalls, Going(c), c \notin Creators, NEW u \in Here,
           subject' = [subject EXCEPT ![c] = u], UNCHANGED <<tenantStatus, users, oauthState, holds, tokens>>,
           NEW to \in {"keyTenant", "keyed"}, Moves(c, to),
           to = "keyTenant" => AuthKind[c] = "request", AuthKind[c] \in {"request", "socket"},
           to = "keyed" /\ AuthKind[c] = "request" =>
               /\ step[c] = "keyTenant" /\ subject[c] = u /\ tenantStatus[users[u].tenant] = "active"
               /\ UNCHANGED closedFor
    PROVE  AccountsKeep
<1> USE DEF Going
<1>1. UsersOn /\ StatesOn BY UsersStay, StatesStay
<1>2. PairsOn BY PairsStay DEF AccountsInv
<1>3. u \in AuthCalls BY DEF Here
<1>4. /\ \A d \in AuthCalls \ {c} : subject'[d] = subject[d]
      /\ subject'[c] = u /\ subject' \in [AuthCalls -> AuthCalls \cup {Nobody}]
  BY <1>3 DEF AccountsInv, AuthTypeInv, AccountsTypeOK
<1>5. \A d \in AuthCalls \ {c} : LooksOn(d) /\ LateOn(d) BY <1>4, OthersStay DEF AccountsInv
<1>6. step'[c] = to BY DEF Moves, AccountsInv, AuthTypeInv, AccountsTypeOK
<1>7. LooksOn(c) BY <1>6 DEF LooksOn, PastState
<1>8. \/ lateFor'[c] = lateFor[c]
      \/ lateFor'[c] = {x \in Here : Out(x)} /\ c \notin Creators /\ UNCHANGED <<users, tenantStatus>>
  BY DEF Arrives, AccountsInv, AuthTypeInv
<1>9. \/ closedFor'[c] = closedFor[c]
      \/ /\ \A t \in closedFor'[c] : t \in GivenTenants \cup Slugs /\ tenantStatus[t] = "suspended"
         /\ tenantStatus' = tenantStatus
  BY DEF Arrives, AccountsInv, AuthTypeInv
<1>10. LateOn(c) BY <1>4, <1>6, <1>8, <1>9 DEF LateOn
<1>11. c \notin Here BY DEF AccountsInv, StepsFit
<1>12. AuthTypeInv'
  <2>1. /\ oauthState' \in [OAuthStates -> {"unused", "open", "gone"}]
        /\ tokens' \in [AuthCalls -> AuthCalls \cup {Nobody}]
        /\ holds' \in [AuthCalls -> Slugs \cup {Nobody}] /\ to \in Steps
    BY DEF AccountsInv, AuthTypeInv, AccountsTypeOK, Steps
  <2> QED BY <1>4, <2>1, TypesStay DEF AccountsInv
<1>13. \A d \in AuthCalls : StepsFit(d)'
  <2>1. Here' = Here /\ \A x \in Here : users'[x].email = users[x].email BY DEF Here
  <2> QED BY <1>4, <1>11, <2>1, StepsStay
<1>14. \A d \in AuthCalls : SlugHeld(d)'
  <2>1. holds[c] = Nobody BY DEF AccountsInv, SlugHeld, Creators, Of
  <2>2. holds' = [holds EXCEPT ![c] = Nobody] BY <2>1 DEF AccountsInv, AuthTypeInv, AccountsTypeOK
  <2> QED BY <2>2, SlugsStay
<1> QED BY <1>1, <1>2, <1>5, <1>7, <1>10, <1>12, <1>13, <1>14 DEF AccountsKeep, Onward

\* No token is taken: a key is found, or the request is refused.
LEMMA NoTokenKeeps ==
    ASSUME AccountsInv, NEW c \in AuthCalls, AuthKind[c] = "request", Going(c), NoToken(c)
    PROVE  AccountsKeep
<1>1. c \notin Creators BY DEF Creators, Of
<1>2. c \notin Here BY <1>1 DEF AccountsInv, StepsFit
<1>3. CASE Refuses(c) BY <1>2, <1>3, RefusalKeeps
<1>4. CASE KeyFound(c, "keyTenant")
  <2>1. PICK u \in Here : subject' = [subject EXCEPT ![c] = u] BY <1>4 DEF KeyFound
  <2>2. Moves(c, "keyTenant") /\ UNCHANGED <<tenantStatus, users, oauthState, holds, tokens>>
    BY <1>4 DEF KeyFound
  <2> QED BY <1>1, <2>1, <2>2, KeyedKeeps
<1> QED BY <1>3, <1>4 DEF NoToken

\* The two ends of a key: of a request, and of a socket.
LEMMA KeysKeep ==
    ASSUME AccountsInv, NEW c \in AuthCalls, KeyReadsTenant(c) \/ SocketOpens(c) PROVE AccountsKeep
<1>1. CASE KeyReadsTenant(c)
  <2>1. step[c] = "keyTenant" /\ UNCHANGED <<overlap, lateFor, closedFor>> BY <1>1 DEF KeyReadsTenant
  <2>2. AuthKind[c] = "request" /\ subject[c] \in Here /\ c \notin Creators
    BY <2>1 DEF AccountsInv, StepsFit, Creators, Of
  <2>3. Going(c) /\ c \notin Here BY <2>1 DEF Going, UnderWay, AccountsInv, StepsFit
  <2>4. CASE tenantStatus[users[subject[c]].tenant] # "active"
    BY <1>1, <2>3, <2>4, RefusalKeeps DEF KeyReadsTenant
  <2>5. CASE tenantStatus[users[subject[c]].tenant] = "active"
    <3>1. Moves(c, "keyed") /\ UNCHANGED <<tenantStatus, users, oauthState, subject, holds, tokens>>
      BY <1>1, <2>5 DEF KeyReadsTenant
    <3>2. subject' = [subject EXCEPT ![c] = subject[c]] BY <3>1 DEF AccountsInv, AuthTypeInv, AccountsTypeOK
    <3> QED BY <2>1, <2>2, <2>3, <2>5, <3>1, <3>2, KeyedKeeps
  <2> QED BY <2>4, <2>5
<1>2. CASE SocketOpens(c)
  <2>1. AuthKind[c] = "socket" /\ step[c] = "idle" /\ Arrives(c) BY <1>2 DEF SocketOpens
  <2>2. Going(c) /\ c \notin Here /\ c \notin Creators
    BY <2>1 DEF Going, AccountsInv, StepsFit, Creators, Of
  <2>3. CASE Refuses(c) BY <2>2, <2>3, RefusalKeeps
  <2>4. CASE KeyFound(c, "keyed")
    <3>1. PICK u \in Here : subject' = [subject EXCEPT ![c] = u] BY <2>4 DEF KeyFound
    <3>2. Moves(c, "keyed") /\ UNCHANGED <<tenantStatus, users, oauthState, holds, tokens>>
      BY <2>4 DEF KeyFound
    <3> QED BY <2>1, <2>2, <3>1, <3>2, KeyedKeeps
  <2> QED BY <1>2, <2>3, <2>4 DEF SocketOpens
<1> QED BY <1>1, <1>2

\* Login, refresh and the first half of a request.
LEMMA SignInKeeps ==
    ASSUME AccountsInv, NEW c \in AuthCalls, Login(c) \/ Refresh(c) \/ RequestReadsUser(c) PROVE AccountsKeep
<1>1. AuthKind[c] \in {"login", "refresh", "request"} /\ step[c] = "idle" /\ Arrives(c)
  BY DEF Login, Refresh, RequestReadsUser
<1>2. Going(c) /\ c \notin Here /\ c \notin Creators BY <1>1 DEF Going, AccountsInv, StepsFit, Creators, Of
<1>3. CASE Refuses(c) BY <1>2, <1>3, RefusalKeeps
<1>4. ASSUME NEW u \in AuthCalls, users[u].active, SignsIn(c, u) PROVE AccountsKeep
  BY <1>2, <1>4, LetsInKeeps DEF SignsIn
<1>5. ASSUME NEW u \in AuthCalls, users[u].active, AuthKind[c] = "request",
             subject' = [subject EXCEPT ![c] = u], Moves(c, "readTenant"),
             UNCHANGED <<tenantStatus, users, oauthState, holds, tokens>>
      PROVE  AccountsKeep
  BY <1>2, <1>5, LetsInKeeps
<1>6. PresentedTokens \subseteq AuthCalls BY DEF PresentedTokens, AccountsInv, AuthTypeInv, AccountsTypeOK
<1>7. \A e : WithEmail(e) \subseteq AuthCalls BY DEF WithEmail, Here
<1>8. CASE Login(c) BY <1>3, <1>4, <1>7, <1>8 DEF Login
<1>9. CASE Refresh(c) BY <1>3, <1>4, <1>6, <1>9 DEF Refresh
<1>10. CASE RequestReadsUser(c)
  <2>1. AuthKind[c] = "request" BY <1>10 DEF RequestReadsUser
  <2>2. CASE NoToken(c) BY <1>2, <2>1, <2>2, NoTokenKeeps
  <2> QED BY <1>5, <1>6, <1>10, <2>1, <2>2 DEF RequestReadsUser
<1> QED BY <1>8, <1>9, <1>10

\* The call is answered: the tenant is active.
LEMMA AnswersKeeps ==
    ASSUME AccountsInv, NEW c \in AuthCalls, step[c] \in {"tokens", "readTenant"}, Moves(c, "answered"),
           tenantStatus[users[subject[c]].tenant] = "active",
           UNCHANGED <<tenantStatus, users, oauthState, subject, holds, overlap, lateFor, closedFor>>,
           tokens' \in [AuthCalls -> AuthCalls \cup {Nobody}]
    PROVE  AccountsKeep
<1>1. UsersOn /\ StatesOn BY UsersStay, StatesStay
<1>2. PairsOn BY PairsStay DEF AccountsInv, UnderWay
<1>3. \A d \in AuthCalls \ {c} : LooksOn(d) /\ LateOn(d) BY OthersStay DEF AccountsInv
<1>4. step'[c] = "answered" BY DEF Moves, AccountsInv, AuthTypeInv, AccountsTypeOK
<1>5. LooksOn(c)
  <2>1. AuthKind[c] = "callback" => step[c] = "tokens" BY DEF AccountsInv, StepsFit
  <2> QED BY <1>4, <2>1 DEF LooksOn, PastState
<1>6. LateOn(c) BY <1>4 DEF LateOn
<1>7. AuthTypeInv'
  <2>1. /\ oauthState' \in [OAuthStates -> {"unused", "open", "gone"}]
        /\ subject' \in [AuthCalls -> AuthCalls \cup {Nobody}]
        /\ holds' \in [AuthCalls -> Slugs \cup {Nobody}] /\ "answered" \in Steps
    BY DEF AccountsInv, AuthTypeInv, AccountsTypeOK, Steps
  <2> QED BY <2>1, TypesStay DEF AccountsInv
<1>8. \A d \in AuthCalls : StepsFit(d)'
  <2>1. Here' = Here /\ \A x \in Here : users'[x].email = users[x].email BY DEF Here
  <2>2. c \in Here => subject'[c] = c BY DEF AccountsInv, StepsFit
  <2> QED BY <2>1, <2>2, StepsStay
<1>9. \A d \in AuthCalls : SlugHeld(d)'
  <2>1. holds[c] = Nobody BY DEF AccountsInv, SlugHeld
  <2>2. holds' = [holds EXCEPT ![c] = Nobody] BY <2>1, HoldsNone
  <2> QED BY <2>2, SlugsStay
<1> QED BY <1>1, <1>2, <1>3, <1>5, <1>6, <1>7, <1>8, <1>9 DEF AccountsKeep, Onward

LEMMA TokensKeeps ==
    ASSUME AccountsInv, NEW c \in AuthCalls, IssueTokens(c) \/ RequestReadsTenant(c) PROVE AccountsKeep
<1>1. /\ step[c] \in {"tokens", "readTenant"} /\ UNCHANGED <<overlap, lateFor, closedFor>>
      /\ \/ tenantStatus[users[subject[c]].tenant] # "active" /\ Refuses(c)
         \/ step[c] = "readTenant" /\ NoToken(c)
         \/ /\ tenantStatus[users[subject[c]].tenant] = "active" /\ Moves(c, "answered")
            /\ UNCHANGED <<tenantStatus, users, oauthState, subject, holds>>
            /\ tokens' = tokens \/ tokens' = [tokens EXCEPT ![c] = subject[c]]
  BY DEF IssueTokens, RequestReadsTenant
<1>2. Going(c) BY <1>1 DEF Going, UnderWay
<1>3. c \in Here => subject[c] = c BY DEF AccountsInv, StepsFit
<1>4. tokens' = tokens \/ tokens' = [tokens EXCEPT ![c] = subject[c]] =>
        tokens' \in [AuthCalls -> AuthCalls \cup {Nobody}]
  BY DEF AccountsInv, AuthTypeInv, AccountsTypeOK
<1>5. CASE Refuses(c) /\ tenantStatus[users[subject[c]].tenant] # "active" BY <1>2, <1>3, <1>5, RefusalKeeps
<1>6. CASE /\ tenantStatus[users[subject[c]].tenant] = "active" /\ Moves(c, "answered")
           /\ UNCHANGED <<tenantStatus, users, oauthState, subject, holds>>
           /\ tokens' = tokens \/ tokens' = [tokens EXCEPT ![c] = subject[c]]
  BY <1>1, <1>4, <1>6, AnswersKeeps
<1>7. CASE step[c] = "readTenant" /\ NoToken(c)
  <2>1. AuthKind[c] = "request" BY <1>7 DEF AccountsInv, StepsFit
  <2> QED BY <1>2, <1>7, <2>1, NoTokenKeeps
<1> QED BY <1>1, <1>5, <1>6, <1>7

\* The state is looked at, and deleted.
LEMMA CallbackStateKeeps ==
    ASSUME AccountsInv, NEW c \in AuthCalls, CallbackSelects(c) \/ CallbackConsumes(c) PROVE AccountsKeep
<1>1. CASE CallbackSelects(c)
  <2>1. AuthKind[c] = "callback" /\ step[c] = "idle" /\ Arrives(c) BY <1>1 DEF CallbackSelects
  <2>2. Going(c) /\ c \notin Here BY <2>1 DEF Going, AccountsInv, StepsFit
  <2>3. CASE oauthState[StateOf[c]] # "open" BY <1>1, <2>2, <2>3, RefusalKeeps DEF CallbackSelects
  <2>4. CASE oauthState[StateOf[c]] = "open"
    <3>1. Moves(c, "consume") /\ UNCHANGED <<tenantStatus, users, oauthState, subject, holds, tokens>>
      BY <1>1, <2>4 DEF CallbackSelects
    <3>2. holds[c] = Nobody BY <2>1 DEF AccountsInv, SlugHeld
    <3>3. holds' = [holds EXCEPT ![c] = Nobody] BY <3>1, <3>2, HoldsNone
    <3>4. StatesOn BY <3>1, StatesStay
    <3>5. oauthState' \in [OAuthStates -> {"unused", "open", "gone"}]
      BY <3>1 DEF AccountsInv, AuthTypeInv, AccountsTypeOK
    <3> QED BY <2>1, <2>2, <2>4, <3>1, <3>3, <3>4, <3>5, QuietKeeps
  <2> QED BY <2>3, <2>4
<1>2. CASE CallbackConsumes(c)
  <2>1. /\ step[c] = "consume" /\ Moves(c, "exchange")
        /\ oauthState' = [oauthState EXCEPT ![StateOf[c]] = "gone"]
        /\ UNCHANGED <<tenantStatus, users, subject, holds, tokens, off, overlap, lateFor, closedFor>>
    BY <1>2 DEF CallbackConsumes
  <2>2. AuthKind[c] = "callback" /\ Going(c) /\ c \notin Here
    BY <2>1 DEF Going, UnderWay, AccountsInv, StepsFit
  <2>3. StateOf[c] \in OAuthStates BY <2>2, AccountsAssumption DEF AccountsAssumption, Of
  <2>4. oauthState' \in [OAuthStates -> {"unused", "open", "gone"}] /\ StatesOn /\ oauthState'[StateOf[c]] = "gone"
    BY <2>1, <2>3 DEF AccountsInv, AuthTypeInv, AccountsTypeOK, StatesOn
  <2>5. holds[c] = Nobody BY <2>1 DEF AccountsInv, SlugHeld
  <2>6. holds' = [holds EXCEPT ![c] = Nobody] BY <2>1, <2>5, HoldsNone
  <2>7. step[c] \in PastState BY <2>1 DEF PastState
  <2> QED BY <2>1, <2>2, <2>4, <2>6, <2>7, QuietKeeps
<1> QED BY <1>1, <1>2

\* A user's row changes, but not the tenant, the email or, if it was off, whether it is active.
LEMMA UserChanges ==
    ASSUME AccountsInv, NEW u \in Here, NEW r \in User, users' = [users EXCEPT ![u] = r],
           r.tenant = users[u].tenant, r.email = users[u].email, r.active => users[u].active,
           tenantStatus' = tenantStatus
    PROVE  /\ UsersOn /\ Here' = Here
           /\ users' \in [AuthCalls -> User \cup {NoUser}]
           /\ \A x \in Here : tenantStatus'[users'[x].tenant] # "none"
           /\ \A x \in Here : users'[x].email = users[x].email
<1>1. users \in [AuthCalls -> User \cup {NoUser}] /\ \A x \in Here : tenantStatus[users[x].tenant] # "none"
  BY DEF AccountsInv, AuthTypeInv
<1>2. u \in AuthCalls /\ users'[u] = r /\ \A x \in AuthCalls \ {u} : users'[x] = users[x] BY <1>1 DEF Here
<1>3. r # NoUser BY AccountsAssumption DEF AccountsAssumption, User, NoUser
<1>4. Here' = Here BY <1>2, <1>3 DEF Here
<1>5. \A x \in Here : /\ users'[x].tenant = users[x].tenant /\ users'[x].email = users[x].email
                       /\ users'[x].active => users[x].active
  BY <1>2 DEF Here
<1>6. UsersOn BY <1>4, <1>5 DEF UsersOn
<1>7. users' \in [AuthCalls -> User \cup {NoUser}] BY <1>1
<1> QED BY <1>1, <1>4, <1>5, <1>6, <1>7

LEMMA LinkKeeps ==
    ASSUME AccountsInv, NEW c \in AuthCalls, step[c] = "exchange", NEW u \in Here,
           users' = [users EXCEPT ![u] = [@ EXCEPT !.link = EmailOf[c]]],
           subject' = [subject EXCEPT ![c] = u], Moves(c, "tokens"),
           UNCHANGED <<tenantStatus, oauthState, holds, tokens, overlap, lateFor, closedFor>>
    PROVE  AccountsKeep
<1>1. AuthKind[c] = "callback" /\ c \in Creators /\ c \notin Here /\ UnderWay(c)
  BY DEF AccountsInv, StepsFit, Creators, Of, UnderWay
<1>2. users[u] \in User /\ u \in AuthCalls BY DEF AccountsInv, AuthTypeInv, Here
<1>3. PICK r : r = [users[u] EXCEPT !.link = EmailOf[c]] OBVIOUS
<1>4. r \in User /\ r.tenant = users[u].tenant /\ r.email = users[u].email /\ (r.active => users[u].active)
  BY <1>2, <1>3 DEF User
<1>5. users' = [users EXCEPT ![u] = r] BY <1>3
<1>6. /\ UsersOn /\ Here' = Here
      /\ users' \in [AuthCalls -> User \cup {NoUser}]
      /\ \A x \in Here : tenantStatus'[users'[x].tenant] # "none"
      /\ \A x \in Here : users'[x].email = users[x].email
  BY <1>4, <1>5, UserChanges
<1>7. StatesOn BY StatesStay
<1>8. PairsOn BY <1>1, PairsStay DEF AccountsInv
<1>9. /\ \A d \in AuthCalls \ {c} : subject'[d] = subject[d] /\ step'[d] = step[d]
      /\ subject'[c] = u /\ step'[c] = "tokens"
      /\ step' \in [AuthCalls -> Steps]
  BY DEF Moves, AccountsInv, AuthTypeInv, AccountsTypeOK, Steps
<1>10. \A d \in AuthCalls \ {c} : LooksOn(d) /\ LateOn(d) BY <1>9, OthersStay DEF AccountsInv
<1>11. LooksOn(c) /\ LateOn(c) BY <1>1, <1>9 DEF LooksOn, LateOn, PastState
<1>12. AuthTypeInv'
  <2>1. AccountsTypeOK' BY <1>2, <1>6, <1>9 DEF AccountsInv, AuthTypeInv, AccountsTypeOK
  <2> QED BY <1>6, <2>1 DEF AccountsInv, AuthTypeInv
<1>13. \A d \in AuthCalls : StepsFit(d)' BY <1>1, <1>6, <1>9, StepsStay
<1>14. \A d \in AuthCalls : SlugHeld(d)'
  <2>1. holds[c] = Nobody BY DEF AccountsInv, SlugHeld
  <2>2. holds' = [holds EXCEPT ![c] = Nobody] BY <2>1, HoldsNone
  <2> QED BY <2>2, SlugsStay
<1> QED BY <1>6, <1>7, <1>8, <1>10, <1>11, <1>12, <1>13, <1>14 DEF AccountsKeep, Onward

LEMMA CallbackExchangesKeeps ==
    ASSUME AccountsInv, NEW c \in AuthCalls, CallbackExchanges(c) PROVE AccountsKeep
<1>1. step[c] = "exchange" /\ UNCHANGED <<off, overlap, lateFor, closedFor>> BY DEF CallbackExchanges
<1>2. AuthKind[c] = "callback" /\ c \in Creators /\ c \notin Here /\ Going(c)
  BY <1>1 DEF AccountsInv, StepsFit, Creators, Of, UnderWay, Going
<1>3. CASE Refuses(c) BY <1>2, <1>3, RefusalKeeps
<1>4. ASSUME NEW u \in Here, users' = [users EXCEPT ![u] = [@ EXCEPT !.link = EmailOf[c]]],
             subject' = [subject EXCEPT ![c] = u], Moves(c, "tokens"),
             UNCHANGED <<tenantStatus, oauthState, holds, tokens>>
      PROVE  AccountsKeep
  BY <1>1, <1>4, LinkKeeps
<1>5. CASE /\ WithLink(EmailOf[c]) \cup WithEmail(EmailOf[c]) = {}
           /\ Moves(c, "insert")
           /\ UNCHANGED <<tenantStatus, users, oauthState, subject, holds, tokens>>
  <2>1. holds[c] = Nobody BY <1>1 DEF AccountsInv, SlugHeld
  <2>2. holds' = [holds EXCEPT ![c] = Nobody] BY <1>5, <2>1, HoldsNone
  <2>3. StatesOn BY <1>5, StatesStay
  <2>4. oauthState' \in [OAuthStates -> {"unused", "open", "gone"}]
    BY <1>5 DEF AccountsInv, AuthTypeInv, AccountsTypeOK
  <2>5. step[c] \in PastState \ {"consume"} BY <1>1 DEF PastState
  <2>6. WithEmail(EmailOf[c]) = {} BY <1>5
  <2> QED BY <1>2, <1>5, <2>2, <2>3, <2>4, <2>5, <2>6, QuietKeeps
<1> QED BY <1>3, <1>4, <1>5 DEF CallbackExchanges

\* A user is created, with its tenant if it is the call's own.
LEMMA CreationKeeps ==
    ASSUME AccountsInv, NEW c \in AuthCalls, step[c] = "insert",
           NEW tenant \in GivenTenants \cup Slugs, NEW link \in {Nobody, EmailOf[c]},
           users' = [users EXCEPT ![c] = NewUser(c, tenant, link)],
           subject' = [subject EXCEPT ![c] = c], Moves(c, "tokens"),
           tenantStatus' = IF holds[c] # Nobody THEN [tenantStatus EXCEPT ![holds[c]] = "active"] ELSE tenantStatus,
           holds' = [holds EXCEPT ![c] = Nobody],
           holds[c] # Nobody => holds[c] = tenant,
           holds[c] = Nobody => tenantStatus[tenant] # "none",
           UNCHANGED <<oauthState, tokens, overlap, lateFor, closedFor>>
    PROVE  AccountsKeep
<1>1. c \in Creators /\ c \notin Here /\ UnderWay(c) BY DEF AccountsInv, StepsFit, UnderWay
<1>2. PICK r : r = NewUser(c, tenant, link) OBVIOUS
<1>3. r \in User /\ r.tenant = tenant /\ r.email = EmailOf[c]
  <2>1. (link = Nobody) \in BOOLEAN OBVIOUS
  <2>2. EmailOf[c] \in {EmailOf[x] : x \in AuthCalls} OBVIOUS
  <2> QED BY <1>2, <2>1, <2>2 DEF NewUser, User
<1>4. r # NoUser BY <1>3, AccountsAssumption DEF AccountsAssumption, NoUser
<1>5. /\ users' \in [AuthCalls -> User \cup {NoUser}] /\ users'[c] = r
      /\ \A x \in AuthCalls \ {c} : users'[x] = users[x]
  BY <1>2, <1>3 DEF AccountsInv, AuthTypeInv
<1>6. Here' = Here \cup {c} BY <1>4, <1>5 DEF Here
<1>7. tenantStatus \in [GivenTenants \cup Slugs -> {"none", "active", "suspended"}] /\ holds[c] \in Slugs \cup {Nobody}
  BY DEF AccountsInv, AuthTypeInv, AccountsTypeOK
<1>8. holds[c] # Nobody => tenantStatus[tenant] = "none" BY DEF AccountsInv, SlugHeld
<1>9. /\ tenantStatus' \in [GivenTenants \cup Slugs -> {"none", "active", "suspended"}]
      /\ tenantStatus'[tenant] # "none"
      /\ \A t \in GivenTenants \cup Slugs : t # tenant => tenantStatus'[t] = tenantStatus[t]
      /\ tenantStatus[tenant] # "none" => tenantStatus'[tenant] = tenantStatus[tenant]
  BY <1>7, <1>8
<1>10. \A u \in Here : /\ users'[u] = users[u] /\ u \in AuthCalls
                        /\ users[u] \in User /\ tenantStatus[users[u].tenant] # "none"
  BY <1>1, <1>5 DEF AccountsInv, AuthTypeInv, Here
<1>11. step'[c] = "tokens" /\ subject'[c] = c /\ step' \in [AuthCalls -> Steps]
       /\ \A d \in AuthCalls \ {c} : step'[d] = step[d] /\ subject'[d] = subject[d]
  BY DEF Moves, AccountsInv, AuthTypeInv, AccountsTypeOK, Steps
<1>12. UsersOn
  <2>1. ASSUME NEW t \in GivenTenants \cup Slugs
        PROVE  /\ tenantStatus[t] # "none" => tenantStatus'[t] # "none"
               /\ tenantStatus[t] = "suspended" => tenantStatus'[t] = "suspended"
               /\ tenantStatus[t] = "none" /\ tenantStatus'[t] # "none" => \E u \in Here' : users'[u].tenant = t
    <3>1. CASE t = tenant BY <1>3, <1>5, <1>6, <1>9, <3>1
    <3>2. CASE t # tenant BY <1>9, <3>2
    <3> QED BY <3>1, <3>2
  <2>2. \A u \in Here' \ Here :
          step[u] = "insert" /\ u \in Creators /\ step'[u] = "tokens" /\ users'[u].email = EmailOf[u]
    BY <1>1, <1>3, <1>5, <1>6, <1>11
  <2> QED BY <1>6, <1>10, <2>1, <2>2 DEF UsersOn
<1>13. StatesOn BY StatesStay
<1>14. PairsOn BY <1>1, PairsStay DEF AccountsInv
<1>15. \A d \in AuthCalls \ {c} : LooksOn(d) /\ LateOn(d) BY <1>11, OthersStay DEF AccountsInv
<1>16. LooksOn(c) /\ LateOn(c) BY <1>1, <1>11 DEF LooksOn, LateOn, PastState
<1>17. AuthTypeInv'
  <2>1. \A x \in Here' : tenantStatus'[users'[x].tenant] # "none"
    <3>1. \A x \in Here : tenantStatus'[users'[x].tenant] # "none"
      <4>1. \A x \in Here : users[x].tenant \in GivenTenants \cup Slugs BY <1>10 DEF User
      <4> QED BY <1>9, <1>10, <4>1
    <3>2. tenantStatus'[users'[c].tenant] # "none" BY <1>3, <1>5, <1>9
    <3> QED BY <1>6, <3>1, <3>2
  <2>2. \A t \in GivenTenants : tenantStatus'[t] # "none" BY <1>9 DEF AccountsInv, AuthTypeInv
  <2>3. holds' \in [AuthCalls -> Slugs \cup {Nobody}] /\ subject' \in [AuthCalls -> AuthCalls \cup {Nobody}]
    BY DEF AccountsInv, AuthTypeInv, AccountsTypeOK
  <2>4. \A d \in AuthCalls : step'[d] = "tokens" => subject'[d] \in Here'
    BY <1>6, <1>11 DEF AccountsInv, AuthTypeInv, AccountsTypeOK
  <2>5. AccountsTypeOK' BY <1>9, <1>11, <2>3, <2>4 DEF AccountsInv, AuthTypeInv, AccountsTypeOK
  <2> QED BY <1>5, <2>1, <2>2, <2>5 DEF AccountsInv, AuthTypeInv
<1>18. ASSUME NEW d \in AuthCalls PROVE StepsFit(d)'
  <2>1. CASE d = c BY <1>1, <1>3, <1>5, <1>6, <1>11, <2>1 DEF StepsFit
  <2>2. CASE d # c
    <3>1. StepsFit(d) BY DEF AccountsInv
    <3> QED BY <1>5, <1>6, <1>11, <2>2, <3>1 DEF StepsFit
  <2> QED BY <2>1, <2>2
<1>19. ASSUME NEW d \in AuthCalls PROVE SlugHeld(d)'
  <2>1. holds'[c] = Nobody /\ \A e \in AuthCalls \ {c} : holds'[e] = holds[e]
    BY DEF AccountsInv, AuthTypeInv, AccountsTypeOK
  <2>2. CASE d = c BY <1>11, <2>1, <2>2 DEF SlugHeld
  <2>3. CASE d # c
    <3>1. SlugHeld(d) /\ SlugHeld(c) BY DEF AccountsInv
    <3>2. holds[d] # Nobody => holds[d] \in Slugs /\ tenantStatus[holds[d]] = "none" /\ holds[d] # holds[c]
      BY <2>3, <3>1 DEF SlugHeld, AccountsInv, AuthTypeInv, AccountsTypeOK
    <3>3. holds[d] # Nobody => holds[d] # tenant BY <3>2
    <3>4. holds[d] # Nobody => tenantStatus'[holds[d]] = "none" BY <1>9, <3>2, <3>3
    <3> QED BY <1>11, <2>1, <2>3, <3>1, <3>4 DEF SlugHeld
  <2> QED BY <2>2, <2>3
<1> QED BY <1>12, <1>13, <1>14, <1>15, <1>16, <1>17, <1>18, <1>19 DEF AccountsKeep, Onward

LEMMA InsertsKeep ==
    ASSUME AccountsInv, NEW c \in AuthCalls, RegisterInserts(c) \/ CallbackInserts(c) PROVE AccountsKeep
<1>1. step[c] = "insert" /\ UNCHANGED <<off, overlap, lateFor, closedFor>> BY DEF RegisterInserts, CallbackInserts
<1>2. c \notin Here /\ Going(c) BY <1>1 DEF AccountsInv, StepsFit, UnderWay, Going
<1>3. CASE Refuses(c) BY <1>2, <1>3, RefusalKeeps
<1>4. CASE RegisterInserts(c) /\ ~Refuses(c)
  <2> DEFINE tenant == IF TenantOf[c] = Personal THEN SlugOf[c] ELSE TenantOf[c]
  <2>1. /\ users' = [users EXCEPT ![c] = NewUser(c, tenant, Nobody)]
        /\ subject' = [subject EXCEPT ![c] = c] /\ Moves(c, "tokens")
        /\ tenantStatus' = IF holds[c] # Nobody THEN [tenantStatus EXCEPT ![holds[c]] = "active"] ELSE tenantStatus
        /\ holds' = [holds EXCEPT ![c] = Nobody] /\ UNCHANGED <<oauthState, tokens>> /\ AuthKind[c] = "register"
    BY <1>4 DEF RegisterInserts
  <2>2. tenant \in GivenTenants \cup Slugs BY AccountsAssumption DEF AccountsAssumption, Slugs
  <2>3. holds[c] = IF TenantOf[c] = Personal THEN SlugOf[c] ELSE Nobody
    BY <1>1, <2>1 DEF AccountsInv, SlugHeld
  <2>4. SlugOf[c] # Nobody BY AccountsAssumption DEF AccountsAssumption, Slugs
  <2>5. holds[c] # Nobody => holds[c] = tenant BY <2>3, <2>4
  <2>6. holds[c] = Nobody => tenantStatus[tenant] # "none"
    BY <2>3, <2>4, AccountsAssumption DEF AccountsAssumption, AccountsInv, AuthTypeInv
  <2> HIDE DEF tenant
  <2> QED BY <1>1, <2>1, <2>2, <2>5, <2>6, CreationKeeps
<1>5. CASE CallbackInserts(c) /\ ~Refuses(c)
  <2>1. /\ users' = [users EXCEPT ![c] = NewUser(c, TenantOf[c], EmailOf[c])]
        /\ subject' = [subject EXCEPT ![c] = c] /\ Moves(c, "tokens") /\ TenantOf[c] # Personal
        /\ tenantStatus[TenantOf[c]] = "active"
        /\ UNCHANGED <<tenantStatus, oauthState, holds, tokens>> /\ AuthKind[c] = "callback"
    BY <1>5 DEF CallbackInserts
  <2>2. TenantOf[c] \in GivenTenants \cup Slugs BY <2>1, AccountsAssumption DEF AccountsAssumption
  <2>3. holds[c] = Nobody BY <2>1 DEF AccountsInv, SlugHeld
  <2>4. holds' = [holds EXCEPT ![c] = Nobody] BY <2>1, <2>3, HoldsNone
  <2> QED BY <1>1, <2>1, <2>2, <2>3, <2>4, CreationKeeps
<1> QED BY <1>3, <1>4, <1>5

\* No call moves: the operators, and the states of the authorization code flow.
LEMMA StillKeeps ==
    ASSUME AccountsInv, UNCHANGED <<step, subject, holds, tokens, overlap, lateFor, closedFor>>, UsersOn, StatesOn, Here' = Here,
           users' \in [AuthCalls -> User \cup {NoUser}],
           oauthState' \in [OAuthStates -> {"unused", "open", "gone"}],
           tenantStatus' \in [GivenTenants \cup Slugs -> {"none", "active", "suspended"}],
           \A t \in Slugs : tenantStatus[t] = "none" => tenantStatus'[t] = "none"
    PROVE  AccountsKeep
<1>1. PairsOn BY DEF PairsOn, UnderWay
<1>2. \A d \in AuthCalls : LooksOn(d) /\ LateOn(d) BY DEF LooksOn, LateOn
<1>3. AuthTypeInv'
  <2>1. \A x \in Here : users[x].tenant \in GivenTenants \cup Slugs /\ users'[x].tenant = users[x].tenant
    BY DEF AccountsInv, AuthTypeInv, Here, User, UsersOn
  <2>2. \A x \in Here : tenantStatus'[users'[x].tenant] # "none" BY <2>1 DEF AccountsInv, AuthTypeInv, UsersOn
  <2>3. \A t \in GivenTenants : tenantStatus'[t] # "none" BY DEF AccountsInv, AuthTypeInv, UsersOn
  <2>4. AccountsTypeOK' BY DEF AccountsInv, AuthTypeInv, AccountsTypeOK
  <2> QED BY <2>2, <2>3, <2>4 DEF AccountsInv, AuthTypeInv
<1>4. ASSUME NEW d \in AuthCalls PROVE StepsFit(d)'
  <2>1. StepsFit(d) BY DEF AccountsInv
  <2> QED BY <2>1 DEF StepsFit, UsersOn
<1>5. ASSUME NEW d \in AuthCalls PROVE SlugHeld(d)'
  <2>1. SlugHeld(d) /\ holds[d] \in Slugs \cup {Nobody} BY DEF AccountsInv, AuthTypeInv, AccountsTypeOK
  <2> QED BY <2>1 DEF SlugHeld
<1> QED BY <1>1, <1>2, <1>3, <1>4, <1>5 DEF AccountsKeep, Onward

LEMMA OperatorsKeep ==
    ASSUME AccountsInv,
           \/ \E s \in OAuthStates : InitiateFlow(s) \/ StateExpires(s)
           \/ \E t \in GivenTenants \cup Slugs : Suspends(t)
           \/ \E u \in AuthCalls : Deactivates(u)
    PROVE  AccountsKeep
<1>0. /\ users \in [AuthCalls -> User \cup {NoUser}]
      /\ oauthState \in [OAuthStates -> {"unused", "open", "gone"}]
      /\ tenantStatus \in [GivenTenants \cup Slugs -> {"none", "active", "suspended"}]
  BY DEF AccountsInv, AuthTypeInv, AccountsTypeOK
<1>1. ASSUME NEW s \in OAuthStates, InitiateFlow(s) \/ StateExpires(s) PROVE AccountsKeep
  <2>1. UNCHANGED <<tenantStatus, users, step, subject, holds, tokens, overlap, lateFor, closedFor>>
    BY <1>1 DEF InitiateFlow, StateExpires
  <2>2. oauthState' \in [OAuthStates -> {"unused", "open", "gone"}] /\ StatesOn
    BY <1>0, <1>1 DEF InitiateFlow, StateExpires, CreateState, StatesOn
  <2>3. UsersOn /\ Here' = Here BY <2>1, UsersStay DEF Here
  <2> QED BY <1>0, <2>1, <2>2, <2>3, StillKeeps
<1>2. ASSUME NEW t \in GivenTenants \cup Slugs, Suspends(t) PROVE AccountsKeep
  <2>1. UNCHANGED <<users, oauthState, step, subject, holds, tokens, overlap, lateFor, closedFor>> BY <1>2 DEF Suspends
  <2>2. tenantStatus[t] = "active" /\ tenantStatus' = [tenantStatus EXCEPT ![t] = "suspended"] BY <1>2 DEF Suspends
  <2>3. Here' = Here BY <2>1 DEF Here
  <2>4. tenantStatus' \in [GivenTenants \cup Slugs -> {"none", "active", "suspended"}] BY <1>0, <2>2
  <2>5. \A x \in Slugs : tenantStatus[x] = "none" => tenantStatus'[x] = "none" BY <1>0, <2>2
  <2>6. UsersOn BY <1>0, <2>1, <2>2, <2>3 DEF UsersOn
  <2>7. StatesOn BY <2>1, StatesStay
  <2> QED BY <1>0, <2>1, <2>3, <2>4, <2>5, <2>6, <2>7, StillKeeps
<1>3. ASSUME NEW u \in AuthCalls, Deactivates(u) PROVE AccountsKeep
  <2>1. UNCHANGED <<tenantStatus, oauthState, step, subject, holds, tokens, overlap, lateFor, closedFor>> BY <1>3 DEF Deactivates
  <2>2. users[u].active /\ users' = [users EXCEPT ![u] = [@ EXCEPT !.active = FALSE]] BY <1>3 DEF Deactivates
  <2>3. u \in Here /\ users[u] \in User BY <1>0, <2>2 DEF Here, NoUser
  <2>4. PICK r : r = [users[u] EXCEPT !.active = FALSE] OBVIOUS
  <2>5. r \in User /\ r.tenant = users[u].tenant /\ r.email = users[u].email /\ (r.active => users[u].active)
    BY <2>2, <2>3, <2>4 DEF User
  <2>6. users' = [users EXCEPT ![u] = r] BY <2>2, <2>4
  <2>7. UsersOn /\ Here' = Here /\ users' \in [AuthCalls -> User \cup {NoUser}]
    BY <2>1, <2>3, <2>5, <2>6, UserChanges
  <2>8. StatesOn BY <2>1, StatesStay
  <2> QED BY <1>0, <2>1, <2>7, <2>8, StillKeeps
<1> QED BY <1>1, <1>2, <1>3

LEMMA AccountsStep == AccountsInv /\ [AccountsNext]_authVars => AccountsInv'
<1> SUFFICES ASSUME AccountsInv, [AccountsNext]_authVars PROVE AccountsInv' OBVIOUS
<1>1. ASSUME NEW c \in AuthCalls,
             \/ RegisterChecks(c) \/ RegisterTenant(c) \/ RegisterInserts(c) \/ IssueTokens(c)
             \/ Login(c) \/ Refresh(c)
             \/ CallbackSelects(c) \/ CallbackConsumes(c) \/ CallbackExchanges(c) \/ CallbackInserts(c)
             \/ RequestReadsUser(c) \/ RequestReadsTenant(c) \/ KeyReadsTenant(c) \/ SocketOpens(c)
      PROVE  AccountsKeep
  BY <1>1, KeysKeep, RegisterChecksKeeps, RegisterTenantKeeps, InsertsKeep, TokensKeeps, SignInKeeps,
     CallbackStateKeeps, CallbackExchangesKeeps
<1>2. ASSUME UNCHANGED authVars PROVE AccountsKeep
  <2>0. UNCHANGED <<tenantStatus, users, oauthState, step, subject, holds, tokens, overlap, lateFor, closedFor>>
    BY <1>2 DEF authVars
  <2>1. UsersOn /\ StatesOn /\ Here' = Here BY <2>0, UsersStay, StatesStay DEF Here
  <2>2. /\ users' \in [AuthCalls -> User \cup {NoUser}]
        /\ oauthState' \in [OAuthStates -> {"unused", "open", "gone"}]
        /\ tenantStatus' \in [GivenTenants \cup Slugs -> {"none", "active", "suspended"}]
        /\ \A t \in Slugs : tenantStatus[t] = "none" => tenantStatus'[t] = "none"
    BY <2>0 DEF AccountsInv, AuthTypeInv, AccountsTypeOK
  <2> QED BY <2>0, <2>1, <2>2, StillKeeps
<1>3. AccountsKeep BY <1>1, <1>2, OperatorsKeep DEF AccountsNext
<1>4. AuthTypeInv' /\ Onward /\ \A d \in AuthCalls : StepsFit(d)' /\ SlugHeld(d)' BY <1>3 DEF AccountsKeep
<1>5. \A d \in AuthCalls : TogetherKnown(d)' /\ StateUsed(d)' /\ LateKnown(d)'
  BY <1>4, TogetherKept, StateKept, LateKept
<1>6. TwiceOnlyTogether' /\ RefusedLeavesNoAccount' /\ OutStaysOut'
  BY <1>4, TwiceKept, RefusedKept, OutKept
<1> QED BY <1>4, <1>5, <1>6 DEF AccountsInv

LEMMA AccountsStart == AccountsInit => AccountsInv
<1> SUFFICES ASSUME AccountsInit PROVE AccountsInv OBVIOUS
<1> USE DEF AccountsInit
<1>1. Here = {} BY DEF Here
<1>2. AuthTypeInv
  <2>1. /\ users \in [AuthCalls -> User \cup {NoUser}] /\ lateFor \in [AuthCalls -> SUBSET AuthCalls]
        /\ closedFor \in [AuthCalls -> SUBSET (GivenTenants \cup Slugs)]
        /\ \A t \in GivenTenants : tenantStatus[t] # "none"
    OBVIOUS
  <2>2. AccountsTypeOK BY <1>1 DEF AccountsTypeOK, Steps
  <2> QED BY <1>1, <2>1, <2>2 DEF AuthTypeInv
<1>3. ASSUME NEW c \in AuthCalls
      PROVE  StepsFit(c) /\ SlugHeld(c) /\ TogetherKnown(c) /\ StateUsed(c) /\ LateKnown(c)
  <2>1. step[c] = "idle" /\ holds[c] = Nobody /\ lateFor[c] = {} /\ closedFor[c] = {} OBVIOUS
  <2> QED BY <1>1, <2>1 DEF StepsFit, SlugHeld, TogetherKnown, StateUsed, LateKnown, UnderWay
<1>4. TwiceOnlyTogether BY <1>1 DEF TwiceOnlyTogether, Of
<1>5. RefusedLeavesNoAccount
  <2>1. \A s \in Slugs : tenantStatus[s] = "none" BY AccountsAssumption DEF AccountsAssumption
  <2> QED BY <1>1, <2>1 DEF RefusedLeavesNoAccount
<1>6. OutStaysOut BY DEF OutStaysOut, Of
<1> QED BY <1>2, <1>3, <1>4, <1>5, <1>6 DEF AccountsInv

LEMMA AccountsInvariant == AccountsSpec => []AccountsInv
<1> QED BY AccountsStart, AccountsStep, PTL DEF AccountsSpec

\* An email is registered twice, or a state used twice, only by two calls that were under way together; a
\* refused call has created no user but one whose tenant was suspended before the tokens, and no tenant of
\* a registration is without a user (auth.py:280 to 327, auth_service.py:324 to 393, state.py:60 to 101).
THEOREM AccountsCorrect == AccountsSpec => []AccountsKept
<1>1. AccountsInv => AccountsKept BY DEF AccountsInv, AccountsKept
<1> QED BY <1>1, AccountsInvariant, PTL

\* Whoever was deactivated, or of a suspended tenant, when a login, a refresh or a request began is not
\* let in by it with a token, and a request that an API key lets in began while the key's tenant was not
\* suspended, however the steps of other calls and of the operators fall between (middleware/auth.py:
\* 168 to 269, auth_service.py:407 to 520).
THEOREM OutsideCorrect == AccountsSpec => []OutStaysOut
<1>1. AccountsInv => OutStaysOut BY DEF AccountsInv
<1> QED BY <1>1, AccountsInvariant, PTL

-----------------------------------------------------------------------------
(* Sockets                                                                 *)

\* A socket that was once registered, by the endpoint that is past its verification.
Began(t) == endpoint[t].stage \notin {"new", "accepted"}
Only(s) ==
    /\ Served(s) /\ peer[s] /\ managerOpen
    /\ \A t \in SocketIds \ {s} : ClientOf[t] = ClientOf[s] => ~Began(t)

SocketTypeInv ==
    /\ active_connections \in [Clients -> SocketIds \cup {NoSocket}]
    /\ app_clients \in [SocketApps -> SUBSET Clients]
    /\ endpoint \in [SocketIds -> [stage : EndpointStages, target : SocketIds \cup {NoSocket}]]
    /\ peer \in [SocketIds -> BOOLEAN] /\ managerOpen \in BOOLEAN
    /\ walk \in [stage : {"idle", "stepping", "sending", "raised"}, closing : BOOLEAN, seen : SUBSET Clients,
                 size : {walk.size}, target : SocketIds \cup {NoSocket}]

\* Whatever is registered or sent to has begun, and is of the client it is registered for.
TargetsBegan ==
    /\ \A c \in Clients : active_connections[c] # NoSocket =>
          ClientOf[active_connections[c]] = c /\ Began(active_connections[c])
    /\ \A s \in SocketIds : endpoint[s].stage = "sending" =>
          LET t == endpoint[s].target IN t # NoSocket /\ ClientOf[t] = ClientOf[s] /\ Began(t)
    /\ walk.stage = "sending" => walk.target # NoSocket /\ Began(walk.target)
    /\ \A s \in Streams : endpoint[s].stage \in {"new", "ended"}

SocketsInv == SocketTypeInv /\ TargetsBegan /\ OnlySocketKept /\ EndedForgotten

\* The endpoint of one socket moves on, and where it began it stays begun.
LEMMA EndpointMoves ==
    ASSUME SocketTypeInv, NEW s \in SocketIds, NEW stage \in EndpointStages, NEW target \in SocketIds \cup {NoSocket},
           endpoint' = [endpoint EXCEPT ![s] = [stage |-> stage, target |-> target]],
           Began(s) => stage \notin {"new", "accepted"}
    PROVE  /\ endpoint' \in [SocketIds -> [stage : EndpointStages, target : SocketIds \cup {NoSocket}]]
           /\ endpoint'[s].stage = stage /\ endpoint'[s].target = target
           /\ \A t \in SocketIds \ {s} : endpoint'[t] = endpoint[t]
           /\ \A t \in SocketIds : Began(t) => Began(t)'
BY DEF SocketTypeInv, Began

LEMMA StageMoves ==
    ASSUME SocketTypeInv, NEW s \in SocketIds, NEW stage \in EndpointStages,
           endpoint' = [endpoint EXCEPT ![s].stage = stage],
           Began(s) => stage \notin {"new", "accepted"}
    PROVE  /\ endpoint' \in [SocketIds -> [stage : EndpointStages, target : SocketIds \cup {NoSocket}]]
           /\ endpoint'[s].stage = stage /\ endpoint'[s].target = endpoint[s].target
           /\ \A t \in SocketIds \ {s} : endpoint'[t] = endpoint[t]
           /\ \A t \in SocketIds : Began(t) => Began(t)'
BY DEF SocketTypeInv, Began

\* Cannot take a message that is sent to it.
Dead(t) == ~peer[t] \/ endpoint[t].stage = "ended" \/ t \in Streams

\* A step leaves what the maps say of a client, or removes the client from both, and then a socket
\* of the client is dead.
Kept(c) ==
    /\ active_connections'[c] = active_connections[c]
    /\ \A a \in SocketApps : c \in app_clients'[a] <=> c \in app_clients[a]
Dropped(c) ==
    /\ active_connections'[c] = NoSocket /\ \A a \in SocketApps : c \notin app_clients'[a]
    /\ managerOpen' => \E t \in SocketIds : ClientOf[t] = c /\ Began(t)' /\ Dead(t)'

\* What no step undoes.
Lasting ==
    /\ \A t \in SocketIds : Began(t) => Began(t)'
    /\ \A t \in SocketIds : peer'[t] => peer[t]
    /\ managerOpen' => managerOpen

\* Where endpoints and loops send to.
Aimed ==
    /\ \A s \in SocketIds : endpoint'[s].stage = "sending" =>
         \/ endpoint'[s] = endpoint[s]
         \/ /\ endpoint'[s].target = active_connections[ClientOf[s]]
            /\ endpoint'[s].target # NoSocket
    /\ walk'.stage = "sending" =>
         \/ walk' = walk
         \/ \E c \in Clients : walk'.target = active_connections[c] /\ walk'.target # NoSocket
    /\ \A s \in Streams : endpoint'[s].stage \in {"new", "ended"}

\* What every step does at most that does not register a socket.
Settled ==
    /\ Lasting /\ Aimed
    /\ \A c \in Clients : Kept(c) \/ Dropped(c)
    /\ \A t \in SocketIds :
         /\ Served(t)' => Served(t)
         /\ Served(t) => Served(t)' \/ Dropped(ClientOf[t])
         /\ endpoint'[t].stage = "ended" =>
              endpoint[t].stage = "ended" \/ ~Began(t) \/ Dropped(ClientOf[t])

\* The same of the next state.
Begun(t) == endpoint'[t].stage \notin {"new", "accepted"}

LEMMA TargetsStayBegun ==
    ASSUME SocketsInv, SocketAssumption, SocketTypeInv', Lasting, Aimed,
           \A c \in Clients : active_connections'[c] # NoSocket =>
              \/ active_connections'[c] = active_connections[c]
              \/ ClientOf[active_connections'[c]] = c /\ Begun(active_connections'[c])
    PROVE  TargetsBegan'
<1>1. \A c \in Clients : active_connections'[c] # NoSocket =>
         ClientOf[active_connections'[c]] = c /\ Begun(active_connections'[c])
  <2> SUFFICES ASSUME NEW c \in Clients, active_connections'[c] # NoSocket
               PROVE  ClientOf[active_connections'[c]] = c /\ Begun(active_connections'[c])
    OBVIOUS
  <2>1. CASE active_connections'[c] = active_connections[c]
    <3>1. ClientOf[active_connections[c]] = c /\ Began(active_connections[c])
      BY <2>1 DEF SocketsInv, TargetsBegan
    <3>2. active_connections[c] \in SocketIds
      BY <2>1 DEF SocketsInv, SocketTypeInv
    <3>3. Begun(active_connections[c])
      BY <2>1, <3>1, <3>2 DEF Lasting, Began, Begun
    <3> QED BY <2>1, <3>1, <3>3
  <2>2. CASE active_connections'[c] # active_connections[c]
    BY <2>2
  <2> QED BY <2>1, <2>2
<1>2. ASSUME NEW s \in SocketIds, endpoint'[s].stage = "sending"
      PROVE  endpoint'[s].target # NoSocket /\ ClientOf[endpoint'[s].target] = ClientOf[s] /\ Begun(endpoint'[s].target)
  <2>0. ClientOf[s] \in Clients
    BY SocketAssumption DEF SocketAssumption
  <2>1. /\ endpoint'[s].target # NoSocket /\ ClientOf[endpoint'[s].target] = ClientOf[s]
        /\ Began(endpoint'[s].target)
    <3>1. CASE endpoint'[s] = endpoint[s]
      BY <1>2, <3>1 DEF SocketsInv, TargetsBegan
    <3>2. CASE endpoint'[s] # endpoint[s]
      BY <1>2, <2>0, <3>2 DEF Aimed, SocketsInv, TargetsBegan
    <3> QED BY <3>1, <3>2
  <2>2. endpoint'[s].target \in SocketIds
    BY <1>2, <2>1 DEF SocketTypeInv
  <2> QED BY <2>1, <2>2 DEF Lasting, Began, Begun
<1>3. ASSUME walk'.stage = "sending"
      PROVE  walk'.target # NoSocket /\ Begun(walk'.target)
  <2>1. walk'.target # NoSocket /\ Began(walk'.target)
    <3>1. CASE walk' = walk
      BY <1>3, <3>1 DEF SocketsInv, TargetsBegan
    <3>2. CASE walk' # walk
      BY <1>3, <3>2 DEF Aimed, SocketsInv, TargetsBegan
    <3> QED BY <3>1, <3>2
  <2>2. walk'.target \in SocketIds
    BY <2>1 DEF SocketTypeInv
  <2> QED BY <2>1, <2>2 DEF Lasting, Began, Begun
<1>4. \A s \in Streams : endpoint'[s].stage \in {"new", "ended"}
  BY DEF Aimed
<1> QED BY <1>1, <1>2, <1>3, <1>4 DEF TargetsBegan, Streams, Began, Begun

LEMMA SettledKeeps ==
    ASSUME SocketsInv, SocketAssumption, SocketTypeInv', Settled
    PROVE  SocketsInv'
<1>0. /\ \A s \in SocketIds : ClientOf[s] \in Clients
      /\ \A s \in SocketIds \ Streams : AppOf[s] \in SocketApps
      /\ NoSocket \notin SocketIds
  BY SocketAssumption DEF SocketAssumption, Streams
<1>1. TargetsBegan'
  BY TargetsStayBegun DEF Settled, Kept, Dropped
<1>2. OnlySocketKept'
  <2> SUFFICES ASSUME NEW s \in SocketIds, Served(s)', peer'[s], managerOpen',
                      \A t \in SocketIds \ {s} : ClientOf[t] = ClientOf[s] => ~Began(t)'
               PROVE  active_connections'[ClientOf[s]] = s /\ ClientOf[s] \in app_clients'[AppOf[s]]
    BY DEF OnlySocketKept, Began
  <2>1. s \notin Streams /\ Served(s)
    BY DEF Settled, Aimed, Served
  <2>2. ~Dropped(ClientOf[s])
    <3> SUFFICES ASSUME Dropped(ClientOf[s]) PROVE FALSE
      OBVIOUS
    <3>1. PICK t \in SocketIds : ClientOf[t] = ClientOf[s] /\ Began(t)' /\ Dead(t)'
      BY DEF Dropped
    <3>2. t = s
      BY <3>1
    <3> QED BY <2>1, <3>1, <3>2 DEF Dead, Served
  <2>3. Kept(ClientOf[s])
    BY <1>0, <2>2 DEF Settled
  <2>4. peer[s] /\ managerOpen
    BY DEF Settled, Lasting
  <2>5. \A t \in SocketIds \ {s} : ClientOf[t] = ClientOf[s] => endpoint[t].stage \in {"new", "accepted"}
    BY DEF Settled, Lasting, Began
  <2>6. active_connections[ClientOf[s]] = s /\ ClientOf[s] \in app_clients[AppOf[s]]
    BY <2>1, <2>4, <2>5 DEF SocketsInv, OnlySocketKept
  <2> QED BY <1>0, <2>1, <2>3, <2>6 DEF Kept
<1>3. ASSUME NEW s \in SocketIds \ Streams, endpoint'[s].stage = "ended"
      PROVE  active_connections'[ClientOf[s]] # s
  <2>1. CASE Dropped(ClientOf[s])
    BY <1>0, <2>1 DEF Dropped
  <2>2. CASE ~Dropped(ClientOf[s])
    <3>1. Kept(ClientOf[s]) /\ (endpoint[s].stage = "ended" \/ ~Began(s))
      BY <1>0, <1>3, <2>2 DEF Settled
    <3>2. active_connections[ClientOf[s]] # s
      BY <1>0, <3>1 DEF SocketsInv, EndedForgotten, TargetsBegan
    <3> QED BY <3>1, <3>2 DEF Kept
  <2> QED BY <2>1, <2>2
<1>4. ASSUME NEW a \in SocketApps, NEW c \in app_clients'[a]
      PROVE  /\ c \in Connected'
             /\ \E s \in SocketIds : ClientOf[s] = c /\ AppOf[s] = a /\ Served(s)'
  <2>1. c \in Clients
    BY DEF SocketTypeInv
  <2>2. Kept(c) /\ ~Dropped(c)
    BY <2>1 DEF Settled, Dropped
  <2>3. c \in app_clients[a]
    BY <2>2 DEF Kept
  <2>4. PICK s \in SocketIds : ClientOf[s] = c /\ AppOf[s] = a /\ Served(s)
    BY <2>3 DEF SocketsInv, EndedForgotten
  <2>5. Served(s)'
    BY <2>2, <2>4 DEF Settled
  <2>6. active_connections[c] # NoSocket
    BY <2>3 DEF SocketsInv, EndedForgotten, Connected
  <2> QED BY <2>1, <2>2, <2>4, <2>5, <2>6 DEF Kept, Connected
<1>5. EndedForgotten'
  BY <1>3, <1>4 DEF EndedForgotten, Streams
<1> QED BY <1>1, <1>2, <1>5 DEF SocketsInv

\* disconnect removes a client, which is no loss when a socket of it is dead, and no other client.
LEMMA Disconnects ==
    ASSUME SocketTypeInv, SocketAssumption, NEW c \in Clients, disconnect(c),
           \E t \in SocketIds : ClientOf[t] = c /\ Began(t)' /\ Dead(t)'
    PROVE  /\ active_connections' \in [Clients -> SocketIds \cup {NoSocket}]
           /\ app_clients' \in [SocketApps -> SUBSET Clients]
           /\ \A d \in Clients \ {c} : Kept(d)
           /\ Dropped(c)
<1>1. Dropped(c)
  BY DEF SocketTypeInv, disconnect, Dropped
<1> QED BY <1>1 DEF SocketTypeInv, disconnect, Kept

LEMMA MapsKept ==
    ASSUME SocketTypeInv, UNCHANGED managerVars
    PROVE  /\ active_connections' \in [Clients -> SocketIds \cup {NoSocket}]
           /\ app_clients' \in [SocketApps -> SUBSET Clients]
           /\ \A c \in Clients : Kept(c)
BY DEF SocketTypeInv, managerVars, Kept

\* A step of one endpoint that registers no socket; "lost" says whether it disconnects its client.
LEMMA EndpointSettles ==
    ASSUME SocketsInv, SocketAssumption, NEW s \in SocketIds, NEW stage \in EndpointStages,
           NEW target \in SocketIds \cup {NoSocket}, NEW lost \in BOOLEAN,
           endpoint' = [endpoint EXCEPT ![s] = [stage |-> stage, target |-> target]],
           Began(s) => stage \notin {"new", "accepted"},
           UNCHANGED <<peer, walk, managerOpen>>,
           ~lost => UNCHANGED managerVars,
           lost => /\ disconnect(ClientOf[s])
                   /\ \E t \in SocketIds : ClientOf[t] = ClientOf[s] /\ Began(t)' /\ Dead(t)',
           stage = "sending" => target = active_connections[ClientOf[s]] /\ target # NoSocket,
           s \in Streams => stage = "ended",
           stage \in {"receiving", "chatting", "sending"} => Served(s),
           Served(s) => stage \in {"receiving", "chatting", "sending"} \/ lost,
           stage = "ended" => ~Began(s) \/ lost
    PROVE  SocketsInv'
<1>0. ClientOf[s] \in Clients /\ SocketTypeInv
  BY SocketAssumption DEF SocketAssumption, SocketsInv
<1>1. /\ endpoint' \in [SocketIds -> [stage : EndpointStages, target : SocketIds \cup {NoSocket}]]
      /\ endpoint'[s].stage = stage /\ endpoint'[s].target = target
      /\ \A t \in SocketIds \ {s} : endpoint'[t] = endpoint[t]
      /\ \A t \in SocketIds : Began(t) => Began(t)'
  BY <1>0, EndpointMoves
<1>2. /\ active_connections' \in [Clients -> SocketIds \cup {NoSocket}]
      /\ app_clients' \in [SocketApps -> SUBSET Clients]
      /\ \A c \in Clients : Kept(c) \/ Dropped(c)
      /\ lost => Dropped(ClientOf[s])
  <2>1. CASE ~lost
    BY <1>0, <2>1, MapsKept
  <2>2. CASE lost
    BY <1>0, <2>2, Disconnects
  <2> QED BY <2>1, <2>2
<1>3. SocketTypeInv'
  BY <1>0, <1>1, <1>2 DEF SocketTypeInv
<1>4. Lasting
  BY <1>0, <1>1 DEF Lasting, SocketTypeInv
<1>5. Aimed
  <2>1. \A t \in Streams : endpoint'[t].stage \in {"new", "ended"}
    BY <1>1 DEF SocketsInv, TargetsBegan, Streams
  <2>2. walk' = walk
    OBVIOUS
  <2> QED BY <1>1, <2>1, <2>2 DEF Aimed
<1>6. \A t \in SocketIds :
         /\ Served(t)' => Served(t)
         /\ Served(t) => Served(t)' \/ Dropped(ClientOf[t])
         /\ endpoint'[t].stage = "ended" =>
              endpoint[t].stage = "ended" \/ ~Began(t) \/ Dropped(ClientOf[t])
  BY <1>1, <1>2 DEF Served
<1> QED BY <1>2, <1>3, <1>4, <1>5, <1>6, SettledKeeps DEF Settled

\* A step that moves no endpoint.
LEMMA ManagerSettles ==
    ASSUME SocketsInv, SocketAssumption, SocketTypeInv', UNCHANGED endpoint,
           \A t \in SocketIds : peer'[t] => peer[t], managerOpen' => managerOpen,
           \A c \in Clients : Kept(c) \/ Dropped(c),
           walk'.stage = "sending" =>
             \/ walk' = walk
             \/ \E c \in Clients : walk'.target = active_connections[c] /\ walk'.target # NoSocket
    PROVE  SocketsInv'
<1>1. Lasting
  BY DEF Lasting, Began
<1>2. Aimed
  BY DEF Aimed, SocketsInv, TargetsBegan
<1>3. \A t \in SocketIds : (Served(t)' <=> Served(t)) /\ endpoint'[t] = endpoint[t]
  BY DEF Served
<1> QED BY <1>1, <1>2, <1>3, SettledKeeps DEF Settled

\* A stage that is set without a target.
LEMMA StageSet ==
    ASSUME SocketTypeInv, NEW s \in SocketIds, NEW stage \in EndpointStages,
           endpoint' = [endpoint EXCEPT ![s].stage = stage]
    PROVE  /\ endpoint' = [endpoint EXCEPT ![s] = [stage |-> stage, target |-> endpoint[s].target]]
           /\ endpoint[s].target \in SocketIds \cup {NoSocket}
<1>1. endpoint[s] \in [stage : EndpointStages, target : SocketIds \cup {NoSocket}]
  BY DEF SocketTypeInv
<1>2. [endpoint[s] EXCEPT !.stage = stage] = [stage |-> stage, target |-> endpoint[s].target]
  BY <1>1
<1> QED BY <1>1, <1>2 DEF SocketTypeInv

LEMMA StageSettles ==
    ASSUME SocketsInv, SocketAssumption, NEW s \in SocketIds, NEW stage \in {"accepted", "receiving", "chatting", "ended"},
           NEW lost \in BOOLEAN,
           endpoint' = [endpoint EXCEPT ![s].stage = stage],
           Began(s) => stage # "accepted",
           UNCHANGED <<peer, walk, managerOpen>>,
           ~lost => UNCHANGED managerVars,
           lost => /\ disconnect(ClientOf[s])
                   /\ \E t \in SocketIds : ClientOf[t] = ClientOf[s] /\ Began(t)' /\ Dead(t)',
           s \in Streams => stage = "ended",
           stage \in {"receiving", "chatting"} => Served(s),
           Served(s) => stage \in {"receiving", "chatting"} \/ lost,
           stage = "ended" => ~Began(s) \/ lost
    PROVE  SocketsInv'
<1>0. SocketTypeInv /\ stage \in EndpointStages
  BY DEF SocketsInv, EndpointStages
<1>1. /\ endpoint' = [endpoint EXCEPT ![s] = [stage |-> stage, target |-> endpoint[s].target]]
      /\ endpoint[s].target \in SocketIds \cup {NoSocket}
  BY <1>0, StageSet
<1>2. /\ Began(s) => stage \notin {"new", "accepted"}
      /\ stage \in {"receiving", "chatting", "sending"} => Served(s)
      /\ Served(s) => stage \in {"receiving", "chatting", "sending"} \/ lost
      /\ stage # "sending"
  OBVIOUS
<1> QED BY <1>0, <1>1, <1>2, EndpointSettles

\* The endpoint of s sends, to a socket of its client or to none.
LEMMA BeginSendKeeps ==
    ASSUME SocketsInv, SocketAssumption, NEW s \in SocketIds, Served(s), BeginSend(s),
           UNCHANGED <<peer, walk, managerOpen>>
    PROVE  SocketsInv'
<1> DEFINE t == active_connections[ClientOf[s]]
<1>0. /\ ClientOf[s] \in Clients /\ SocketTypeInv /\ NoSocket \notin SocketIds
      /\ s \notin Streams /\ Began(s)
  BY SocketAssumption DEF SocketAssumption, SocketsInv, TargetsBegan, Served, Began
<1>1. CASE t = NoSocket
  <2>1. endpoint' = [endpoint EXCEPT ![s].stage = "receiving"] /\ UNCHANGED managerVars
    BY <1>1 DEF BeginSend
  <2> QED BY <1>0, <2>1, StageSettles
<1>2. CASE t # NoSocket /\ NeverAccepted(t)
  <2>1. endpoint' = [endpoint EXCEPT ![s].stage = "receiving"] /\ disconnect(ClientOf[s])
    BY <1>2 DEF BeginSend
  <2>2. PICK u \in SocketIds : u = t
    BY <1>0, <1>2 DEF SocketTypeInv
  <2>3. u \in Streams /\ ClientOf[u] = ClientOf[s] /\ Began(u)
    BY <1>0, <1>2, <2>2 DEF NeverAccepted, SocketsInv, TargetsBegan
  <2>4. endpoint'[u] = endpoint[u]
    BY <1>0, <2>1, <2>2, <2>3 DEF SocketTypeInv
  <2>5. Began(u)' /\ Dead(u)'
    BY <2>3, <2>4 DEF Began, Dead, Streams
  <2> QED BY <1>0, <2>1, <2>3, <2>5, StageSettles
<1>3. CASE t # NoSocket /\ ~NeverAccepted(t)
  <2>1. /\ endpoint' = [endpoint EXCEPT ![s] = [stage |-> "sending", target |-> t]]
        /\ UNCHANGED managerVars
    BY <1>3 DEF BeginSend
  <2>2. t \in SocketIds \cup {NoSocket} /\ "sending" \in EndpointStages
    BY <1>0 DEF SocketTypeInv, EndpointStages
  <2> QED BY <1>0, <1>3, <2>1, <2>2, EndpointSettles
<1> QED BY <1>1, <1>2, <1>3

\* A chat endpoint registers its socket: the maps have it now, and what is kept of others stays.
LEMMA ChatVerifiedKeeps ==
    ASSUME SocketsInv, SocketAssumption, NEW s \in SocketIds, ChatVerified(s)
    PROVE  SocketsInv'
<1>0. /\ ClientOf[s] \in Clients /\ SocketTypeInv /\ NoSocket \notin SocketIds
      /\ s \notin Streams /\ ~Began(s) /\ AppOf[s] \in SocketApps
      /\ \A t \in SocketIds \ Streams : AppOf[t] \in SocketApps
      /\ \A t \in SocketIds : ClientOf[t] \in Clients
  BY SocketAssumption DEF SocketAssumption, SocketsInv, TargetsBegan, ChatVerified, Streams, Began
<1>1. /\ active_connections' = [active_connections EXCEPT ![ClientOf[s]] = s]
      /\ app_clients' = [a \in SocketApps |-> app_clients[a] \cup IF a = AppOf[s] THEN {ClientOf[s]} ELSE {}]
      /\ endpoint' = [endpoint EXCEPT ![s].stage = "receiving"]
      /\ UNCHANGED <<peer, walk, managerOpen>>
  BY DEF ChatVerified, connect
<1>2. "receiving" \in EndpointStages
  BY DEF EndpointStages
<1>3. /\ endpoint' \in [SocketIds -> [stage : EndpointStages, target : SocketIds \cup {NoSocket}]]
      /\ endpoint'[s].stage = "receiving"
      /\ \A t \in SocketIds \ {s} : endpoint'[t] = endpoint[t]
      /\ \A t \in SocketIds : Began(t) => Began(t)'
  BY <1>0, <1>1, <1>2, StageMoves
<1>4. /\ active_connections' \in [Clients -> SocketIds \cup {NoSocket}]
      /\ active_connections'[ClientOf[s]] = s
      /\ \A c \in Clients \ {ClientOf[s]} : active_connections'[c] = active_connections[c]
  BY <1>0, <1>1 DEF SocketTypeInv
<1>5. /\ app_clients' \in [SocketApps -> SUBSET Clients]
      /\ \A a \in SocketApps \ {AppOf[s]} : app_clients'[a] = app_clients[a]
      /\ app_clients'[AppOf[s]] = app_clients[AppOf[s]] \cup {ClientOf[s]}
  <2>1. \A a \in SocketApps : app_clients[a] \subseteq Clients
    BY <1>0 DEF SocketTypeInv
  <2> QED BY <1>0, <1>1, <2>1
<1>6. SocketTypeInv'
  BY <1>0, <1>1, <1>3, <1>4, <1>5 DEF SocketTypeInv
<1>7. TargetsBegan'
  <2>1. Lasting
    BY <1>0, <1>1, <1>3 DEF Lasting, SocketTypeInv
  <2>2. Aimed
    BY <1>0, <1>1, <1>3 DEF Aimed, SocketsInv, TargetsBegan, Streams
  <2>3. Begun(s)
    BY <1>3 DEF Begun
  <2>4. \A c \in Clients : active_connections'[c] # NoSocket =>
              \/ active_connections'[c] = active_connections[c]
              \/ ClientOf[active_connections'[c]] = c /\ Begun(active_connections'[c])
    BY <1>0, <1>4, <2>3
  <2> QED BY <1>6, <2>1, <2>2, <2>4, TargetsStayBegun
<1>8. OnlySocketKept'
  <2> SUFFICES ASSUME NEW u \in SocketIds, Served(u)', peer'[u], managerOpen',
                      \A t \in SocketIds \ {u} : ClientOf[t] = ClientOf[u] => ~Began(t)'
               PROVE  active_connections'[ClientOf[u]] = u /\ ClientOf[u] \in app_clients'[AppOf[u]]
    BY DEF OnlySocketKept, Began
  <2>1. CASE u = s
    BY <1>0, <1>4, <1>5, <2>1
  <2>2. CASE u # s
    <3>1. Began(s)'
      BY <1>3 DEF Began
    <3>2. ClientOf[u] # ClientOf[s] /\ ClientOf[u] \in Clients
      BY <1>0, <2>2, <3>1
    <3>3. Served(u) /\ u \notin Streams /\ AppOf[u] \in SocketApps
      BY <1>0, <1>3, <1>7, <2>2 DEF Served, TargetsBegan, Streams
    <3>4. \A t \in SocketIds \ {u} : ClientOf[t] = ClientOf[u] => endpoint[t].stage \in {"new", "accepted"}
      BY <1>3 DEF Began
    <3>5. active_connections[ClientOf[u]] = u /\ ClientOf[u] \in app_clients[AppOf[u]]
      BY <1>1, <3>3, <3>4 DEF SocketsInv, OnlySocketKept
    <3> QED BY <1>0, <1>4, <1>5, <3>2, <3>3, <3>5
  <2> QED BY <2>1, <2>2
<1>9. EndedForgotten'
  <2>1. ASSUME NEW u \in SocketIds \ Streams, endpoint'[u].stage = "ended"
        PROVE  active_connections'[ClientOf[u]] # u
    <3>1. u # s /\ endpoint[u].stage = "ended"
      BY <1>3, <2>1
    <3>2. active_connections[ClientOf[u]] # u
      BY <3>1 DEF SocketsInv, EndedForgotten
    <3> QED BY <1>0, <1>4, <3>1, <3>2
  <2>2. ASSUME NEW a \in SocketApps, NEW c \in app_clients'[a]
        PROVE  /\ c \in Connected'
               /\ \E u \in SocketIds : ClientOf[u] = c /\ AppOf[u] = a /\ Served(u)'
    <3>0. c \in Clients
      BY <1>6 DEF SocketTypeInv
    <3>1. CASE c \in app_clients[a]
      <4>1. PICK u \in SocketIds : ClientOf[u] = c /\ AppOf[u] = a /\ Served(u)
        BY <3>1 DEF SocketsInv, EndedForgotten
      <4>2. Served(u)'
        BY <1>3, <4>1 DEF Served
      <4>3. active_connections[c] # NoSocket
        BY <3>1 DEF SocketsInv, EndedForgotten, Connected
      <4>4. active_connections'[c] # NoSocket
        BY <1>0, <1>4, <3>0, <4>3
      <4> QED BY <3>0, <4>1, <4>2, <4>4 DEF Connected
    <3>2. CASE c \notin app_clients[a]
      <4>1. a = AppOf[s] /\ c = ClientOf[s]
        BY <1>0, <1>5, <2>2, <3>2
      <4> QED BY <1>0, <1>3, <1>4, <4>1 DEF Served, Connected
    <3> QED BY <3>1, <3>2
  <2> QED BY <2>1, <2>2 DEF EndedForgotten, Streams
<1> QED BY <1>6, <1>7, <1>8, <1>9 DEF SocketsInv

\* A streaming endpoint registers its socket and is over: its client has more than one socket.
LEMMA StreamVerifiedKeeps ==
    ASSUME SocketsInv, SocketAssumption, NEW s \in SocketIds, StreamVerified(s)
    PROVE  SocketsInv'
<1>0. /\ ClientOf[s] \in Clients /\ SocketTypeInv /\ NoSocket \notin SocketIds
      /\ s \in Streams /\ ~Began(s) /\ AppOf[s] \notin SocketApps
      /\ \A t \in SocketIds \ Streams : AppOf[t] \in SocketApps
      /\ \A t \in SocketIds : ClientOf[t] \in Clients
  BY SocketAssumption DEF SocketAssumption, SocketsInv, TargetsBegan, StreamVerified, Streams, Began
<1>1. /\ active_connections' = [active_connections EXCEPT ![ClientOf[s]] = s]
      /\ app_clients' = [a \in SocketApps |-> app_clients[a] \cup IF a = AppOf[s] THEN {ClientOf[s]} ELSE {}]
      /\ endpoint' = [endpoint EXCEPT ![s].stage = "ended"]
      /\ UNCHANGED <<peer, walk, managerOpen>>
  BY DEF StreamVerified, connect
<1>2. "ended" \in EndpointStages
  BY DEF EndpointStages
<1>3. /\ endpoint' \in [SocketIds -> [stage : EndpointStages, target : SocketIds \cup {NoSocket}]]
      /\ endpoint'[s].stage = "ended"
      /\ \A t \in SocketIds \ {s} : endpoint'[t] = endpoint[t]
      /\ \A t \in SocketIds : Began(t) => Began(t)'
  BY <1>0, <1>1, <1>2, StageMoves
<1>4. /\ active_connections' \in [Clients -> SocketIds \cup {NoSocket}]
      /\ active_connections'[ClientOf[s]] = s
      /\ \A c \in Clients \ {ClientOf[s]} : active_connections'[c] = active_connections[c]
  BY <1>0, <1>1 DEF SocketTypeInv
<1>5. app_clients' = app_clients
  <2>1. \A a \in SocketApps : a # AppOf[s]
    BY <1>0
  <2>2. app_clients' = [a \in SocketApps |-> app_clients[a]]
    BY <1>1, <2>1
  <2> QED BY <1>0, <2>2 DEF SocketTypeInv
<1>6. SocketTypeInv'
  BY <1>0, <1>1, <1>3, <1>4, <1>5 DEF SocketTypeInv
<1>7. TargetsBegan'
  <2>1. Lasting
    BY <1>0, <1>1, <1>3 DEF Lasting, SocketTypeInv
  <2>2. Aimed
    BY <1>0, <1>1, <1>3 DEF Aimed, SocketsInv, TargetsBegan, Streams
  <2>3. Begun(s)
    BY <1>3 DEF Begun
  <2>4. \A c \in Clients : active_connections'[c] # NoSocket =>
              \/ active_connections'[c] = active_connections[c]
              \/ ClientOf[active_connections'[c]] = c /\ Begun(active_connections'[c])
    BY <1>0, <1>4, <2>3
  <2> QED BY <1>6, <2>1, <2>2, <2>4, TargetsStayBegun
<1>8. OnlySocketKept'
  <2> SUFFICES ASSUME NEW u \in SocketIds, Served(u)', peer'[u], managerOpen',
                      \A t \in SocketIds \ {u} : ClientOf[t] = ClientOf[u] => ~Began(t)'
               PROVE  active_connections'[ClientOf[u]] = u /\ ClientOf[u] \in app_clients'[AppOf[u]]
    BY DEF OnlySocketKept, Began
  <2>1. u # s /\ Began(s)'
    BY <1>3 DEF Began, Served
  <2>2. ClientOf[u] # ClientOf[s] /\ ClientOf[u] \in Clients
    BY <1>0, <2>1
  <2>3. Served(u)
    BY <1>3, <2>1 DEF Served
  <2>4. \A t \in SocketIds \ {u} : ClientOf[t] = ClientOf[u] => endpoint[t].stage \in {"new", "accepted"}
    BY <1>3 DEF Began
  <2>5. active_connections[ClientOf[u]] = u /\ ClientOf[u] \in app_clients[AppOf[u]]
    BY <1>1, <2>3, <2>4 DEF SocketsInv, OnlySocketKept
  <2> QED BY <1>4, <1>5, <2>2, <2>5
<1>9. EndedForgotten'
  <2>1. ASSUME NEW u \in SocketIds \ Streams, endpoint'[u].stage = "ended"
        PROVE  active_connections'[ClientOf[u]] # u
    <3>1. u # s /\ endpoint[u].stage = "ended"
      BY <1>0, <1>3, <2>1
    <3>2. active_connections[ClientOf[u]] # u
      BY <3>1 DEF SocketsInv, EndedForgotten
    <3> QED BY <1>0, <1>4, <3>1, <3>2
  <2>2. ASSUME NEW a \in SocketApps, NEW c \in app_clients'[a]
        PROVE  /\ c \in Connected'
               /\ \E u \in SocketIds : ClientOf[u] = c /\ AppOf[u] = a /\ Served(u)'
    <3>1. c \in Clients /\ c \in app_clients[a]
      BY <1>5, <1>6, <2>2 DEF SocketTypeInv
    <3>2. PICK u \in SocketIds : ClientOf[u] = c /\ AppOf[u] = a /\ Served(u)
      BY <3>1 DEF SocketsInv, EndedForgotten
    <3>3. Served(u)'
      BY <1>0, <1>3, <3>2 DEF Served, Began
    <3>4. active_connections[c] # NoSocket
      BY <3>1 DEF SocketsInv, EndedForgotten, Connected
    <3>5. active_connections'[c] # NoSocket
      BY <1>0, <1>4, <3>1, <3>4
    <3> QED BY <3>1, <3>2, <3>3, <3>5 DEF Connected
  <2> QED BY <2>1, <2>2 DEF EndedForgotten, Streams
<1> QED BY <1>6, <1>7, <1>8, <1>9 DEF SocketsInv

\* The other steps of an endpoint.
LEMMA EndpointKeeps ==
    ASSUME SocketsInv, SocketAssumption, NEW s \in SocketIds,
           \/ Accept(s) \/ Unauthorized(s) \/ ReceivePing(s) \/ ReceiveChat(s) \/ ChatAnswers(s)
           \/ SendEnds(s) \/ EndpointEnds(s)
    PROVE  SocketsInv'
<1>0. /\ ClientOf[s] \in Clients /\ SocketTypeInv /\ NoSocket \notin SocketIds
      /\ s \in Streams => endpoint[s].stage \in {"new", "ended"}
  BY SocketAssumption DEF SocketAssumption, SocketsInv, TargetsBegan
<1>1. CASE Accept(s)
  <2>1. ~Served(s) /\ ~Began(s) /\ s \notin Streams
    BY <1>1 DEF Accept, Served, Began
  <2> QED BY <1>1, <2>1, StageSettles DEF Accept
<1>2. CASE Unauthorized(s)
  <2>1. ~Served(s) /\ ~Began(s)
    BY <1>2 DEF Unauthorized, Served, Began
  <2> QED BY <1>2, <2>1, StageSettles DEF Unauthorized
<1>3. CASE ReceivePing(s)
  BY <1>3, BeginSendKeeps DEF ReceivePing, Served
<1>4. CASE ReceiveChat(s)
  <2>1. Served(s) /\ s \notin Streams
    BY <1>0, <1>4 DEF ReceiveChat, Served
  <2> QED BY <1>4, <2>1, StageSettles DEF ReceiveChat
<1>5. CASE ChatAnswers(s)
  BY <1>5, BeginSendKeeps DEF ChatAnswers, Served
<1>6. CASE SendEnds(s)
  <2>0. /\ Served(s) /\ s \notin Streams /\ "receiving" \in EndpointStages
        /\ endpoint' = [endpoint EXCEPT ![s] = [stage |-> "receiving", target |-> NoSocket]]
        /\ UNCHANGED <<peer, walk, managerOpen>>
    BY <1>0, <1>6 DEF SendEnds, Served, EndpointStages
  <2>1. CASE UNCHANGED managerVars
    BY <1>0, <2>0, <2>1, EndpointSettles
  <2>2. CASE ~UNCHANGED managerVars
    <3>1. PICK t \in SocketIds : t = endpoint[s].target
      BY <1>0, <1>6 DEF SendEnds, SocketsInv, TargetsBegan, SocketTypeInv
    <3>2. ClientOf[t] = ClientOf[s] /\ Began(t) /\ MayFail(t) /\ disconnect(ClientOf[s])
      BY <1>6, <2>2, <3>1 DEF SendEnds, SocketsInv, TargetsBegan
    <3>3. Began(t)'
      BY <1>0, <2>0, <3>2, EndpointMoves DEF Served, Began
    <3>4. Dead(t)'
      <4>1. CASE t = s
        BY <1>0, <1>6, <2>0, <3>2, <4>1 DEF MayFail, Dead, SendEnds
      <4>2. CASE t # s
        BY <1>0, <2>0, <3>2, <4>2 DEF MayFail, Dead, SocketTypeInv
      <4> QED BY <4>1, <4>2
    <3> QED BY <1>0, <2>0, <3>2, <3>3, <3>4, EndpointSettles
  <2> QED BY <2>1, <2>2
<1>7. CASE EndpointEnds(s)
  <2>1. /\ Served(s) /\ s \notin Streams /\ "ended" \in EndpointStages
        /\ endpoint' = [endpoint EXCEPT ![s].stage = "ended"]
        /\ disconnect(ClientOf[s]) /\ UNCHANGED <<peer, walk, managerOpen>>
    BY <1>0, <1>7 DEF EndpointEnds, Served, EndpointStages
  <2>2. endpoint'[s].stage = "ended"
    BY <1>0, <2>1, StageMoves
  <2>3. Began(s)' /\ Dead(s)'
    BY <2>2 DEF Began, Dead
  <2> QED BY <2>1, <2>3, StageSettles
<1> QED BY <1>1, <1>2, <1>3, <1>4, <1>5, <1>6, <1>7

LEMMA PeerLeavesKeeps ==
    ASSUME SocketsInv, SocketAssumption, NEW s \in SocketIds, PeerLeaves(s)
    PROVE  SocketsInv'
<1>1. SocketTypeInv'
  BY DEF SocketsInv, SocketTypeInv, PeerLeaves, managerVars
<1>2. \A t \in SocketIds : peer'[t] => peer[t]
  BY DEF SocketsInv, SocketTypeInv, PeerLeaves
<1>3. \A c \in Clients : Kept(c)
  BY MapsKept DEF SocketsInv, PeerLeaves
<1> QED BY <1>1, <1>2, <1>3, ManagerSettles DEF PeerLeaves

\* A loop of the manager begins, raises or ends its way over the clients without touching them.
LEMMA WalkTurns ==
    ASSUME SocketsInv, SocketAssumption,
           \/ BroadcastBegins \/ CloseBegins \/ WalkRaises \/ BroadcastEnds
    PROVE  SocketsInv'
<1>0. walk \in [stage : {"idle", "stepping", "sending", "raised"}, closing : BOOLEAN, seen : SUBSET Clients,
                size : {walk.size}, target : SocketIds \cup {NoSocket}]
  BY DEF SocketsInv, SocketTypeInv
<1> DEFINE Walks(w) == w \in [stage : {"idle", "stepping", "raised"}, closing : BOOLEAN, seen : SUBSET Clients,
                               size : {w.size}, target : SocketIds \cup {NoSocket}]
<1>a. UNCHANGED <<managerVars, endpoint, peer, managerOpen>> /\ Walks(walk')
  <2>1. ASSUME NEW closes \in BOOLEAN, WalkBegins(closes)
        PROVE  UNCHANGED <<managerVars, endpoint, peer, managerOpen>> /\ Walks(walk')
    BY <2>1 DEF WalkBegins, NoWalk
  <2>2. CASE BroadcastBegins
    BY <2>1, <2>2 DEF BroadcastBegins
  <2>3. CASE CloseBegins
    BY <2>1, <2>3 DEF CloseBegins
  <2>4. CASE WalkRaises
    BY <1>0, <2>4 DEF WalkRaises
  <2>5. CASE BroadcastEnds
    BY <2>5 DEF BroadcastEnds, NoWalk
  <2> QED BY <2>2, <2>3, <2>4, <2>5
<1>1. UNCHANGED <<managerVars, endpoint, peer, managerOpen>> /\ walk'.stage \in {"idle", "stepping", "raised"}
  BY <1>a
<1>2. walk' \in [stage : {"idle", "stepping", "sending", "raised"}, closing : BOOLEAN, seen : SUBSET Clients,
                 size : {walk'.size}, target : SocketIds \cup {NoSocket}]
  BY <1>a
<1>3. SocketTypeInv'
  BY <1>1, <1>2 DEF SocketsInv, SocketTypeInv, managerVars
<1>4. \A c \in Clients : Kept(c)
  BY <1>1, MapsKept DEF SocketsInv
<1> QED BY <1>1, <1>3, <1>4, ManagerSettles

LEMMA WalkSendsKeeps ==
    ASSUME SocketsInv, SocketAssumption, NEW c \in Clients, WalkSends(c)
    PROVE  SocketsInv'
<1>0. SocketTypeInv /\ UNCHANGED <<endpoint, peer, managerOpen>> /\ active_connections[c] # NoSocket
  BY DEF SocketsInv, WalkSends, Connected
<1>1. PICK t \in SocketIds : t = active_connections[c]
  BY <1>0 DEF SocketTypeInv
<1>2. CASE NeverAccepted(t) /\ ~walk.closing
  <2>1. disconnect(c) /\ walk' = [walk EXCEPT !.seen = @ \cup {c}] /\ walk.stage = "stepping"
    BY <1>1, <1>2 DEF WalkSends
  <2>2. ClientOf[t] = c /\ Began(t) /\ t \in Streams
    BY <1>0, <1>1, <1>2 DEF SocketsInv, TargetsBegan, NeverAccepted
  <2>3. Began(t)' /\ Dead(t)'
    BY <1>0, <2>2 DEF Began, Dead, Streams
  <2>4. /\ active_connections' \in [Clients -> SocketIds \cup {NoSocket}]
        /\ app_clients' \in [SocketApps -> SUBSET Clients]
        /\ \A d \in Clients : Kept(d) \/ Dropped(d)
    BY <1>0, <2>1, <2>2, <2>3, Disconnects
  <2>5. /\ walk'.stage = "stepping"
        /\ walk' \in [stage : {"idle", "stepping", "sending", "raised"}, closing : BOOLEAN, seen : SUBSET Clients,
                 size : {walk'.size}, target : SocketIds \cup {NoSocket}]
    BY <1>0, <2>1 DEF SocketTypeInv
  <2>6. SocketTypeInv'
    BY <1>0, <2>4, <2>5 DEF SocketTypeInv
  <2>7. \A u \in SocketIds : peer'[u] => peer[u]
    BY <1>0
  <2>8. managerOpen' => managerOpen
    BY <1>0
  <2> QED BY <1>0, <2>4, <2>5, <2>6, <2>7, <2>8, ManagerSettles
<1>3. CASE ~(NeverAccepted(t) /\ ~walk.closing)
  <2>1. UNCHANGED managerVars /\ walk' = [walk EXCEPT !.stage = "sending", !.seen = @ \cup {c}, !.target = t]
    BY <1>1, <1>3 DEF WalkSends
  <2>2. /\ walk'.target = t
        /\ walk' \in [stage : {"idle", "stepping", "sending", "raised"}, closing : BOOLEAN, seen : SUBSET Clients,
                 size : {walk'.size}, target : SocketIds \cup {NoSocket}]
    BY <1>0, <2>1 DEF SocketTypeInv
  <2>3. SocketTypeInv'
    BY <1>0, <2>1, <2>2 DEF SocketTypeInv, managerVars
  <2>4. \A d \in Clients : Kept(d)
    BY <1>0, <2>1, MapsKept
  <2> QED BY <1>0, <1>1, <2>2, <2>3, <2>4, ManagerSettles
<1> QED BY <1>2, <1>3

LEMMA WalkResumesKeeps ==
    ASSUME SocketsInv, SocketAssumption, WalkResumes
    PROVE  SocketsInv'
<1>0. SocketTypeInv /\ UNCHANGED <<endpoint, managerOpen>> /\ NoSocket \notin SocketIds
  BY SocketAssumption DEF SocketsInv, WalkResumes, SocketAssumption
<1>1. PICK t \in SocketIds : t = walk.target /\ Began(t)
  BY <1>0 DEF SocketsInv, SocketTypeInv, TargetsBegan, WalkResumes
<1>2. /\ walk'.stage = "stepping"
      /\ walk' \in [stage : {"idle", "stepping", "sending", "raised"}, closing : BOOLEAN, seen : SUBSET Clients,
                 size : {walk'.size}, target : SocketIds \cup {NoSocket}]
  BY <1>0 DEF SocketTypeInv, WalkResumes
<1>3. peer' \in [SocketIds -> BOOLEAN] /\ \A u \in SocketIds : peer'[u] => peer[u]
  BY <1>0, <1>1 DEF SocketTypeInv, WalkResumes
<1>4. /\ active_connections' \in [Clients -> SocketIds \cup {NoSocket}]
      /\ app_clients' \in [SocketApps -> SUBSET Clients]
      /\ \A d \in Clients : Kept(d) \/ Dropped(d)
  <2>1. CASE UNCHANGED managerVars
    BY <1>0, <2>1, MapsKept
  <2>2. CASE ~UNCHANGED managerVars
    <3>1. MayFail(t) /\ disconnect(ClientOf[t]) /\ UNCHANGED peer
      BY <1>1, <2>2 DEF WalkResumes
    <3>2. Began(t)' /\ Dead(t)'
      BY <1>0, <1>1, <3>1 DEF Began, Dead, MayFail
    <3>3. ClientOf[t] \in Clients
      BY SocketAssumption DEF SocketAssumption
    <3> QED BY <1>0, <3>1, <3>2, <3>3, Disconnects
  <2> QED BY <2>1, <2>2
<1>5. SocketTypeInv'
  BY <1>0, <1>2, <1>3, <1>4 DEF SocketTypeInv
<1> QED BY <1>0, <1>2, <1>3, <1>4, <1>5, ManagerSettles

LEMMA CloseEndsKeeps ==
    ASSUME SocketsInv, SocketAssumption, CloseEnds
    PROVE  SocketsInv'
<1>1. SocketTypeInv'
  BY DEF SocketsInv, SocketTypeInv, CloseEnds, NoWalk
<1>2. \A c \in Clients : Dropped(c)
  BY DEF CloseEnds, Dropped
<1>3. \A t \in SocketIds : peer'[t] => peer[t]
  BY DEF CloseEnds
<1>4. walk'.stage = "idle" /\ UNCHANGED endpoint /\ ~managerOpen'
  BY DEF CloseEnds, NoWalk
<1> QED BY <1>1, <1>2, <1>3, <1>4, ManagerSettles

\* The invariant of the sockets holds throughout.
LEMMA SocketsInvariant == SocketSpec => []SocketsInv
<1>1. SocketInit => SocketsInv
  <2> SUFFICES ASSUME SocketInit PROVE SocketsInv
    OBVIOUS
  <2>1. SocketTypeInv
    BY DEF SocketInit, SocketTypeInv, NoWalk, EndpointStages
  <2>2. TargetsBegan
    BY DEF SocketInit, TargetsBegan, NoWalk, Streams
  <2>3. OnlySocketKept /\ EndedForgotten
    BY DEF SocketInit, OnlySocketKept, EndedForgotten, Served, Streams
  <2> QED BY <2>1, <2>2, <2>3 DEF SocketsInv
<1>2. SocketsInv /\ [SocketNext]_socketVars => SocketsInv'
  <2> SUFFICES ASSUME SocketsInv, [SocketNext]_socketVars PROVE SocketsInv'
    OBVIOUS
  <2>0. SocketAssumption
    BY SocketAssumption
  <2>1. CASE UNCHANGED socketVars
    <3>1. UNCHANGED <<active_connections, app_clients, endpoint, peer, walk, managerOpen>>
      BY <2>1 DEF socketVars, managerVars
    <3>2. SocketTypeInv' /\ (\A c \in Clients : Kept(c)) /\ \A t \in SocketIds : peer'[t] => peer[t]
      BY <3>1 DEF SocketsInv, SocketTypeInv, Kept
    <3> QED BY <2>0, <3>1, <3>2, ManagerSettles
  <2>2. ASSUME NEW s \in SocketIds,
               \/ Accept(s) \/ ChatVerified(s) \/ StreamVerified(s) \/ Unauthorized(s)
               \/ ReceivePing(s) \/ ReceiveChat(s) \/ ChatAnswers(s) \/ SendEnds(s)
               \/ EndpointEnds(s) \/ PeerLeaves(s)
        PROVE  SocketsInv'
    BY <2>0, <2>2, EndpointKeeps, ChatVerifiedKeeps, StreamVerifiedKeeps, PeerLeavesKeeps
  <2>3. CASE BroadcastBegins \/ CloseBegins \/ WalkRaises \/ WalkResumes \/ BroadcastEnds \/ CloseEnds
    BY <2>0, <2>3, WalkTurns, WalkResumesKeeps, CloseEndsKeeps
  <2>4. ASSUME NEW c \in Clients, WalkSends(c) PROVE SocketsInv'
    BY <2>0, <2>4, WalkSendsKeeps
  <2> QED BY <2>1, <2>2, <2>3, <2>4 DEF SocketNext
<1> QED BY <1>1, <1>2, PTL DEF SocketSpec

\* The connection manager keeps the only socket of a client while its endpoint serves it, and no
\* map has an ended one (gateway/websocket/manager.py, gateway/api/v1/websocket.py).  The
\* invariant adds what makes this inductive: a socket is registered under its own client's id and
\* only after its endpoint has begun, and so is whatever a send that is on its way is aimed at.
\* So a send that fails under the only socket of a client is a send to this socket.
THEOREM SocketsCorrect == SocketSpec => []SocketsKept
<1>1. SocketsInv => SocketsKept
  BY DEF SocketsInv, SocketsKept
<1> QED BY <1>1, SocketsInvariant, PTL

-----------------------------------------------------------------------------
(* MCP servers                                                             *)

\* Rows, clients, requests and start-up tasks have their shape, and who is not connecting or
\* stopping has no client.
CallTypes == [stage : {"idle", "stopping", "connecting", "initializing", "saving", "ended"},
              kind : {"none", "create", "update", "connect", "disconnect", "delete"},
              server : Servers \cup {NoServer}, client : Nat,
              seen : {"absent", "active", "inactive", "deleted", "dropped"},
              want : {"absent", "active", "inactive", "deleted"}]
ServerTypeInv ==
    /\ rows \in [Servers -> {"absent", "active", "inactive", "deleted", "dropped"}]
    /\ launches \in Nat
    /\ clients \in [ClientKeys -> 0 .. launches] /\ running \subseteq 1 .. launches
    /\ scall \in [ServerCalls -> CallTypes]
    /\ boot \in [Servers -> [stage : {"none", "connecting", "initializing", "done"}, client : Nat]]
    /\ sweep \in [seen : SUBSET (1 .. launches), size : {sweep.size}]

\* Only who stops a client, or has started one, holds it.
Holders ==
    /\ \A c \in ServerCalls :
         /\ scall[c].client \in 0 .. launches
         /\ scall[c].stage \notin {"stopping", "initializing"} => scall[c].client = 0
         /\ ~CallEnded(c) => scall[c].server \in Servers
    /\ \A x \in Servers :
         /\ boot[x].client \in 0 .. launches
         /\ boot[x].stage # "initializing" => boot[x].client = 0

\* A client that shutdown has stopped does not run again.
StoppedStays == sweep.seen \cap running = {}

\* Until two requests overlap on a server there is one at a time; one that deletes has nothing left
\* to stop when it saves, and nothing is there afterwards.
OneAtATime ==
    \A x \in Servers \ overlapped :
      /\ \A c, d \in OnServer(x) : c = d
      /\ \A c \in OnServer(x) : scall[c].want = "deleted" =>
           /\ scall[c].stage \in {"stopping", "saving"}
           /\ scall[c].stage = "saving" => clients[x] = 0
      /\ rows[x] = "deleted" => OnServer(x) = {} /\ clients[x] = 0

ServersInv == ServerTypeInv /\ Holders /\ StoppedStays /\ ProcessesAccounted /\ OneAtATime

\* What a request or a start-up task may hold.
CallFits(r) ==
    /\ r.client \in 0 .. launches'
    /\ r.stage \notin {"stopping", "initializing"} => r.client = 0
    /\ r.stage \notin {"idle", "ended"} => r.server \in Servers

\* A step of one request: its record becomes r.
LEMMA RequestMoves ==
    ASSUME ServerTypeInv, Holders, NEW c \in ServerCalls, NEW r \in CallTypes, CallFits(r),
           scall' = [scall EXCEPT ![c] = r], launches' \in {launches, launches + 1}, UNCHANGED boot
    PROVE  /\ scall' \in [ServerCalls -> CallTypes] /\ scall'[c] = r
           /\ \A d \in ServerCalls \ {c} : scall'[d] = scall[d]
           /\ Holders'
<1>1. /\ scall' \in [ServerCalls -> CallTypes] /\ scall'[c] = r
      /\ \A d \in ServerCalls \ {c} : scall'[d] = scall[d]
  BY DEF ServerTypeInv
<1>2. launches \in Nat /\ launches' \in Nat /\ launches <= launches'
  BY DEF ServerTypeInv
<1>3. ASSUME NEW d \in ServerCalls
      PROVE  /\ scall'[d].client \in 0 .. launches'
             /\ scall'[d].stage \notin {"stopping", "initializing"} => scall'[d].client = 0
             /\ scall'[d].stage \notin {"idle", "ended"} => scall'[d].server \in Servers
  <2>1. CASE d = c
    BY <1>1, <2>1 DEF CallFits
  <2>2. CASE d # c
    BY <1>1, <1>2, <2>2 DEF Holders, CallEnded
  <2> QED BY <2>1, <2>2
<1>4. ASSUME NEW x \in Servers
      PROVE  boot'[x].client \in 0 .. launches' /\ (boot'[x].stage # "initializing" => boot'[x].client = 0)
  BY <1>2 DEF Holders
<1> QED BY <1>1, <1>3, <1>4 DEF Holders, CallEnded

\* What is still open is accounted for after a step of c, if what c gives up goes somewhere and
\* whatever an entry loses is set adrift or closed.
LEMMA RequestAccounts ==
    ASSUME ProcessesAccounted, ServerTypeInv, NEW c \in ServerCalls, NEW n \in Nat,
           \A d \in ServerCalls \ {c} : scall'[d] = scall[d], UNCHANGED boot,
           running' \subseteq running \cup {n}, adrift \subseteq adrift',
           n \in running' => n = scall'[c].client,
           scall[c].client \in running' => scall[c].client \in adrift' \cup InManager' \cup {scall'[c].client},
           \A k \in ClientKeys : clients[k] \in running' /\ clients[k] # 0 => clients[k] \in InManager' \cup adrift'
    PROVE  ProcessesAccounted'
<1> SUFFICES ASSUME NEW m \in running'
             PROVE  \/ m \in InManager' \/ m \in adrift'
                    \/ (\E d \in ServerCalls : m = scall'[d].client) \/ (\E x \in Servers : m = boot'[x].client)
  BY DEF ProcessesAccounted
<1>1. CASE m = n
  BY <1>1
<1>2. CASE m \in running
  <2>1. CASE m \in InManager
    BY <2>1 DEF InManager
  <2>2. CASE m \in adrift
    BY <2>2
  <2>3. ASSUME NEW d \in ServerCalls, m = scall[d].client
        PROVE  \/ m \in InManager' \/ m \in adrift' \/ \E e \in ServerCalls : m = scall'[e].client
    BY <2>3
  <2>4. ASSUME NEW x \in Servers, m = boot[x].client
        PROVE  \E y \in Servers : m = boot'[y].client
    BY <2>4
  <2> QED BY <1>2, <2>1, <2>2, <2>3, <2>4 DEF ProcessesAccounted
<1> QED BY <1>1, <1>2

\* A step of a request that changes no client in the manager.
LEMMA EntriesStay ==
    ASSUME UNCHANGED clients
    PROVE  \A k \in ClientKeys : clients[k] # 0 => clients[k] \in InManager'
BY DEF InManager

\* A server on which nothing changes stays as it was.
OneAt(x) ==
    /\ \A c, d \in OnServer(x) : c = d
    /\ \A c \in OnServer(x) : scall[c].want = "deleted" =>
         /\ scall[c].stage \in {"stopping", "saving"}
         /\ scall[c].stage = "saving" => clients[x] = 0
    /\ rows[x] = "deleted" => OnServer(x) = {} /\ clients[x] = 0

LEMMA OneByOne == OneAtATime <=> \A x \in Servers \ overlapped : OneAt(x)
BY DEF OneAtATime, OneAt

LEMMA OtherServer ==
    ASSUME NEW x \in Servers, OneAt(x), clients'[x] \in {clients[x], 0}, rows'[x] = rows[x],
           \A c \in ServerCalls : c \in OnServer(x)' => c \in OnServer(x) /\ scall'[c] = scall[c]
    PROVE  OneAt(x)'
BY DEF OneAt, OnServer, CallEnded

\* A request begins.
LEMMA BeginKeeps ==
    ASSUME ServersInv, ServerAssumption, NEW c \in ServerCalls, NEW x \in Servers,
           NEW kind \in {"update", "connect", "disconnect", "delete"},
           NEW stage \in {"stopping", "connecting", "saving"}, NEW want \in {"active", "inactive", "deleted"},
           RowExists(x), BeginRequest(c, kind, x, stage, want),
           want = "deleted" => stage = StopFirst(x, "saving"),
           UNCHANGED <<rows, managerView, boot, gateway, sweep, rowEdits>>
    PROVE  ServersInv'
<1> DEFINE r == [stage |-> stage, kind |-> kind, server |-> x, client |-> IF stage = "stopping" THEN clients[x] ELSE 0,
                 seen |-> rows[x], want |-> want]
<1>0. /\ ServerTypeInv /\ Holders /\ UNCHANGED <<rows, clients, running, launches, adrift, boot, gateway, sweep>>
      /\ clients[x] \in 0 .. launches /\ launches \in Nat /\ rows[x] \in {"active", "inactive"}
  BY DEF ServersInv, managerView, ServerTypeInv, ClientKeys, RowExists
<1>1. scall[c].stage = "idle" /\ scall' = [scall EXCEPT ![c] = r]
  BY DEF BeginRequest
<1>2. r \in CallTypes
  BY <1>0 DEF CallTypes
<1>3. CallFits(r)
  BY <1>0 DEF CallFits
<1>4. /\ scall' \in [ServerCalls -> CallTypes] /\ scall'[c] = r
      /\ \A d \in ServerCalls \ {c} : scall'[d] = scall[d]
      /\ Holders'
  <2> HIDE DEF r
  <2> QED BY <1>0, <1>1, <1>2, <1>3, RequestMoves
<1>5. ServerTypeInv'
  BY <1>0, <1>4 DEF ServerTypeInv
<1>6. StoppedStays'
  BY <1>0 DEF ServersInv, StoppedStays
<1>7. ProcessesAccounted'
  <2>1. scall[c].client = 0 /\ 0 \notin running
    BY <1>0, <1>1 DEF Holders, ServerTypeInv
  <2> QED BY <1>0, <1>4, <2>1, EntriesStay, RequestAccounts DEF ServersInv
<1>8. ASSUME NEW y \in Servers \ overlapped' PROVE OneAt(y)'
  <2>0. y \notin overlapped /\ OneAt(y)
    BY OneByOne DEF ServersInv, BeginRequest
  <2>1. CASE y # x
    <3>1. \A d \in ServerCalls : d \in OnServer(y)' => d \in OnServer(y) /\ scall'[d] = scall[d]
      BY <1>4, <2>1 DEF OnServer, CallEnded
    <3> QED BY <1>0, <2>0, <3>1, OtherServer
  <2>2. CASE y = x
    <3>1. OnServer(x) = {}
      BY <2>2 DEF BeginRequest
    <3>2. \A d \in ServerCalls : d \in OnServer(x)' => d = c
      BY <1>4, <3>1 DEF OnServer, CallEnded
    <3>3. \A d \in OnServer(x)' : d = c
      BY <3>2 DEF OnServer
    <3>4. want = "deleted" => stage \in {"stopping", "saving"} /\ (stage = "saving" => clients[x] = 0)
      BY DEF StopFirst
    <3>5. rows'[x] # "deleted"
      BY <1>0
    <3> QED BY <1>0, <1>4, <2>2, <3>3, <3>4, <3>5 DEF OneAt
  <2> QED BY <2>1, <2>2
<1>9. OneAtATime'
  BY <1>8 DEF OneAtATime, OneAt
<1> QED BY <1>4, <1>5, <1>6, <1>7, <1>9 DEF ServersInv

LEMMA CreateKeeps ==
    ASSUME ServersInv, ServerAssumption, NEW c \in ServerCalls, NEW x \in Servers, CreateServer(c, x)
    PROVE  ServersInv'
<1> DEFINE r == [stage |-> "connecting", kind |-> "create", server |-> x, client |-> 0,
                 seen |-> "active", want |-> "active"]
<1>0. /\ ServerTypeInv /\ Holders /\ UNCHANGED <<clients, running, launches, adrift, boot, gateway, sweep, overlapped>>
      /\ launches \in Nat /\ scall[c].stage = "idle" /\ OnServer(x) = {}
      /\ rows' = [rows EXCEPT ![x] = "active"] /\ scall' = [scall EXCEPT ![c] = r]
  BY DEF ServersInv, managerView, ServerTypeInv, CreateServer
<1>1. r \in CallTypes
  BY DEF CallTypes
<1>2. CallFits(r)
  BY <1>0 DEF CallFits
<1>3. /\ scall' \in [ServerCalls -> CallTypes] /\ scall'[c] = r
      /\ \A d \in ServerCalls \ {c} : scall'[d] = scall[d]
      /\ Holders'
  <2> HIDE DEF r
  <2> QED BY <1>0, <1>1, <1>2, RequestMoves
<1>4. ServerTypeInv'
  BY <1>0, <1>3 DEF ServerTypeInv
<1>5. StoppedStays'
  BY <1>0 DEF ServersInv, StoppedStays
<1>6. ProcessesAccounted'
  <2>1. scall[c].client = 0 /\ 0 \notin running
    BY <1>0 DEF Holders, ServerTypeInv
  <2> QED BY <1>0, <1>3, <2>1, EntriesStay, RequestAccounts DEF ServersInv
<1>7. ASSUME NEW y \in Servers \ overlapped' PROVE OneAt(y)'
  <2>0. OneAt(y)
    BY <1>0, OneByOne DEF ServersInv
  <2>1. CASE y # x
    <3>1. \A d \in ServerCalls : d \in OnServer(y)' => d \in OnServer(y) /\ scall'[d] = scall[d]
      BY <1>3, <2>1 DEF OnServer, CallEnded
    <3>2. rows'[y] = rows[y]
      BY <1>0, <2>1 DEF ServerTypeInv
    <3> QED BY <1>0, <2>0, <3>1, <3>2, OtherServer
  <2>2. CASE y = x
    <3>1. \A d \in OnServer(x)' : d = c
      BY <1>0, <1>3 DEF OnServer, CallEnded
    <3>2. rows'[x] = "active" /\ scall'[c].want = "active"
      BY <1>0, <1>3 DEF ServerTypeInv
    <3> QED BY <2>2, <3>1, <3>2 DEF OneAt
  <2> QED BY <2>1, <2>2
<1>8. OneAtATime'
  BY <1>7 DEF OneAtATime, OneAt
<1> QED BY <1>3, <1>4, <1>5, <1>6, <1>8 DEF ServersInv

\* A step of a request that is under way, on its own server: every other server stays as it was,
\* and its own does if what it wants and has stopped still fits.
LEMMA OwnServer ==
    ASSUME ServerTypeInv, OneAtATime, NEW c \in ServerCalls, NEW r \in CallTypes, NEW x \in Servers,
           scall[c].server = x, ~CallEnded(c), r.stage \in {"idle", "ended"} \/ r.server = x,
           scall'[c] = r, \A d \in ServerCalls \ {c} : scall'[d] = scall[d],
           overlapped' = overlapped,
           \A y \in Servers \ {x} : clients'[y] \in {clients[y], 0} /\ rows'[y] = rows[y],
           x \notin overlapped /\ OneAt(x) /\ r.want = "deleted" /\ r.stage \notin {"idle", "ended"} =>
              r.stage \in {"stopping", "saving"} /\ (r.stage = "saving" => clients'[x] = 0),
           x \notin overlapped /\ OneAt(x) /\ rows'[x] = "deleted" => r.stage \in {"idle", "ended"} /\ clients'[x] = 0
    PROVE  OneAtATime'
<1> SUFFICES ASSUME NEW y \in Servers \ overlapped' PROVE OneAt(y)'
  BY DEF OneAtATime, OneAt
<1>0. y \notin overlapped /\ OneAt(y)
  BY OneByOne
<1>1. CASE y # x
  <2>1. \A d \in ServerCalls : d \in OnServer(y)' => d \in OnServer(y) /\ scall'[d] = scall[d]
    BY <1>1 DEF OnServer, CallEnded
  <2> QED BY <1>0, <1>1, <2>1, OtherServer
<1>2. CASE y = x
  <2>1. c \in OnServer(x)
    BY DEF OnServer
  <2>2. \A d \in OnServer(x) : d = c
    BY <1>0, <1>2, <2>1 DEF OneAt
  <2>3. \A d \in OnServer(x)' : d = c /\ r.stage \notin {"idle", "ended"}
    BY <2>2 DEF OnServer, CallEnded
  <2> QED BY <1>0, <1>2, <2>3 DEF OneAt
<1> QED BY <1>1, <1>2

LEMMA StopEndsKeeps ==
    ASSUME ServersInv, ServerAssumption, NEW c \in ServerCalls, StopEnds(c)
    PROVE  ServersInv'
<1>0. /\ ServerTypeInv /\ Holders /\ UNCHANGED <<rows, launches, boot, gateway, sweep, overlapped>>
      /\ launches \in Nat /\ scall[c].stage = "stopping" /\ scall[c] \in CallTypes /\ ~CallEnded(c)
      /\ running' = running \ {scall[c].client}
  BY DEF ServersInv, ServerTypeInv, StopEnds, Stop, CallEnded
<1>1. PICK x \in Servers : x = scall[c].server
  BY <1>0 DEF Holders
<1>2. /\ clients' = [clients EXCEPT ![x] = 0]
      /\ adrift' = adrift \cup ({clients[x]} \ {0, scall[c].client})
      /\ x \in ClientKeys /\ clients[x] \in 0 .. launches
  BY <1>0, <1>1 DEF StopEnds, ServerTypeInv, ClientKeys
<1>3. PICK r \in CallTypes :
        /\ scall' = [scall EXCEPT ![c] = r]
        /\ r.client = 0
        /\ \/ r.stage = "ended"
           \/ r.stage \in {"connecting", "saving"} /\ r.server = x /\ r.want = scall[c].want
              /\ (r.want = "deleted" => r.stage = "saving")
  <2>1. CASE clients[x] = 0
    <3>1. scall' = [scall EXCEPT ![c] = EndedCall]
      BY <1>1, <2>1 DEF StopEnds
    <3>2. EndedCall \in CallTypes /\ EndedCall.client = 0 /\ EndedCall.stage = "ended"
      BY DEF EndedCall, IdleCall, CallTypes
    <3> QED BY <3>1, <3>2
  <2>2. CASE clients[x] # 0
    <3>1. PICK next \in {"connecting", "saving"} :
            next = IF scall[c].want = "active" THEN "connecting" ELSE "saving"
      OBVIOUS
    <3>2. scall' = [scall EXCEPT ![c] = [scall[c] EXCEPT !.stage = next, !.client = 0]]
      BY <1>1, <2>2, <3>1 DEF StopEnds
    <3>3. /\ [scall[c] EXCEPT !.stage = next, !.client = 0] \in CallTypes
          /\ [scall[c] EXCEPT !.stage = next, !.client = 0].stage = next
          /\ [scall[c] EXCEPT !.stage = next, !.client = 0].client = 0
          /\ [scall[c] EXCEPT !.stage = next, !.client = 0].server = scall[c].server
          /\ [scall[c] EXCEPT !.stage = next, !.client = 0].want = scall[c].want
      BY <1>0 DEF CallTypes
    <3>4. scall[c].want = "deleted" => next = "saving"
      BY <3>1
    <3> QED BY <1>1, <3>2, <3>3, <3>4
  <2> QED BY <2>1, <2>2
<1>4. CallFits(r)
  BY <1>0, <1>3 DEF CallFits
<1>5. /\ scall' \in [ServerCalls -> CallTypes] /\ scall'[c] = r
      /\ \A d \in ServerCalls \ {c} : scall'[d] = scall[d]
      /\ Holders'
  BY <1>0, <1>3, <1>4, RequestMoves
<1>6. clients' \in [ClientKeys -> 0 .. launches] /\ clients'[x] = 0
      /\ \A k \in ClientKeys \ {x} : clients'[k] = clients[k]
  BY <1>0, <1>2 DEF ServerTypeInv
<1>7. ServerTypeInv'
  BY <1>0, <1>2, <1>5, <1>6 DEF ServerTypeInv
<1>8. StoppedStays'
  BY <1>0 DEF ServersInv, StoppedStays
<1>9. ProcessesAccounted'
  <2>1. scall[c].client \notin running' /\ 0 \notin running' /\ running' \subseteq running
    BY <1>0 DEF ServerTypeInv
  <2>2. \A k \in ClientKeys : clients[k] \in running' /\ clients[k] # 0 => clients[k] \in InManager' \cup adrift'
    BY <1>2, <1>6, <2>1 DEF InManager
  <2> QED BY <1>0, <1>2, <1>5, <2>1, <2>2, RequestAccounts DEF ServersInv
<1>10. OneAtATime'
  <2>1. \A y \in Servers \ {x} : clients'[y] \in {clients[y], 0} /\ rows'[y] = rows[y]
    BY <1>0, <1>6 DEF ClientKeys
  <2>2. OneAt(x) => rows[x] # "deleted"
    BY <1>0, <1>1 DEF OneAt, OnServer
  <2> QED BY <1>0, <1>1, <1>3, <1>5, <1>6, <2>1, <2>2, OwnServer DEF ServersInv
<1> QED BY <1>5, <1>7, <1>8, <1>9, <1>10 DEF ServersInv

LEMMA ConnectStartsKeeps ==
    ASSUME ServersInv, ServerAssumption, NEW c \in ServerCalls, ConnectStarts(c)
    PROVE  ServersInv'
<1>0. /\ ServerTypeInv /\ Holders /\ UNCHANGED <<rows, clients, boot, gateway, sweep, adrift, overlapped>>
      /\ launches \in Nat /\ launches' = launches + 1 /\ running' = running \cup {launches + 1}
      /\ scall[c].stage = "connecting" /\ scall[c] \in CallTypes /\ ~CallEnded(c) /\ scall[c].client = 0
  BY DEF ServersInv, ServerTypeInv, ConnectStarts, LaunchClient, CallEnded, Holders
<1>1. PICK x \in Servers : x = scall[c].server
  BY <1>0 DEF Holders
<1>2. PICK r \in CallTypes :
        /\ scall' = [scall EXCEPT ![c] = r]
        /\ r.client = launches' /\ r.stage = "initializing" /\ r.server = x /\ r.want = scall[c].want
  <2>0. PICK n \in Nat : n = launches + 1
    BY <1>0
  <2>1. scall' = [scall EXCEPT ![c] = [scall[c] EXCEPT !.stage = "initializing", !.client = n]]
    BY <1>0, <2>0 DEF ConnectStarts, ServerTypeInv
  <2>2. /\ [scall[c] EXCEPT !.stage = "initializing", !.client = n] \in CallTypes
        /\ [scall[c] EXCEPT !.stage = "initializing", !.client = n].stage = "initializing"
        /\ [scall[c] EXCEPT !.stage = "initializing", !.client = n].client = n
        /\ [scall[c] EXCEPT !.stage = "initializing", !.client = n].server = scall[c].server
        /\ [scall[c] EXCEPT !.stage = "initializing", !.client = n].want = scall[c].want
    BY <1>0 DEF CallTypes
  <2> QED BY <1>0, <1>1, <2>0, <2>1, <2>2
<1>3. CallFits(r)
  BY <1>0, <1>2 DEF CallFits
<1>4. /\ scall' \in [ServerCalls -> CallTypes] /\ scall'[c] = r
      /\ \A d \in ServerCalls \ {c} : scall'[d] = scall[d]
      /\ Holders'
  BY <1>0, <1>2, <1>3, RequestMoves
<1>5. ServerTypeInv'
  BY <1>0, <1>4 DEF ServerTypeInv
<1>6. StoppedStays'
  BY <1>0 DEF ServersInv, StoppedStays, ServerTypeInv
<1>7. ProcessesAccounted'
  <2>1. 0 \notin running' /\ running' \subseteq running \cup {launches'}
    BY <1>0 DEF ServerTypeInv
  <2> QED BY <1>0, <1>2, <1>4, <2>1, EntriesStay, RequestAccounts DEF ServersInv
<1>8. OneAtATime'
  <2>1. OneAt(x) => rows[x] # "deleted" /\ scall[c].want # "deleted"
    BY <1>0, <1>1 DEF OneAt, OnServer
  <2> QED BY <1>0, <1>1, <1>2, <1>4, <2>1, OwnServer DEF ServersInv
<1> QED BY <1>4, <1>5, <1>6, <1>7, <1>8 DEF ServersInv

\* Register puts a client under a key and lets the one that was there run on.
LEMMA Registers ==
    ASSUME ServerTypeInv, NEW key \in ClientKeys, NEW n \in 0 .. launches, Register(key, n)
    PROVE  /\ clients' \in [ClientKeys -> 0 .. launches] /\ clients'[key] = n
           /\ \A k \in ClientKeys \ {key} : clients'[k] = clients[k]
           /\ adrift \subseteq adrift'
           /\ n # 0 => n \in InManager'
           /\ \A k \in ClientKeys : clients[k] # 0 => clients[k] \in InManager' \cup adrift'
<1>1. /\ clients' \in [ClientKeys -> 0 .. launches] /\ clients'[key] = n
      /\ \A k \in ClientKeys \ {key} : clients'[k] = clients[k]
  BY DEF ServerTypeInv, Register
<1>2. adrift \subseteq adrift' /\ (clients[key] # 0 => clients[key] \in adrift')
  BY DEF Register
<1> QED BY <1>1, <1>2 DEF InManager

LEMMA ConnectEndsKeeps ==
    ASSUME ServersInv, ServerAssumption, NEW c \in ServerCalls, ConnectEnds(c)
    PROVE  ServersInv'
<1>0. /\ ServerTypeInv /\ Holders /\ UNCHANGED <<rows, running, launches, boot, gateway, sweep, overlapped>>
      /\ launches \in Nat /\ scall[c].stage = "initializing" /\ scall[c] \in CallTypes /\ ~CallEnded(c)
      /\ scall[c].client \in 0 .. launches
  BY DEF ServersInv, ServerTypeInv, ConnectEnds, CallEnded, Holders
<1>1. PICK x \in Servers : x = scall[c].server
  BY <1>0 DEF Holders
<1>2. PICK r \in CallTypes :
        /\ scall' = [scall EXCEPT ![c] = r]
        /\ r.client = 0 /\ r.stage = "saving" /\ r.server = x /\ r.want = scall[c].want
  <2>1. scall' = [scall EXCEPT ![c] = [scall[c] EXCEPT !.stage = "saving", !.client = 0]]
    BY <1>0 DEF ConnectEnds, ServerTypeInv
  <2>2. /\ [scall[c] EXCEPT !.stage = "saving", !.client = 0] \in CallTypes
        /\ [scall[c] EXCEPT !.stage = "saving", !.client = 0].stage = "saving"
        /\ [scall[c] EXCEPT !.stage = "saving", !.client = 0].client = 0
        /\ [scall[c] EXCEPT !.stage = "saving", !.client = 0].server = scall[c].server
        /\ [scall[c] EXCEPT !.stage = "saving", !.client = 0].want = scall[c].want
    BY <1>0 DEF CallTypes
  <2> QED BY <1>1, <2>1, <2>2
<1>3. CallFits(r)
  BY <1>0, <1>2 DEF CallFits
<1>4. /\ scall' \in [ServerCalls -> CallTypes] /\ scall'[c] = r
      /\ \A d \in ServerCalls \ {c} : scall'[d] = scall[d]
      /\ Holders'
  BY <1>0, <1>2, <1>3, RequestMoves
<1>5. /\ clients' \in [ClientKeys -> 0 .. launches]
      /\ \A k \in ClientKeys \ {x} : clients'[k] = clients[k]
      /\ adrift \subseteq adrift' /\ adrift' \subseteq adrift \cup 0 .. launches
      /\ scall[c].client # 0 => scall[c].client \in InManager'
      /\ \A k \in ClientKeys : clients[k] # 0 => clients[k] \in InManager' \cup adrift'
  <2>1. x \in ClientKeys /\ Register(x, scall[c].client)
    BY <1>1 DEF ClientKeys, ConnectEnds
  <2>2. adrift' \subseteq adrift \cup 0 .. launches
    BY <1>0, <2>1 DEF Register, ServerTypeInv
  <2> QED BY <1>0, <2>1, <2>2, Registers
<1>6. ServerTypeInv'
  BY <1>0, <1>4, <1>5 DEF ServerTypeInv
<1>7. StoppedStays'
  BY <1>0 DEF ServersInv, StoppedStays
<1>8. ProcessesAccounted'
  <2>1. 0 \notin running' /\ running' \subseteq running
    BY <1>0 DEF ServerTypeInv
  <2> QED BY <1>0, <1>4, <1>5, <2>1, RequestAccounts DEF ServersInv
<1>9. OneAtATime'
  <2>1. OneAt(x) => rows[x] # "deleted" /\ scall[c].want # "deleted"
    BY <1>0, <1>1 DEF OneAt, OnServer
  <2>2. \A y \in Servers \ {x} : clients'[y] \in {clients[y], 0} /\ rows'[y] = rows[y]
    BY <1>0, <1>5 DEF ClientKeys
  <2> QED BY <1>0, <1>1, <1>2, <1>4, <2>1, <2>2, OwnServer DEF ServersInv
<1> QED BY <1>4, <1>6, <1>7, <1>8, <1>9 DEF ServersInv

LEMMA ConnectFailsKeeps ==
    ASSUME ServersInv, ServerAssumption, NEW c \in ServerCalls, ConnectFails(c)
    PROVE  ServersInv'
<1>0. /\ ServerTypeInv /\ Holders /\ UNCHANGED <<rows, clients, running, launches, boot, gateway, sweep, overlapped>>
      /\ launches \in Nat /\ scall[c].stage \in {"connecting", "initializing"} /\ scall[c] \in CallTypes
      /\ ~CallEnded(c) /\ adrift' = adrift \cup ({scall[c].client} \ {0})
  BY DEF ServersInv, ServerTypeInv, ConnectFails, CallEnded, Holders
<1>1. PICK x \in Servers : x = scall[c].server
  BY <1>0 DEF Holders
<1>2. PICK r \in CallTypes :
        /\ scall' = [scall EXCEPT ![c] = r]
        /\ r.client = 0 /\ r.stage = "saving" /\ r.server = x /\ r.want = "inactive"
  <2>1. scall' = [scall EXCEPT ![c] = [scall[c] EXCEPT !.stage = "saving", !.client = 0, !.want = "inactive"]]
    BY <1>0 DEF ConnectFails, ServerTypeInv
  <2>2. /\ [scall[c] EXCEPT !.stage = "saving", !.client = 0, !.want = "inactive"] \in CallTypes
        /\ [scall[c] EXCEPT !.stage = "saving", !.client = 0, !.want = "inactive"].stage = "saving"
        /\ [scall[c] EXCEPT !.stage = "saving", !.client = 0, !.want = "inactive"].client = 0
        /\ [scall[c] EXCEPT !.stage = "saving", !.client = 0, !.want = "inactive"].server = scall[c].server
        /\ [scall[c] EXCEPT !.stage = "saving", !.client = 0, !.want = "inactive"].want = "inactive"
    BY <1>0 DEF CallTypes
  <2> QED BY <1>1, <2>1, <2>2
<1>3. CallFits(r)
  BY <1>0, <1>2 DEF CallFits
<1>4. /\ scall' \in [ServerCalls -> CallTypes] /\ scall'[c] = r
      /\ \A d \in ServerCalls \ {c} : scall'[d] = scall[d]
      /\ Holders'
  BY <1>0, <1>2, <1>3, RequestMoves
<1>5. ServerTypeInv'
  BY <1>0, <1>4 DEF ServerTypeInv
<1>6. StoppedStays'
  BY <1>0 DEF ServersInv, StoppedStays
<1>7. ProcessesAccounted'
  <2>1. 0 \notin running' /\ running' \subseteq running
    BY <1>0 DEF ServerTypeInv
  <2>2. scall[c].client \in running' => scall[c].client \in adrift'
    BY <1>0, <2>1
  <2> QED BY <1>0, <1>4, <2>1, <2>2, EntriesStay, RequestAccounts DEF ServersInv
<1>8. OneAtATime'
  <2>1. OneAt(x) => rows[x] # "deleted"
    BY <1>0, <1>1 DEF OneAt, OnServer
  <2> QED BY <1>0, <1>1, <1>2, <1>4, <2>1, OwnServer DEF ServersInv
<1> QED BY <1>4, <1>5, <1>6, <1>7, <1>8 DEF ServersInv

LEMMA SaveKeeps ==
    ASSUME ServersInv, ServerAssumption, NEW c \in ServerCalls, Save(c)
    PROVE  ServersInv'
<1>0. /\ ServerTypeInv /\ Holders /\ UNCHANGED <<clients, running, launches, adrift, boot, gateway, sweep, overlapped>>
      /\ launches \in Nat /\ scall[c].stage = "saving" /\ scall[c] \in CallTypes /\ ~CallEnded(c)
      /\ scall[c].client = 0
  BY DEF ServersInv, ServerTypeInv, Save, CallEnded, Holders, managerView
<1>1. PICK x \in Servers : x = scall[c].server
  BY <1>0 DEF Holders
<1>2. PICK r \in CallTypes : scall' = [scall EXCEPT ![c] = r] /\ r.client = 0 /\ r.stage = "ended"
  <2>1. EndedCall \in CallTypes /\ EndedCall.client = 0 /\ EndedCall.stage = "ended"
    BY DEF EndedCall, IdleCall, CallTypes
  <2> QED BY <2>1 DEF Save
<1>3. CallFits(r)
  BY <1>0, <1>2 DEF CallFits
<1>4. /\ scall' \in [ServerCalls -> CallTypes] /\ scall'[c] = r
      /\ \A d \in ServerCalls \ {c} : scall'[d] = scall[d]
      /\ Holders'
  BY <1>0, <1>2, <1>3, RequestMoves
<1>5. /\ rows' \in [Servers -> {"absent", "active", "inactive", "deleted", "dropped"}]
      /\ rows'[x] \in {rows[x], scall[c].want}
      /\ \A y \in Servers \ {x} : rows'[y] = rows[y]
  <2>1. PICK status \in {rows[x], scall[c].want} : rows' = [rows EXCEPT ![x] = status]
    BY <1>0, <1>1 DEF Save, ServerTypeInv
  <2>2. status \in {"absent", "active", "inactive", "deleted", "dropped"}
    BY <1>0 DEF ServerTypeInv, CallTypes
  <2> QED BY <1>0, <2>1, <2>2 DEF ServerTypeInv
<1>6. ServerTypeInv'
  BY <1>0, <1>4, <1>5 DEF ServerTypeInv
<1>7. StoppedStays'
  BY <1>0 DEF ServersInv, StoppedStays
<1>8. ProcessesAccounted'
  <2>1. 0 \notin running' /\ running' \subseteq running
    BY <1>0 DEF ServerTypeInv
  <2> QED BY <1>0, <1>4, <2>1, EntriesStay, RequestAccounts DEF ServersInv
<1>9. OneAtATime'
  <2>1. OneAt(x) => rows[x] # "deleted" /\ (scall[c].want = "deleted" => clients[x] = 0)
    BY <1>0, <1>1 DEF OneAt, OnServer
  <2> QED BY <1>0, <1>1, <1>2, <1>4, <1>5, <2>1, OwnServer DEF ServersInv
<1> QED BY <1>4, <1>6, <1>7, <1>8, <1>9 DEF ServersInv

\* A step that moves no request: what runs is a client's or is accounted for as before.
LEMMA OthersKeep ==
    ASSUME ServersInv, ServerTypeInv', StoppedStays', UNCHANGED <<scall, overlapped>>, launches' \in {launches, launches + 1},
           \A x \in Servers : boot'[x].client \in 0 .. launches' /\ (boot'[x].stage # "initializing" => boot'[x].client = 0),
           ProcessesAccounted',
           \A x \in Servers : clients'[x] \in {clients[x], 0} /\ (rows'[x] = rows[x] \/ rows'[x] # "deleted")
    PROVE  ServersInv'
<1>1. launches \in Nat
  BY DEF ServersInv, ServerTypeInv
<1>2. Holders'
  BY <1>1 DEF ServersInv, Holders, CallEnded
<1>3. OneAtATime'
  <2> SUFFICES ASSUME NEW x \in Servers \ overlapped' PROVE OneAt(x)'
    BY DEF OneAtATime, OneAt
  <2>1. OneAt(x) /\ \A c \in ServerCalls : c \in OnServer(x)' => c \in OnServer(x) /\ scall'[c] = scall[c]
    BY OneByOne DEF ServersInv, OnServer, CallEnded
  <2>2. CASE rows'[x] = rows[x]
    BY <2>1, <2>2, OtherServer
  <2>3. CASE rows'[x] # "deleted"
    BY <2>1, <2>3 DEF OneAt, OnServer, CallEnded
  <2> QED BY <2>2, <2>3
<1> QED BY <1>2, <1>3 DEF ServersInv

LEMMA ResourceSavesKeeps ==
    ASSUME ServersInv, ServerAssumption, NEW x \in Servers, NEW status \in {"active", "inactive", "dropped"},
           ResourceSaves(x, status)
    PROVE  ServersInv'
<1>0. /\ UNCHANGED <<clients, running, launches, adrift, scall, boot, sweep, overlapped>>
      /\ rows' = [rows EXCEPT ![x] = status]
  BY DEF ResourceSaves, managerView
<1>1. /\ rows' \in [Servers -> {"absent", "active", "inactive", "deleted", "dropped"}]
      /\ \A y \in Servers : rows'[y] = rows[y] \/ rows'[y] # "deleted"
  BY <1>0 DEF ServersInv, ServerTypeInv
<1>2. ServerTypeInv' /\ StoppedStays'
  BY <1>0, <1>1 DEF ServersInv, ServerTypeInv, StoppedStays
<1>3. ProcessesAccounted'
  BY <1>0 DEF ServersInv, ProcessesAccounted, InManager
<1>4. \A y \in Servers : boot'[y].client \in 0 .. launches' /\ (boot'[y].stage # "initializing" => boot'[y].client = 0)
  BY <1>0 DEF ServersInv, Holders
<1> QED BY <1>0, <1>1, <1>2, <1>3, <1>4, OthersKeep

\* The start-up task of x moves on with its client given to the manager, adrift or just started.
LEMMA BootMoves ==
    ASSUME ServersInv, NEW x \in Servers, NEW stage \in {"initializing", "done"}, NEW n \in 0 .. launches',
           boot' = [boot EXCEPT ![x] = [stage |-> stage, client |-> n]],
           stage = "done" => n = 0,
           launches' \in {launches, launches + 1}, adrift \subseteq adrift',
           UNCHANGED <<rows, scall, sweep, overlapped>>, clients' \in [ClientKeys -> 0 .. launches'],
           \A y \in Servers : clients'[y] = clients[y],
           running' \subseteq running \cup ({n} \cap {launches + 1}), launches' = launches => running' = running,
           running' \subseteq 1 .. launches',
           boot[x].client # 0 => boot[x].client \in adrift' \cup InManager',
           \A k \in ClientKeys : clients[k] # 0 => clients[k] \in InManager' \cup adrift'
    PROVE  ServersInv'
<1>0. ServerTypeInv /\ launches \in Nat /\ launches' \in Nat /\ n \in Nat /\ 0 \notin running
  BY DEF ServersInv, ServerTypeInv
<1>1. /\ boot' \in [Servers -> [stage : {"none", "connecting", "initializing", "done"}, client : Nat]]
      /\ boot'[x] = [stage |-> stage, client |-> n] /\ boot'[x].stage = stage /\ boot'[x].client = n
      /\ \A y \in Servers \ {x} : boot'[y] = boot[y]
  BY <1>0 DEF ServerTypeInv
<1>2. ServerTypeInv'
  BY <1>0, <1>1 DEF ServerTypeInv
<1>3. StoppedStays'
  BY <1>0 DEF ServersInv, StoppedStays, ServerTypeInv
<1>4. ASSUME NEW y \in Servers
      PROVE  boot'[y].client \in 0 .. launches' /\ (boot'[y].stage # "initializing" => boot'[y].client = 0)
  BY <1>0, <1>1 DEF ServersInv, Holders
<1>5. ASSUME NEW m \in running'
      PROVE  \/ m \in InManager' \/ m \in adrift'
             \/ (\E d \in ServerCalls : m = scall'[d].client) \/ (\E y \in Servers : m = boot'[y].client)
  <2>1. CASE m = n
    BY <1>1, <2>1
  <2>2. CASE m \in running
    <3>1. CASE m \in InManager
      BY <1>0, <2>2, <3>1 DEF InManager
    <3>2. CASE m \in adrift
      BY <3>2
    <3>3. ASSUME NEW d \in ServerCalls, m = scall[d].client
          PROVE  \E e \in ServerCalls : m = scall'[e].client
      BY <3>3
    <3>4. ASSUME NEW y \in Servers, m = boot[y].client
          PROVE  m \in InManager' \/ m \in adrift' \/ \E z \in Servers : m = boot'[z].client
      <4>1. CASE y = x
        BY <1>0, <2>2, <3>4, <4>1
      <4>2. CASE y # x
        BY <1>1, <3>4, <4>2
      <4> QED BY <4>1, <4>2
    <3> QED BY <2>2, <3>1, <3>2, <3>3, <3>4 DEF ServersInv, ProcessesAccounted
  <2> QED BY <2>1, <2>2
<1>6. ProcessesAccounted'
  BY <1>5 DEF ProcessesAccounted
<1> QED BY <1>2, <1>3, <1>4, <1>6, OthersKeep

LEMMA BootKeeps ==
    ASSUME ServersInv, ServerAssumption, NEW x \in Servers,
           BootConnects(x) \/ BootRegisters(x) \/ BootFails(x)
    PROVE  ServersInv'
<1>0. /\ ServerTypeInv /\ launches \in Nat /\ boot[x].client \in 0 .. launches
      /\ boot[x].stage # "initializing" => boot[x].client = 0
      /\ clients \in [ClientKeys -> 0 .. launches] /\ NameOf[x] \in ServerNames
      /\ running \subseteq 1 .. launches
  BY DEF ServersInv, ServerTypeInv, Holders, ServerAssumption
<1>1. CASE BootConnects(x)
  <2>1. /\ launches' = launches + 1 /\ running' = running \cup {launches + 1}
        /\ boot[x].client = 0 /\ boot' = [boot EXCEPT ![x] = [stage |-> "initializing", client |-> launches']]
        /\ UNCHANGED <<rows, clients, scall, sweep, adrift, overlapped>>
    BY <1>0, <1>1 DEF BootConnects, LaunchClient
  <2>2. running' \subseteq 1 .. launches' /\ launches' \in 0 .. launches' /\ clients' \in [ClientKeys -> 0 .. launches']
    BY <1>0, <2>1
  <2>3. running' \subseteq running \cup ({launches'} \cap {launches + 1}) /\ launches' # launches
    BY <1>0, <2>1
  <2> QED BY <2>1, <2>2, <2>3, EntriesStay, BootMoves
<1>2. CASE BootRegisters(x)
  <2>1. /\ Register(NameOf[x], boot[x].client) /\ boot' = [boot EXCEPT ![x] = [stage |-> "done", client |-> 0]]
        /\ UNCHANGED <<rows, running, launches, scall, sweep, overlapped>>
        /\ NameOf[x] \in ClientKeys /\ \A y \in Servers : y # NameOf[x] /\ y \in ClientKeys
    BY <1>0, <1>2 DEF BootRegisters, ClientKeys, ServerAssumption
  <2>2. /\ clients' \in [ClientKeys -> 0 .. launches']
        /\ \A y \in Servers : clients'[y] = clients[y]
        /\ adrift \subseteq adrift'
        /\ boot[x].client # 0 => boot[x].client \in InManager'
        /\ \A k \in ClientKeys : clients[k] # 0 => clients[k] \in InManager' \cup adrift'
    BY <1>0, <2>1, Registers
  <2>3. 0 \in 0 .. launches' /\ launches' = launches /\ running' = running /\ running' \subseteq 1 .. launches'
    BY <1>0, <2>1
  <2> QED BY <2>1, <2>2, <2>3, BootMoves
<1>3. CASE BootFails(x)
  <2>1. /\ boot' = [boot EXCEPT ![x] = [stage |-> "done", client |-> 0]]
        /\ adrift' = adrift \cup ({boot[x].client} \ {0})
        /\ UNCHANGED <<rows, clients, running, launches, scall, sweep, overlapped>>
    BY <1>3 DEF BootFails
  <2>2. boot[x].client # 0 => boot[x].client \in adrift'
    BY <2>1
  <2>3. /\ 0 \in 0 .. launches' /\ launches' = launches /\ running' = running /\ running' \subseteq 1 .. launches'
        /\ clients' \in [ClientKeys -> 0 .. launches']
    BY <1>0, <2>1
  <2>4. \A k \in ClientKeys : clients[k] # 0 => clients[k] \in InManager' \cup adrift'
    BY <2>1, EntriesStay
  <2> QED BY <2>1, <2>2, <2>3, <2>4, BootMoves
<1> QED BY <1>1, <1>2, <1>3

LEMMA ShutdownKeeps ==
    ASSUME ServersInv, ServerAssumption,
           \/ ShutdownBegins \/ ShutdownClears \/ ShutdownRaises \/ \E k \in ClientKeys : ShutdownStops(k)
    PROVE  ServersInv'
<1>0. /\ ServerTypeInv /\ launches \in Nat
      /\ \A x \in Servers : boot[x].client \in 0 .. launches /\ (boot[x].stage # "initializing" => boot[x].client = 0)
      /\ clients \in [ClientKeys -> 0 .. launches] /\ Servers \subseteq ClientKeys
      /\ sweep \in [seen : SUBSET (1 .. launches), size : {sweep.size}]
  BY DEF ServersInv, ServerTypeInv, Holders, ClientKeys
<1>1. CASE ShutdownBegins
  <2>1. UNCHANGED <<rows, clients, running, launches, adrift, scall, boot, overlapped>> /\ sweep'.seen = {}
        /\ sweep' \in [seen : SUBSET (1 .. launches'), size : {sweep'.size}]
    BY <1>1 DEF ShutdownBegins, managerView
  <2>2. ServerTypeInv' /\ StoppedStays'
    BY <1>0, <2>1 DEF ServerTypeInv, StoppedStays
  <2>3. ProcessesAccounted'
    BY <2>1 DEF ServersInv, ProcessesAccounted, InManager
  <2> QED BY <1>0, <2>1, <2>2, <2>3, OthersKeep
<1>2. CASE ShutdownClears
  <2>1. UNCHANGED <<rows, running, launches, adrift, scall, boot, sweep, overlapped>>
        /\ clients' = [k \in ClientKeys |-> 0] /\ InManager \subseteq sweep.seen
    BY <1>2 DEF ShutdownClears
  <2>2. ServerTypeInv' /\ StoppedStays'
    BY <1>0, <2>1 DEF ServersInv, ServerTypeInv, StoppedStays
  <2>3. InManager \cap running = {}
    BY <2>1 DEF ServersInv, StoppedStays
  <2>4. ProcessesAccounted'
    BY <2>1, <2>3 DEF ServersInv, ProcessesAccounted
  <2>5. \A x \in Servers : clients'[x] = 0
    BY <1>0, <2>1
  <2> QED BY <1>0, <2>1, <2>2, <2>4, <2>5, OthersKeep
<1>3. CASE ShutdownRaises
  <2>1. UNCHANGED <<rows, clients, running, launches, adrift, scall, boot, sweep, overlapped>>
    BY <1>3 DEF ShutdownRaises, managerView
  <2>2. ServerTypeInv' /\ StoppedStays'
    BY <1>0, <2>1 DEF ServersInv, ServerTypeInv, StoppedStays
  <2>3. ProcessesAccounted'
    BY <2>1 DEF ServersInv, ProcessesAccounted, InManager
  <2> QED BY <1>0, <2>1, <2>2, <2>3, OthersKeep
<1>4. ASSUME NEW k \in ClientKeys, ShutdownStops(k) PROVE ServersInv'
  <2>1. UNCHANGED <<rows, clients, launches, adrift, scall, boot, overlapped>>
        /\ running' = running \ {clients[k]} /\ sweep' = [sweep EXCEPT !.seen = @ \cup {clients[k]}]
        /\ clients[k] \in 1 .. launches
    BY <1>0, <1>4 DEF ShutdownStops, Stop, Entries
  <2>2. sweep'.seen = sweep.seen \cup {clients[k]}
        /\ sweep' \in [seen : SUBSET (1 .. launches'), size : {sweep'.size}]
    BY <1>0, <2>1
  <2>3. ServerTypeInv' /\ StoppedStays'
    BY <1>0, <2>1, <2>2 DEF ServersInv, ServerTypeInv, StoppedStays
  <2>4. ProcessesAccounted'
    BY <2>1 DEF ServersInv, ProcessesAccounted, InManager
  <2> QED BY <1>0, <2>1, <2>3, <2>4, OthersKeep
<1> QED BY <1>1, <1>2, <1>3, <1>4

\* The invariant of the servers holds throughout.
LEMMA ServersInvariant == McpSpec => []ServersInv
<1>1. McpInit => ServersInv
  <2> SUFFICES ASSUME McpInit PROVE ServersInv
    OBVIOUS
  <2>1. IdleCall \in CallTypes /\ IdleCall.client = 0 /\ IdleCall.stage = "idle"
    BY DEF IdleCall, CallTypes
  <2>2. ServerTypeInv /\ Holders /\ StoppedStays
    BY <2>1 DEF McpInit, ServerTypeInv, Holders, StoppedStays, CallEnded
  <2>3. ProcessesAccounted
    BY DEF McpInit, ProcessesAccounted
  <2>4. OneAtATime
    BY <2>1 DEF McpInit, OneAtATime, OnServer, CallEnded
  <2> QED BY <2>2, <2>3, <2>4 DEF ServersInv
<1>2. ServersInv /\ [McpNext]_mcpVars => ServersInv'
  <2> SUFFICES ASSUME ServersInv, [McpNext]_mcpVars PROVE ServersInv'
    OBVIOUS
  <2>0. ServerAssumption
    BY ServerAssumption
  <2>1. CASE UNCHANGED mcpVars
    <3>1. UNCHANGED <<rows, clients, running, launches, scall, boot, gateway, sweep, adrift, rowEdits, overlapped>>
      BY <2>1 DEF mcpVars
    <3>2. ServerTypeInv' /\ StoppedStays' /\ ProcessesAccounted'
      BY <3>1 DEF ServersInv, ServerTypeInv, StoppedStays, ProcessesAccounted, InManager
    <3> QED BY <3>1, <3>2, OthersKeep DEF ServersInv, Holders
  <2>2. ASSUME NEW c \in ServerCalls, NEW x \in Servers,
               \/ CreateServer(c, x) \/ UpdateServer(c, x) \/ ConnectServer(c, x)
               \/ DisconnectServer(c, x) \/ DeleteServer(c, x)
        PROVE  ServersInv'
    <3>1. StopFirst(x, "connecting") \in {"stopping", "connecting", "saving"}
          /\ StopFirst(x, "saving") \in {"stopping", "connecting", "saving"}
      BY DEF StopFirst
    <3>2. CASE CreateServer(c, x)
      BY <2>0, <3>2, CreateKeeps
    <3>3. CASE UpdateServer(c, x)
      <4>1. PICK want \in {"active", "inactive"}, stage \in {"stopping", "connecting", "saving"} :
              BeginRequest(c, "update", x, stage, want)
        BY <3>1, <3>3 DEF UpdateServer, StopFirst
      <4> QED BY <2>0, <3>3, <4>1, BeginKeeps DEF UpdateServer
    <3>4. CASE ConnectServer(c, x)
      BY <2>0, <3>1, <3>4, BeginKeeps DEF ConnectServer
    <3>5. CASE DisconnectServer(c, x)
      BY <2>0, <3>1, <3>5, BeginKeeps DEF DisconnectServer
    <3>6. CASE DeleteServer(c, x)
      BY <2>0, <3>1, <3>6, BeginKeeps DEF DeleteServer
    <3> QED BY <2>2, <3>2, <3>3, <3>4, <3>5, <3>6
  <2>3. ASSUME NEW c \in ServerCalls,
               StopEnds(c) \/ ConnectStarts(c) \/ ConnectEnds(c) \/ ConnectFails(c) \/ Save(c)
        PROVE  ServersInv'
    BY <2>0, <2>3, StopEndsKeeps, ConnectStartsKeeps, ConnectEndsKeeps, ConnectFailsKeeps, SaveKeeps
  <2>4. ASSUME NEW x \in Servers, BootConnects(x) \/ BootRegisters(x) \/ BootFails(x) PROVE ServersInv'
    BY <2>0, <2>4, BootKeeps
  <2>5. ASSUME NEW x \in Servers, NEW status \in {"active", "inactive", "dropped"}, ResourceSaves(x, status)
        PROVE  ServersInv'
    BY <2>0, <2>5, ResourceSavesKeeps
  <2>6. CASE ShutdownBegins \/ ShutdownClears \/ ShutdownRaises \/ \E k \in ClientKeys : ShutdownStops(k)
    BY <2>0, <2>6, ShutdownKeeps
  <2> QED BY <2>1, <2>2, <2>3, <2>4, <2>5, <2>6 DEF McpNext
<1> QED BY <1>1, <1>2, PTL DEF McpSpec

\* No process of an MCP server is lost from sight but by the listed overlaps, and a deleted row
\* leaves no client behind (agent/mcp/client.py:467 to 488, gateway/api/v1/mcp_servers.py).  The
\* invariant adds who may hold a client, that a client stopped at shutdown stays stopped, and that
\* a request that deletes, alone on its server, has nothing left to stop when it saves.
THEOREM ServersCorrect == McpSpec => []ServersAccounted
<1>1. ServersInv => ServersAccounted
  <2> SUFFICES ASSUME ServersInv PROVE DeletedNotConnected
    BY DEF ServersInv, ServersAccounted
  <2> QED BY OneByOne DEF ServersInv, OneAt, DeletedNotConnected
<1> QED BY <1>1, ServersInvariant, PTL

-----------------------------------------------------------------------------
(* Heartbeats                                                              *)

\* A time that is stored is that of the last ping or pong, and every missed heartbeat was counted
\* in a round after the time-out.
CountsSilence(k) ==
    LET conn == connections[k] IN
    Registered(k) =>
      /\ conn.last_ping # Naive => conn.last_ping = heard[k].ping
      /\ conn.last_pong # Naive => conn.last_pong = heard[k].pong
      /\ conn.missed_heartbeats > 0 => rounds - heard[k].ping >= PingTimeout + conn.missed_heartbeats
HeartbeatInv == HeartbeatTypeOK /\ \A k \in SessionKeys : CountsSilence(k)

\* What a step makes of one connection leaves the others alone.
LEMMA OneConnectionMoves ==
    ASSUME HeartbeatInv, HeartbeatAssumption, NEW k \in SessionKeys, NEW conn \in Connection,
           NEW ping \in Nat, NEW pong \in Nat,
           connections' = [connections EXCEPT ![k] = conn],
           heard' = [heard EXCEPT ![k] = [ping |-> ping, pong |-> pong]],
           conn # NoConnection =>
             /\ conn.last_ping # Naive => conn.last_ping = ping
             /\ conn.last_pong # Naive => conn.last_pong = pong
             /\ conn.missed_heartbeats > 0 => rounds - ping >= PingTimeout + conn.missed_heartbeats,
           connects' \in Nat, UNCHANGED <<monitor, rounds>>,
           dead' \subseteq dead, closing' \in SessionKeys \cup {NoKey}
    PROVE  HeartbeatInv'
<1>1. /\ connections' \in [SessionKeys -> Connection] /\ connections'[k] = conn
      /\ \A j \in SessionKeys \ {k} : connections'[j] = connections[j]
      /\ heard' \in [SessionKeys -> [ping : Nat, pong : Nat]]
      /\ heard'[k].ping = ping /\ heard'[k].pong = pong
      /\ \A j \in SessionKeys \ {k} : heard'[j] = heard[j]
  BY DEF HeartbeatInv, HeartbeatTypeOK
<1>2. HeartbeatTypeOK'
  BY <1>1 DEF HeartbeatInv, HeartbeatTypeOK
<1>3. ASSUME NEW j \in SessionKeys PROVE CountsSilence(j)'
  <2>1. CASE j = k
    BY <1>1, <2>1 DEF CountsSilence, Registered
  <2>2. CASE j # k
    BY <1>1, <2>2 DEF HeartbeatInv, CountsSilence, Registered
  <2> QED BY <2>1, <2>2
<1> QED BY <1>2, <1>3 DEF HeartbeatInv

LEMMA NoConnectionTyped == NoConnection \in Connection
BY DEF NoConnection, Connection, Naive

\* A step that stores nothing about a connection.
LEMMA ConnectionsRest ==
    ASSUME HeartbeatInv, UNCHANGED <<connections, rounds, connects, heard>>, dead' \subseteq SessionKeys,
           monitor' \in {"sleeping", "closing", "raised"}, closing' \in SessionKeys \cup {NoKey}
    PROVE  HeartbeatInv'
BY DEF HeartbeatInv, HeartbeatTypeOK, CountsSilence, Registered

LEMMA MonitorRoundKeeps ==
    ASSUME HeartbeatInv, HeartbeatAssumption, MonitorRound
    PROVE  /\ HeartbeatInv'
           /\ \A k \in dead' \ dead :
                \/ rounds' - heard[k].ping > PingTimeout + MaxMissed
                \/ rounds' - heard[k].pong > IdleTimeout
<1> DEFINE n == rounds + 1
<1>0. /\ rounds \in Nat /\ rounds' = n /\ heard' = heard /\ PingTimeout \in Nat /\ MaxMissed \in Nat
      /\ connections \in [SessionKeys -> Connection] /\ heard \in [SessionKeys -> [ping : Nat, pong : Nat]]
      /\ \A k \in SessionKeys : Registered(k) => ~MeetsNaive(connections[k], n)
      /\ connections' = [k \in SessionKeys |->
           IF Registered(k) THEN [connections[k] EXCEPT !.missed_heartbeats = Missed(connections[k], n)]
           ELSE NoConnection]
      /\ dead' = {k \in SessionKeys : Registered(k) /\ (TooManyMissed(connections[k], n) \/ Idle(connections[k], n))}
  BY DEF HeartbeatInv, HeartbeatTypeOK, HeartbeatAssumption, MonitorRound
<1>1. ASSUME NEW k \in SessionKeys, Registered(k)
      PROVE  /\ connections[k].last_ping = heard[k].ping
             /\ Missed(connections[k], n) \in Nat
             /\ Missed(connections[k], n) > 0 => n - heard[k].ping >= PingTimeout + Missed(connections[k], n)
             /\ TooManyMissed(connections[k], n) => n - heard[k].ping > PingTimeout + MaxMissed
             /\ Idle(connections[k], n) /\ ~TooManyMissed(connections[k], n) => n - heard[k].pong > IdleTimeout
  <2>1. connections[k] \in Connection /\ heard[k] \in [ping : Nat, pong : Nat]
    BY <1>0
  <2>2. PICK ping \in Nat, pong \in Nat, missed \in Nat :
          ping = heard[k].ping /\ pong = heard[k].pong /\ missed = connections[k].missed_heartbeats
    BY <2>1 DEF Connection
  <2>3. connections[k].last_ping = ping /\ (missed > 0 => rounds - ping >= PingTimeout + missed)
    BY <1>0, <1>1, <2>2 DEF HeartbeatInv, CountsSilence, MeetsNaive
  <2>4. ~TooManyMissed(connections[k], n) => connections[k].last_pong = pong
    BY <1>0, <1>1, <2>2 DEF HeartbeatInv, CountsSilence, MeetsNaive
  <2>5. Missed(connections[k], n) = missed + IF n - ping > PingTimeout THEN 1 ELSE 0
    BY <2>2, <2>3 DEF Missed
  <2>6. TooManyMissed(connections[k], n) <=> n - ping > PingTimeout /\ Missed(connections[k], n) > MaxMissed
    BY <2>3 DEF TooManyMissed
  <2>7. Idle(connections[k], n) /\ ~TooManyMissed(connections[k], n) => n - pong > IdleTimeout
    BY <2>4 DEF Idle
  <2>8. Missed(connections[k], n) \in Nat
    BY <1>0, <2>5
  <2>9. Missed(connections[k], n) > 0 => n - ping >= PingTimeout + Missed(connections[k], n)
    BY <1>0, <2>3, <2>5
  <2>10. TooManyMissed(connections[k], n) => n - ping > PingTimeout + MaxMissed
    BY <1>0, <2>3, <2>5, <2>6
  <2> QED BY <2>2, <2>3, <2>7, <2>8, <2>9, <2>10
<1>2. ASSUME NEW k \in SessionKeys
      PROVE  /\ connections'[k] \in Connection
             /\ CountsSilence(k)'
  <2>1. CASE Registered(k)
    <3>1. PICK missed \in Nat : missed = Missed(connections[k], n)
      BY <1>1, <2>1
    <3>2. connections'[k] = [connections[k] EXCEPT !.missed_heartbeats = missed] /\ connections[k] \in Connection
      BY <1>0, <2>1, <3>1
    <3>3. /\ connections'[k] \in Connection
          /\ connections'[k].last_ping = connections[k].last_ping /\ connections'[k].last_pong = connections[k].last_pong
          /\ connections'[k].missed_heartbeats = missed
      BY <3>2 DEF Connection
    <3> QED BY <1>0, <1>1, <2>1, <3>1, <3>3 DEF HeartbeatInv, CountsSilence
  <2>2. CASE ~Registered(k)
    <3>1. connections'[k] = NoConnection
      BY <1>0, <2>2
    <3> QED BY <3>1, NoConnectionTyped DEF CountsSilence, Registered
  <2> QED BY <2>1, <2>2
<1>3. connections' \in [SessionKeys -> Connection]
  BY <1>0, <1>2
<1>4. HeartbeatTypeOK'
  BY <1>0, <1>3 DEF HeartbeatInv, HeartbeatTypeOK, MonitorRound
<1> QED BY <1>0, <1>1, <1>2, <1>4 DEF HeartbeatInv

LEMMA HeartbeatStepKeeps ==
    ASSUME HeartbeatInv, HeartbeatAssumption, [HeartbeatNext]_heartbeatVars
    PROVE  HeartbeatInv'
<1>0. /\ rounds \in Nat /\ connects \in Nat /\ heard \in [SessionKeys -> [ping : Nat, pong : Nat]]
      /\ connections \in [SessionKeys -> Connection] /\ dead \subseteq SessionKeys
      /\ closing \in SessionKeys \cup {NoKey} /\ connects + 1 \in Nat
  BY DEF HeartbeatInv, HeartbeatTypeOK
<1>1. ASSUME NEW k \in SessionKeys, RegisterConnection(k) PROVE HeartbeatInv'
  <2>1. PICK conn \in Connection :
          /\ connections' = [connections EXCEPT ![k] = conn]
          /\ conn.last_ping = Naive /\ conn.last_pong = Naive /\ conn.missed_heartbeats = 0
    <3>1. PICK n \in Nat : n = connects + 1
      BY <1>0
    <3>3. PICK r : r = [NoConnection EXCEPT !.number = connects + 1]
      OBVIOUS
    <3>4. r = [NoConnection EXCEPT !.number = n]
      BY <3>1, <3>3
    <3>5. connections' = [connections EXCEPT ![k] = r]
      BY <1>1, <3>3 DEF RegisterConnection
    <3>6. r = [number |-> n, last_ping |-> Naive, last_pong |-> Naive, missed_heartbeats |-> 0]
      BY <3>4 DEF NoConnection
    <3>7. /\ r \in Connection
          /\ r.last_ping = Naive /\ r.last_pong = Naive /\ r.missed_heartbeats = 0
      BY <3>6 DEF Connection
    <3> QED BY <3>5, <3>7
  <2>2. conn # NoConnection =>
          /\ conn.last_ping # Naive => conn.last_ping = rounds
          /\ conn.last_pong # Naive => conn.last_pong = rounds
          /\ conn.missed_heartbeats > 0 => rounds - rounds >= PingTimeout + conn.missed_heartbeats
    BY <2>1
  <2>3. /\ heard' = [heard EXCEPT ![k] = [ping |-> rounds, pong |-> rounds]]
        /\ connects' = connects + 1 /\ UNCHANGED <<dead, closing, monitor, rounds>>
    BY <1>1 DEF RegisterConnection
  <2> QED BY <1>0, <2>1, <2>2, <2>3, OneConnectionMoves
<1>2. ASSUME NEW k \in SessionKeys, NEW ping \in Nat, NEW pong \in Nat,
             connections' = [connections EXCEPT ![k] = NoConnection], UNCHANGED <<monitor, rounds, connects, heard, dead>>,
             closing' \in SessionKeys \cup {NoKey}
      PROVE  HeartbeatInv'
  <2>1. heard' = [heard EXCEPT ![k] = [ping |-> heard[k].ping, pong |-> heard[k].pong]]
        /\ heard[k].ping \in Nat /\ heard[k].pong \in Nat
    BY <1>0, <1>2
  <2> QED BY <1>0, <1>2, <2>1, NoConnectionTyped, OneConnectionMoves
<1>3. ASSUME NEW k \in SessionKeys, RecordPing(k) PROVE HeartbeatInv'
  <2>0. connections[k] \in Connection /\ heard[k] \in [ping : Nat, pong : Nat]
    BY <1>0
  <2>1. PICK conn \in Connection :
          /\ connections' = [connections EXCEPT ![k] = conn]
          /\ conn.last_ping = rounds /\ conn.last_pong = connections[k].last_pong /\ conn.missed_heartbeats = 0
    <3>1. /\ [connections[k] EXCEPT !.last_ping = rounds, !.missed_heartbeats = 0] \in Connection
          /\ [connections[k] EXCEPT !.last_ping = rounds, !.missed_heartbeats = 0].last_ping = rounds
          /\ [connections[k] EXCEPT !.last_ping = rounds, !.missed_heartbeats = 0].last_pong = connections[k].last_pong
          /\ [connections[k] EXCEPT !.last_ping = rounds, !.missed_heartbeats = 0].missed_heartbeats = 0
      BY <1>0, <2>0 DEF Connection
    <3>2. connections' = [connections EXCEPT ![k] = [connections[k] EXCEPT !.last_ping = rounds, !.missed_heartbeats = 0]]
      BY <1>0, <1>3 DEF RecordPing
    <3> QED BY <3>1, <3>2
  <2>a. [heard[k] EXCEPT !.ping = rounds] = [ping |-> rounds, pong |-> heard[k].pong]
    BY <2>0
  <2>b. heard' = [heard EXCEPT ![k] = [heard[k] EXCEPT !.ping = rounds]] /\ Registered(k)
    BY <1>0, <1>3 DEF RecordPing
  <2>2. heard' = [heard EXCEPT ![k] = [ping |-> rounds, pong |-> heard[k].pong]] /\ heard[k].pong \in Nat
    BY <2>0, <2>a, <2>b
  <2>3. conn.last_pong # Naive => conn.last_pong = heard[k].pong
    <3>1. CountsSilence(k)
      BY DEF HeartbeatInv
    <3> QED BY <2>1, <2>b, <3>1 DEF CountsSilence
  <2>4. conn # NoConnection =>
          /\ conn.last_ping # Naive => conn.last_ping = rounds
          /\ conn.last_pong # Naive => conn.last_pong = heard[k].pong
          /\ conn.missed_heartbeats > 0 => rounds - rounds >= PingTimeout + conn.missed_heartbeats
    BY <2>1, <2>3
  <2>5. UNCHANGED <<dead, closing, monitor, rounds, connects>>
    BY <1>3 DEF RecordPing
  <2> QED BY <1>0, <2>1, <2>2, <2>4, <2>5, OneConnectionMoves
<1>4. ASSUME NEW k \in SessionKeys, RecordPong(k) PROVE HeartbeatInv'
  <2>0. connections[k] \in Connection /\ heard[k] \in [ping : Nat, pong : Nat]
    BY <1>0
  <2>1. PICK conn \in Connection :
          /\ connections' = [connections EXCEPT ![k] = conn]
          /\ conn.last_pong = rounds /\ conn.last_ping = connections[k].last_ping
          /\ conn.missed_heartbeats = connections[k].missed_heartbeats
    <3>1. /\ [connections[k] EXCEPT !.last_pong = rounds] \in Connection
          /\ [connections[k] EXCEPT !.last_pong = rounds].last_pong = rounds
          /\ [connections[k] EXCEPT !.last_pong = rounds].last_ping = connections[k].last_ping
          /\ [connections[k] EXCEPT !.last_pong = rounds].missed_heartbeats = connections[k].missed_heartbeats
      BY <1>0, <2>0 DEF Connection
    <3>2. connections' = [connections EXCEPT ![k] = [connections[k] EXCEPT !.last_pong = rounds]]
      BY <1>0, <1>4 DEF RecordPong
    <3> QED BY <3>1, <3>2
  <2>a. [heard[k] EXCEPT !.pong = rounds] = [ping |-> heard[k].ping, pong |-> rounds]
    BY <2>0
  <2>b. heard' = [heard EXCEPT ![k] = [heard[k] EXCEPT !.pong = rounds]] /\ Registered(k)
    BY <1>0, <1>4 DEF RecordPong
  <2>2. heard' = [heard EXCEPT ![k] = [ping |-> heard[k].ping, pong |-> rounds]] /\ heard[k].ping \in Nat
    BY <2>0, <2>a, <2>b
  <2>3. /\ conn.last_ping # Naive => conn.last_ping = heard[k].ping
        /\ conn.missed_heartbeats > 0 => rounds - heard[k].ping >= PingTimeout + conn.missed_heartbeats
    <3>1. CountsSilence(k)
      BY DEF HeartbeatInv
    <3> QED BY <2>1, <2>b, <3>1 DEF CountsSilence
  <2>4. conn # NoConnection =>
          /\ conn.last_ping # Naive => conn.last_ping = heard[k].ping
          /\ conn.last_pong # Naive => conn.last_pong = rounds
          /\ conn.missed_heartbeats > 0 => rounds - heard[k].ping >= PingTimeout + conn.missed_heartbeats
    BY <2>1, <2>3
  <2>5. UNCHANGED <<dead, closing, monitor, rounds, connects>>
    BY <1>4 DEF RecordPong
  <2> QED BY <1>0, <2>1, <2>2, <2>4, <2>5, OneConnectionMoves
<1>5. ASSUME NEW k \in SessionKeys, UnregisterConnection(k) PROVE HeartbeatInv'
  BY <1>2, <1>5 DEF UnregisterConnection, HeartbeatInv, HeartbeatTypeOK
<1>6. ASSUME NEW k \in SessionKeys, CloseDead(k) PROVE HeartbeatInv'
  BY <1>6, ConnectionsRest DEF CloseDead, HeartbeatInv, HeartbeatTypeOK
<1>7. CASE DropDead
  <2>1. closing \in SessionKeys
    BY <1>7 DEF DropDead, HeartbeatInv, HeartbeatTypeOK
  <2> QED BY <1>2, <1>7, <2>1 DEF DropDead
<1>8. CASE MonitorRaises \/ RoundEnds
  BY <1>8, ConnectionsRest DEF MonitorRaises, RoundEnds, HeartbeatInv, HeartbeatTypeOK
<1>9. CASE MonitorRound
  BY <1>9, MonitorRoundKeeps
<1>10. CASE UNCHANGED heartbeatVars
  BY <1>10, ConnectionsRest DEF heartbeatVars, HeartbeatInv, HeartbeatTypeOK
<1> QED BY <1>1, <1>3, <1>4, <1>5, <1>6, <1>7, <1>8, <1>9, <1>10 DEF HeartbeatNext

\* At the start nobody is registered.
LEMMA HeartbeatStart == HeartbeatInit => HeartbeatInv
<1> SUFFICES ASSUME HeartbeatInit PROVE HeartbeatInv
  OBVIOUS
<1>1. connections \in [SessionKeys -> Connection] /\ \A k \in SessionKeys : ~Registered(k)
  BY NoConnectionTyped DEF HeartbeatInit, Registered
<1>2. HeartbeatTypeOK
  BY <1>1 DEF HeartbeatInit, HeartbeatTypeOK
<1> QED BY <1>1, <1>2 DEF HeartbeatInv, CountsSilence

\* Every step keeps the counts.
LEMMA HeartbeatKept == HeartbeatInv /\ [HeartbeatNext]_heartbeatVars => HeartbeatInv'
BY HeartbeatAssumption, HeartbeatStepKeeps

\* A round gives up only connections that have been silent for as long as the time-outs say
\* (gateway/websocket/heartbeat.py, _monitor_loop), whatever was registered, pinged or dropped
\* before: the count of missed heartbeats is never more than the rounds of silence it stands for.
THEOREM HeartbeatCorrect == HeartbeatSpec => OnlySilentGivenUp
<1>0. HeartbeatAssumption
  BY HeartbeatAssumption
<1>1. HeartbeatInv /\ [HeartbeatNext]_heartbeatVars =>
        [\A k \in dead' \ dead :
           \/ rounds' - heard[k].ping > PingTimeout + MaxMissed
           \/ rounds' - heard[k].pong > IdleTimeout]_heartbeatVars
  <2> SUFFICES ASSUME HeartbeatInv, HeartbeatNext, NEW k \in dead' \ dead
               PROVE  \/ rounds' - heard[k].ping > PingTimeout + MaxMissed
                      \/ rounds' - heard[k].pong > IdleTimeout
    OBVIOUS
  <2>1. MonitorRound
    BY DEF HeartbeatNext, RegisterConnection, UnregisterConnection, RecordPing, RecordPong, CloseDead,
           MonitorRaises, DropDead, RoundEnds
  <2> QED BY <1>0, <2>1, MonitorRoundKeeps
<1> QED BY <1>1, HeartbeatStart, HeartbeatKept, PTL DEF HeartbeatSpec, OnlySilentGivenUp

-----------------------------------------------------------------------------
(* Sessions                                                                *)

\* What makes GoneStaysGone inductive: of a session that is not there, only the calls past their last
\* look when it went are still going to write it.
LateWritersKnown ==
    \A c \in SessionCalls :
        at[c] = "writes" /\ SessionOf[c] \in gone \ stored => c \in lastGone[SessionOf[c]]

GoneInv == SessionsTypeOK /\ LateWritersKnown /\ GoneStaysGone

\* Every step keeps the types of the variables of session_manager.py.
LEMMA TypesKept == SessionsTypeOK /\ [SessionsNext]_sessionsVars => SessionsTypeOK'
<1> SUFFICES ASSUME SessionsTypeOK, [SessionsNext]_sessionsVars PROVE SessionsTypeOK'
    OBVIOUS
<1> USE SessionsAssumption DEF SessionsAssumption, SessionsTypeOK, Goes, Vanishes, AboutToWrite
<1>1. CASE UNCHANGED sessionsVars
    BY <1>1 DEF sessionsVars
<1>2. ASSUME NEW c \in SessionCalls, SessionsStep(c) PROVE SessionsTypeOK'
  <2>1. CASE CreateStores(c)   BY <2>1 DEF CreateStores
  <2>2. CASE CreateLists(c)    BY <2>2 DEF CreateLists
  <2>3. CASE ReadsSession(c)   BY <2>3 DEF ReadsSession
  <2>4. CASE ReadsTTL(c)       BY <2>4 DEF ReadsTTL
  <2>5. CASE WritesSession(c)  BY <2>5 DEF WritesSession
  <2>6. CASE DeletesData(c)
    <3>1. CASE SessionOf[c] \in stored     BY <2>6, <3>1 DEF DeletesData
    <3>2. CASE SessionOf[c] \notin stored  BY <2>6, <3>2 DEF DeletesData
    <3> QED BY <3>1, <3>2
  <2>7. CASE DeleteUnlists(c)  BY <2>7 DEF DeleteUnlists
  <2>8. CASE ListReadsSet(c)   BY <2>8 DEF ListReadsSet
  <2>9. CASE ListGets(c)       BY <2>9 DEF ListGets
  <2>10. CASE ListEnds(c)      BY <2>10 DEF ListEnds
  <2>11. CASE CallBreaksOff(c) BY <2>11 DEF CallBreaksOff
  <2> QED BY <1>2, <2>1, <2>2, <2>3, <2>4, <2>5, <2>6, <2>7, <2>8, <2>9, <2>10, <2>11 DEF SessionsStep
<1>3. ASSUME NEW s \in SessionIds, SessionExpires(s) PROVE SessionsTypeOK'
    BY <1>3 DEF SessionExpires
<1> QED BY <1>1, <1>2, <1>3 DEF SessionsNext

\* A session that goes takes note of its late writers, and is not stored (session_manager.py:192 to 208).
LEMMA VanishKeeps ==
    ASSUME GoneInv, NEW s \in SessionIds, Vanishes(s),
           \A c \in SessionCalls : at'[c] # at[c] => at[c] = "idle" /\ at'[c] = "removes"
    PROVE  LateWritersKnown' /\ GoneStaysGone'
<1> USE DEF GoneInv, SessionsTypeOK, Vanishes, AboutToWrite
<1>1. LateWritersKnown'
    BY DEF LateWritersKnown
<1>2. ASSUME NEW r \in gone' \cap stored' PROVE \E c \in lastGone'[r] : at'[c] = "done"
  <2>1. r # s /\ r \in gone \cap stored /\ lastGone'[r] = lastGone[r]
      BY <1>2
  <2>2. PICK c \in lastGone[r] : at[c] = "done"
      BY <2>1 DEF GoneStaysGone
  <2> QED BY <2>1, <2>2
<1> QED BY <1>1, <1>2 DEF GoneStaysGone

\* Steps that leave the data of every session alone: a call that begins to write has seen the data, and
\* no call that is done goes on (session_manager.py:172 to 184).
LEMMA LooksKeep ==
    ASSUME GoneInv, UNCHANGED <<stored, gone, lastGone>>,
           NEW c \in SessionCalls, NEW to, Goes(c, to), at[c] # "done",
           to = "writes" => SessionOf[c] \in stored
    PROVE  LateWritersKnown' /\ GoneStaysGone'
<1> USE DEF GoneInv, SessionsTypeOK, Goes
<1>1. LateWritersKnown'
    BY DEF LateWritersKnown
<1>2. ASSUME NEW r \in gone' \cap stored' PROVE \E d \in lastGone'[r] : at'[d] = "done"
  <2>1. PICK d \in lastGone[r] : at[d] = "done"
      BY <1>2 DEF GoneStaysGone
  <2>2. d \in SessionCalls /\ d # c
      BY <1>2, <2>1
  <2> QED BY <2>1, <2>2
<1> QED BY <1>1, <1>2 DEF GoneStaysGone

\* The two writes: a new session was never gone, and an update writes what it knew (session_manager.py:183).
LEMMA WritesKeep ==
    ASSUME GoneInv, NEW c \in SessionCalls, CreateStores(c) \/ WritesSession(c)
    PROVE  LateWritersKnown' /\ GoneStaysGone'
<1> USE SessionsAssumption DEF SessionsAssumption, GoneInv, SessionsTypeOK, Goes, CreateStores, WritesSession
<1>1. LateWritersKnown'
    BY DEF LateWritersKnown
<1>2. ASSUME NEW r \in gone' \cap stored' PROVE \E d \in lastGone'[r] : at'[d] = "done"
  <2>1. CASE r \in stored
    <3>1. PICK d \in lastGone[r] : at[d] = "done"
        BY <1>2, <2>1 DEF GoneStaysGone
    <3>2. d \in SessionCalls /\ d # c
        BY <1>2, <2>1, <3>1
    <3> QED BY <3>1, <3>2
  <2>2. CASE r \notin stored
    <3>1. WritesSession(c) /\ r = SessionOf[c] /\ r \in gone \ stored
        BY <1>2, <2>2
    <3>2. c \in lastGone[r]
        BY <3>1 DEF LateWritersKnown
    <3> QED BY <3>1, <3>2
  <2> QED BY <2>1, <2>2
<1> QED BY <1>1, <1>2 DEF GoneStaysGone

\* Every step keeps the invariant, one case per action.
LEMMA GoneInvKept == GoneInv /\ [SessionsNext]_sessionsVars => GoneInv'
<1> SUFFICES ASSUME GoneInv, [SessionsNext]_sessionsVars PROVE LateWritersKnown' /\ GoneStaysGone'
    BY TypesKept DEF GoneInv
<1> USE SessionsAssumption DEF SessionsAssumption
<1>1. CASE UNCHANGED sessionsVars
    BY <1>1 DEF sessionsVars, GoneInv, LateWritersKnown, GoneStaysGone
<1>2. ASSUME NEW c \in SessionCalls, SessionsStep(c) PROVE LateWritersKnown' /\ GoneStaysGone'
  <2>1. CASE CreateStores(c)   BY <2>1, WritesKeep
  <2>2. CASE CreateLists(c)    BY <2>2, LooksKeep DEF CreateLists
  <2>3. CASE ReadsSession(c)
    <3> DEFINE to == CASE SessionOf[c] \notin stored -> "done"
                       [] CallOf[c] = "update" -> "looks" [] OTHER -> "writes"
    <3>1. Goes(c, to) /\ at[c] # "done" /\ UNCHANGED <<stored, gone, lastGone>>
        BY <2>3 DEF ReadsSession
    <3>2. to = "writes" => SessionOf[c] \in stored
        OBVIOUS
    <3> HIDE DEF to
    <3> QED BY <3>1, <3>2, LooksKeep
  <2>4. CASE ReadsTTL(c)
    <3> DEFINE to == IF SessionOf[c] \in stored THEN "writes" ELSE "done"
    <3>1. Goes(c, to) /\ at[c] # "done" /\ UNCHANGED <<stored, gone, lastGone>>
        BY <2>4 DEF ReadsTTL
    <3>2. to = "writes" => SessionOf[c] \in stored
        OBVIOUS
    <3> HIDE DEF to
    <3> QED BY <3>1, <3>2, LooksKeep
  <2>5. CASE WritesSession(c)  BY <2>5, WritesKeep
  <2>6. CASE DeletesData(c)
    <3>1. CASE SessionOf[c] \in stored
      <4>1. \A d \in SessionCalls : at'[d] # at[d] => at[d] = "idle" /\ at'[d] = "removes"
          BY <2>6 DEF DeletesData, Goes, GoneInv, SessionsTypeOK
      <4> QED BY <2>6, <3>1, <4>1, VanishKeeps DEF DeletesData
    <3>2. CASE SessionOf[c] \notin stored
        BY <2>6, <3>2, LooksKeep DEF DeletesData
    <3> QED BY <3>1, <3>2
  <2>7. CASE DeleteUnlists(c)  BY <2>7, LooksKeep DEF DeleteUnlists
  <2>8. CASE ListReadsSet(c)   BY <2>8, LooksKeep DEF ListReadsSet
  <2>9. CASE ListGets(c)
      BY <2>9 DEF ListGets, GoneInv, LateWritersKnown, GoneStaysGone
  <2>10. CASE ListEnds(c)      BY <2>10, LooksKeep DEF ListEnds
  <2>11. CASE CallBreaksOff(c) BY <2>11, LooksKeep DEF CallBreaksOff
  <2> QED BY <1>2, <2>1, <2>2, <2>3, <2>4, <2>5, <2>6, <2>7, <2>8, <2>9, <2>10, <2>11 DEF SessionsStep
<1>3. ASSUME NEW s \in SessionIds, SessionExpires(s) PROVE LateWritersKnown' /\ GoneStaysGone'
    BY <1>3, VanishKeeps DEF SessionExpires
<1> QED BY <1>1, <1>2, <1>3 DEF SessionsNext

\* The invariant of the sessions holds throughout.
LEMMA GoneInvariant == SessionsSpec => []GoneInv
<1>1. SessionsInit => GoneInv
    BY SessionsAssumption
    DEF SessionsAssumption, SessionsInit, GoneInv, SessionsTypeOK, LateWritersKnown, GoneStaysGone
<1> QED BY <1>1, GoneInvKept, PTL DEF SessionsSpec

\* For any sessions and calls, a session that was deleted or expired is stored again only by an update or
\* a refresh that was past its last look when it went (session_manager.py:151 to 190, 249 to 275).
THEOREM GoneCorrect == SessionsSpec => []GoneStaysGone
<1>1. GoneInv => GoneStaysGone
    BY DEF GoneInv
<1> QED BY <1>1, GoneInvariant, PTL
-----------------------------------------------------------------------------
(* The types of all of them, and the run's specification.                  *)

\* Finitely many clients are connected at a time, and a walk counts them.
FewConnected == IsFiniteSet(Connected) /\ walk.size \in Nat

\* A step connects one client at most.
LEMMA OneMore ==
    ASSUME FewConnected, NEW c \in Clients, Connected' \subseteq Connected \cup {c}, walk'.size = walk.size
    PROVE  FewConnected'
<1>1. IsFiniteSet(Connected \cup {c}) BY FS_AddElement DEF FewConnected
<1>2. IsFiniteSet(Connected') BY <1>1, FS_Subset
<1> QED BY <1>2 DEF FewConnected

\* The manager's operations, and rest.
LEMMA ConnectedMoves ==
    ASSUME SocketTypeInv
    PROVE  /\ \A s \in SocketIds : ClientOf[s] \in Clients
           /\ \A s \in SocketIds : connect(s) => Connected' \subseteq Connected \cup {ClientOf[s]}
           /\ \A c \in Clients : disconnect(c) => Connected' \subseteq Connected
           /\ UNCHANGED managerVars => Connected' = Connected
<1>1. ClientOf \in [SocketIds -> Clients] BY SocketAssumption DEF SocketAssumption
<1>2. ASSUME NEW s \in SocketIds, connect(s) PROVE Connected' \subseteq Connected \cup {ClientOf[s]}
  BY <1>1, <1>2 DEF connect, Connected, SocketTypeInv
<1>3. ASSUME NEW c \in Clients, disconnect(c) PROVE Connected' \subseteq Connected
  BY <1>3 DEF disconnect, Connected, SocketTypeInv
<1>4. ASSUME UNCHANGED managerVars PROVE Connected' = Connected BY <1>4 DEF managerVars, Connected
<1> QED BY <1>1, <1>2, <1>3, <1>4

\* Every step keeps them few.
LEMMA FewConnectedStep == SocketTypeInv /\ FewConnected /\ [SocketNext]_socketVars => FewConnected'
<1> SUFFICES ASSUME SocketTypeInv, FewConnected, [SocketNext]_socketVars PROVE FewConnected' OBVIOUS
<1>1. ASSUME Connected' \subseteq Connected, walk'.size \in Nat PROVE FewConnected'
  <2>1. IsFiniteSet(Connected') BY <1>1, FS_Subset DEF FewConnected
  <2> QED BY <1>1, <2>1 DEF FewConnected
<1>2. walk.size \in Nat /\ Cardinality(Connected) \in Nat BY FS_CardinalityType DEF FewConnected
<1>3. CASE UNCHANGED socketVars
  <2>1. UNCHANGED managerVars /\ walk' = walk BY <1>3 DEF socketVars
  <2> QED BY <1>1, <1>2, <2>1, ConnectedMoves
<1>4. ASSUME NEW s \in SocketIds, ChatVerified(s) \/ StreamVerified(s) PROVE FewConnected'
  <2>1. connect(s) /\ walk' = walk BY <1>4 DEF ChatVerified, StreamVerified
  <2> QED BY <2>1, ConnectedMoves, OneMore
<1>5. ASSUME NEW s \in SocketIds, Accept(s) \/ Unauthorized(s) \/ ReceiveChat(s) \/ PeerLeaves(s) PROVE FewConnected'
  <2>1. UNCHANGED managerVars /\ walk' = walk BY <1>5 DEF Accept, Unauthorized, ReceiveChat, PeerLeaves
  <2> QED BY <1>1, <1>2, <2>1, ConnectedMoves
<1>6. ASSUME NEW s \in SocketIds, ReceivePing(s) \/ ChatAnswers(s) \/ SendEnds(s) \/ EndpointEnds(s) PROVE FewConnected'
  <2>1. (UNCHANGED managerVars \/ disconnect(ClientOf[s])) /\ walk' = walk
    BY <1>6 DEF ReceivePing, ChatAnswers, BeginSend, SendEnds, EndpointEnds
  <2>2. Connected' \subseteq Connected BY <2>1, ConnectedMoves
  <2> QED BY <1>1, <1>2, <2>1, <2>2
<1>7. CASE BroadcastBegins \/ CloseBegins
  <2>1. PICK over : WalkBegins(over) BY <1>7 DEF BroadcastBegins, CloseBegins
  <2>2. UNCHANGED managerVars /\ walk'.size = Cardinality(Connected) BY <2>1 DEF WalkBegins, NoWalk
  <2> QED BY <1>1, <1>2, <2>2, ConnectedMoves
<1>8. CASE WalkRaises
  <2>1. UNCHANGED managerVars /\ walk'.size = walk.size BY <1>8 DEF WalkRaises, SocketTypeInv
  <2> QED BY <1>1, <1>2, <2>1, ConnectedMoves
<1>9. ASSUME NEW c \in Clients, WalkSends(c) PROVE FewConnected'
  <2>1. (UNCHANGED managerVars \/ disconnect(c)) /\ walk'.size = walk.size BY <1>9 DEF WalkSends, SocketTypeInv
  <2>2. Connected' \subseteq Connected BY <2>1, ConnectedMoves
  <2> QED BY <1>1, <1>2, <2>1, <2>2
<1>10. CASE WalkResumes
  <2>1. walk'.size = walk.size BY <1>10 DEF WalkResumes, SocketTypeInv
  <2>2. UNCHANGED managerVars \/ disconnect(ClientOf[walk.target]) BY <1>10 DEF WalkResumes
  <2>3. Connected' \subseteq Connected
    BY <2>2, ConnectedMoves DEF disconnect, Connected, SocketTypeInv
  <2> QED BY <1>1, <1>2, <2>1, <2>3
<1>11. CASE BroadcastEnds
  <2>1. UNCHANGED managerVars /\ walk'.size = 0 BY <1>11 DEF BroadcastEnds, NoWalk
  <2> QED BY <1>1, <2>1, ConnectedMoves
<1>12. CASE CloseEnds
  <2>1. active_connections' = [c \in Clients |-> NoSocket] /\ walk'.size = 0 BY <1>12 DEF CloseEnds, NoWalk
  <2>2. Connected' = {} BY <2>1 DEF Connected
  <2> QED BY <1>1, <2>1, <2>2
<1> QED BY <1>3, <1>4, <1>5, <1>6, <1>7, <1>8, <1>9, <1>10, <1>11, <1>12 DEF SocketNext

\* The rest of the MCP manager's types: what is lost from sight, shutdown and the overlaps.
ManagerTypes ==
    /\ adrift \subseteq 1 .. launches /\ overlapped \subseteq Servers
    /\ gateway \in {"up", "stopping", "stopped", "failed"}

\* A behaviour of the run is one of each part.
LEMMA SpecOfParts ==
    Spec => SocketSpec /\ HeartbeatSpec /\ PipeSpec /\ McpSpec /\ AccountsSpec /\ SessionsSpec
<1>1. Init => SocketInit /\ HeartbeatInit /\ PipeInit /\ McpInit /\ AccountsInit /\ SessionsInit BY DEF Init
<1>2. [Next]_<<socketVars, heartbeatVars, pipeVars, mcpVars, authVars, sessionsVars, focus>> =>
         /\ [SocketNext]_socketVars /\ [HeartbeatNext]_heartbeatVars /\ [PipeNext]_pipeVars
         /\ [McpNext]_mcpVars /\ [AccountsNext]_authVars /\ [SessionsNext]_sessionsVars
  BY DEF Next
<1> QED BY <1>1, <1>2, PTL
        DEF Spec, SocketSpec, HeartbeatSpec, PipeSpec, McpSpec, AccountsSpec, SessionsSpec

\* Every step of the manager keeps the rest of its types.
LEMMA ManagerTypesStep == ServersInv /\ ManagerTypes /\ [McpNext]_mcpVars => ManagerTypes'
<1> SUFFICES ASSUME ServersInv, ManagerTypes, [McpNext]_mcpVars PROVE ManagerTypes' OBVIOUS
<1>0. launches \in Nat /\ clients \in [ClientKeys -> 0 .. launches] /\ Servers \subseteq ClientKeys
      /\ \A x \in Servers : NameOf[x] \in ClientKeys
  BY ServerAssumption DEF ServersInv, ServerTypeInv, ServerAssumption, ClientKeys
<1>1. /\ \A c \in ServerCalls : scall[c].client \in 0 .. launches /\ (~CallEnded(c) => scall[c].server \in Servers)
      /\ \A x \in Servers : boot[x].client \in 0 .. launches
  BY DEF ServersInv, Holders
<1>2. ASSUME launches' = launches \/ launches' = launches + 1, overlapped' \subseteq Servers,
             gateway' \in {"up", "stopping", "stopped", "failed"},
             NEW n \in 0 .. launches, adrift' \subseteq adrift \cup ({n} \ {0})
      PROVE  ManagerTypes'
  <2>1. adrift \cup ({n} \ {0}) \subseteq 1 .. launches BY <1>0 DEF ManagerTypes
  <2>2. 1 .. launches \subseteq 1 .. launches' BY <1>0, <1>2
  <2> QED BY <1>2, <2>1, <2>2 DEF ManagerTypes
<1>3. overlapped \subseteq Servers /\ gateway \in {"up", "stopping", "stopped", "failed"} /\ 0 \in 0 .. launches
  BY <1>0 DEF ManagerTypes
<1>4. CASE UNCHANGED mcpVars BY <1>2, <1>3, <1>4 DEF mcpVars
<1>5. ASSUME NEW c \in ServerCalls, NEW x \in Servers,
             CreateServer(c, x) \/ UpdateServer(c, x) \/ ConnectServer(c, x) \/ DisconnectServer(c, x) \/ DeleteServer(c, x)
      PROVE  ManagerTypes'
  <2>1. UNCHANGED <<launches, adrift, gateway>> /\ overlapped' \subseteq overlapped \cup {x}
    BY <1>5 DEF CreateServer, UpdateServer, ConnectServer, DisconnectServer, DeleteServer, BeginRequest, managerView
  <2> QED BY <1>2, <1>3, <2>1
<1>6. ASSUME NEW c \in ServerCalls, StopEnds(c) PROVE ManagerTypes'
  <2>1. scall[c].server \in Servers BY <1>1, <1>6 DEF StopEnds, CallEnded
  <2>2. PICK n : n = clients[scall[c].server] OBVIOUS
  <2>3. n \in 0 .. launches BY <1>0, <2>1, <2>2
  <2>4. UNCHANGED <<launches, gateway, overlapped>> /\ adrift' \subseteq adrift \cup ({n} \ {0})
    BY <1>6, <2>2 DEF StopEnds
  <2> QED BY <1>2, <1>3, <2>3, <2>4
<1>7. ASSUME NEW c \in ServerCalls, ConnectStarts(c) \/ Save(c) PROVE ManagerTypes'
  <2>1. (launches' = launches \/ launches' = launches + 1) /\ UNCHANGED <<adrift, gateway, overlapped>>
    BY <1>7 DEF ConnectStarts, LaunchClient, Save, managerView
  <2> QED BY <1>2, <1>3, <2>1
<1>8. ASSUME NEW c \in ServerCalls, ConnectEnds(c) PROVE ManagerTypes'
  <2>1. scall[c].server \in Servers BY <1>1, <1>8 DEF ConnectEnds, CallEnded
  <2>2. PICK n : n = clients[scall[c].server] OBVIOUS
  <2>3. n \in 0 .. launches BY <1>0, <2>1, <2>2
  <2>4. UNCHANGED <<launches, gateway, overlapped>> /\ adrift' \subseteq adrift \cup ({n} \ {0})
    BY <1>8, <2>2 DEF ConnectEnds, Register
  <2> QED BY <1>2, <1>3, <2>3, <2>4
<1>9. ASSUME NEW c \in ServerCalls, ConnectFails(c) PROVE ManagerTypes'
  <2>1. PICK n : n = scall[c].client OBVIOUS
  <2>2. n \in 0 .. launches BY <1>1, <2>1
  <2>3. UNCHANGED <<launches, gateway, overlapped>> /\ adrift' \subseteq adrift \cup ({n} \ {0})
    BY <1>9, <2>1 DEF ConnectFails
  <2> QED BY <1>2, <1>3, <2>2, <2>3
<1>10. ASSUME NEW x \in Servers, BootConnects(x) PROVE ManagerTypes'
  <2>1. launches' = launches + 1 /\ UNCHANGED <<adrift, gateway, overlapped>> BY <1>10 DEF BootConnects, LaunchClient
  <2> QED BY <1>2, <1>3, <2>1
<1>11. ASSUME NEW x \in Servers, BootRegisters(x) PROVE ManagerTypes'
  <2>1. PICK n : n = clients[NameOf[x]] OBVIOUS
  <2>2. n \in 0 .. launches BY <1>0, <2>1
  <2>3. UNCHANGED <<launches, gateway, overlapped>> /\ adrift' \subseteq adrift \cup ({n} \ {0})
    BY <1>11, <2>1 DEF BootRegisters, Register
  <2> QED BY <1>2, <1>3, <2>2, <2>3
<1>12. ASSUME NEW x \in Servers, BootFails(x) PROVE ManagerTypes'
  <2>1. PICK n : n = boot[x].client OBVIOUS
  <2>2. n \in 0 .. launches BY <1>1, <2>1
  <2>3. UNCHANGED <<launches, gateway, overlapped>> /\ adrift' \subseteq adrift \cup ({n} \ {0})
    BY <1>12, <2>1 DEF BootFails
  <2> QED BY <1>2, <1>3, <2>2, <2>3
<1>13. ASSUME NEW x \in Servers, NEW status, ResourceSaves(x, status) PROVE ManagerTypes'
  <2>1. UNCHANGED <<launches, adrift, gateway, overlapped>> BY <1>13 DEF ResourceSaves, managerView
  <2> QED BY <1>2, <1>3, <2>1
<1>14. ASSUME ShutdownBegins \/ ShutdownClears \/ ShutdownRaises \/ \E k \in ClientKeys : ShutdownStops(k)
       PROVE  ManagerTypes'
  <2>1. UNCHANGED <<launches, adrift, overlapped>> /\ gateway' \in {"up", "stopping", "stopped", "failed"}
    BY <1>3, <1>14 DEF ShutdownBegins, ShutdownClears, ShutdownRaises, ShutdownStops, managerView
  <2> QED BY <1>2, <1>3, <2>1
<1> QED BY <1>4, <1>5, <1>6, <1>7, <1>8, <1>9, <1>10, <1>11, <1>12, <1>13, <1>14 DEF McpNext

\* What the invariants of the manager say of the types of its variables.
LEMMA ManagerTyped == ServersInv /\ ManagerTypes => McpTypeOK
BY DEF ServersInv, ServerTypeInv, Holders, ManagerTypes, CallTypes, McpTypeOK

\* The variables of every part keep their types (websocket/manager.py, heartbeat.py, mcp/client.py,
\* api/v1/mcp_servers.py, api/v1/auth.py, session_manager.py).
THEOREM ConnectionsTyped == Spec => []TypesOK
<1>1. Spec => []SocketsInv /\ []FewConnected
  <2>1. SocketInit => FewConnected
    <3>1. ASSUME SocketInit PROVE FewConnected
      <4>1. Connected = {} /\ walk.size = 0 BY <3>1 DEF SocketInit, Connected, NoWalk
      <4> QED BY <4>1, FS_EmptySet DEF FewConnected
    <3> QED BY <3>1
  <2>2. SocketsInv => SocketTypeInv BY DEF SocketsInv
  <2> QED BY <2>1, <2>2, SpecOfParts, SocketsInvariant, FewConnectedStep, PTL DEF SocketSpec
<1>2. Spec => []HeartbeatInv BY SpecOfParts, HeartbeatStart, HeartbeatKept, PTL DEF HeartbeatSpec
<1>3. Spec => []PipeInv BY SpecOfParts, PipeInvariant, PTL
<1>4. Spec => []ServersInv /\ []ManagerTypes
  <2>1. McpInit => ManagerTypes BY DEF McpInit, ManagerTypes
  <2> QED BY <2>1, SpecOfParts, ServersInvariant, ManagerTypesStep, PTL DEF McpSpec
<1>5. Spec => []AccountsInv BY SpecOfParts, AccountsInvariant, PTL
<1>6. Spec => []GoneInv BY SpecOfParts, GoneInvariant, PTL
<1> DEFINE Focus == focus \in {"chats", "streams", "heartbeat", "pipe", "servers", "accounts", "keys", "sessions"}
<1>7. Spec => []Focus
  <2>1. Init => Focus BY DEF Init
  <2>2. Focus /\ [Next]_<<socketVars, heartbeatVars, pipeVars, mcpVars, authVars, sessionsVars, focus>> => Focus'
    BY DEF Next
  <2> QED BY <2>1, <2>2, PTL DEF Spec
<1>8. SocketsInv /\ FewConnected => SocketTypeOK
  BY DEF SocketsInv, SocketTypeInv, FewConnected, SocketTypeOK
<1>9. /\ HeartbeatInv => HeartbeatTypeOK
      /\ PipeInv => PipeTypeOK
      /\ AccountsInv => AccountsTypeOK
      /\ GoneInv => SessionsTypeOK
  BY DEF HeartbeatInv, PipeInv, AccountsInv, AuthTypeInv, GoneInv
<1>10. /\ SocketTypeOK /\ HeartbeatTypeOK /\ PipeTypeOK /\ McpTypeOK /\ AccountsTypeOK /\ SessionsTypeOK
       /\ Focus
       => TypesOK
  BY DEF TypesOK
<1> QED BY <1>1, <1>2, <1>3, <1>4, <1>5, <1>6, <1>7, <1>8, <1>9, <1>10, ManagerTyped, PTL
=============================================================================
