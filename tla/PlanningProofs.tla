--------------------------- MODULE PlanningProofs ---------------------------
(***************************************************************************)
(* Chats, plans and the mail of agents, for any prompts, plans and         *)
(* messages: what LLMClient.chat answers and when it asks again; the busy  *)
(* flag of the orchestrator, and the order in which it carries out every   *)
(* plan; and the queues of the message hub.                                *)
(***************************************************************************)
EXTENDS MCPlanning, RuntimeProofs

(* LLMClient                                                               *)

ChatRecord ==
    [stage : ChatStages, req : Requests, tools : BOOLEAN, attempt : Nat, error : Errors \cup {NoError},
     wait : Nat, advised : BOOLEAN, answer : Answer \cup {NoAnswer}, due : Nat]
Rows == [answer : Answer \cup {NoAnswer}, expires : Nat]

ChatTypeInv ==
    /\ answers \in [Keys -> Rows]
    /\ chat \in [Chats -> ChatRecord]
    /\ chatNow \in Nat

\* A row was stored for its key by a call without tools, with its time to live.
RowFits(k) ==
    answers[k] # NoRow =>
      /\ ~answers[k].answer.tools
      /\ KeyOf[answers[k].answer.req] = k
      /\ answers[k].expires = answers[k].answer.born + AnswerTTL

\* What a call holds where it stands.
CallFits(r) ==
    /\ r.stage \in {"lookup", "purge"} => ~r.tools /\ r.attempt = 0
    /\ r.stage = "storing" =>
         /\ ~r.tools /\ ~r.answer.tools /\ r.answer.req = r.req
         /\ r.due = r.answer.born + AnswerTTL
    /\ r.stage = "waiting" =>
         /\ r.attempt < MaxRetries
         /\ r.wait <= MaxDelay \/ r.advised

ChatInv ==
    /\ ChatTypeInv
    /\ \A k \in Keys : RowFits(k)
    /\ \A c \in Chats : CallFits(chat[c])

\* What a step may do with the record of the call it is of.
AnswerFits(r, s) ==
    r.stage = "lookup" /\ s.stage = "answered" =>
      /\ ~r.tools /\ ~s.answer.tools
      /\ KeyOf[s.answer.req] = KeyOf[r.req]
      /\ chatNow < s.answer.born + AnswerTTL
AskedAgain(r, s) ==
    r.stage # "calling" /\ s.stage = "calling" =>
      \/ r.stage \in {"idle", "lookup", "purge"} /\ s.attempt = 0
      \/ /\ s.attempt = r.attempt + 1 /\ s.attempt <= MaxRetries
         /\ r.wait <= MaxDelay \/ r.advised

\* A step of one call leaves the others: what it does with this call's record is enough.
LEMMA OneCallMoves ==
    ASSUME ChatInv, NEW c \in Chats, NEW s \in ChatRecord, chat' = [chat EXCEPT ![c] = s],
           CallFits(s), AnswerFits(chat[c], s), AskedAgain(chat[c], s), UNCHANGED chatNow,
           answers' \in [Keys -> Rows], \A k \in Keys : RowFits(k)'
    PROVE  /\ ChatInv'
           /\ \A d \in Chats : AnswerFits(chat[d], chat'[d]) /\ AskedAgain(chat[d], chat'[d])
<1>1. chat' \in [Chats -> ChatRecord] /\ chat'[c] = s /\ \A d \in Chats \ {c} : chat'[d] = chat[d]
  BY DEF ChatInv, ChatTypeInv
<1>2. ChatTypeInv'
  BY <1>1 DEF ChatInv, ChatTypeInv
<1>3. ASSUME NEW d \in Chats PROVE CallFits(chat'[d])
  BY <1>1 DEF ChatInv
<1>4. ASSUME NEW d \in Chats PROVE AnswerFits(chat[d], chat'[d]) /\ AskedAgain(chat[d], chat'[d])
  <2>1. CASE d = c
    BY <1>1, <2>1
  <2>2. CASE d # c
    BY <1>1, <2>2 DEF AnswerFits, AskedAgain
  <2> QED BY <2>1, <2>2
<1>5. ChatInv'
  BY <1>2, <1>3 DEF ChatInv
<1> QED BY <1>4, <1>5

\* The wait before a retry is within the cap unless the provider asked for it.
LEMMA WaitCapped ==
    ASSUME LLMAssumption, PowersOfTwo, NEW after \in RetryAfter, NEW n \in Nat, n < MaxRetries
    PROVE  /\ get_wait_time(after, n) \in Nat
           /\ get_wait_time(after, n) <= MaxDelay \/ after # 0
<1>1. n \in 0 .. MaxRetries /\ MaxRetries \in Nat /\ BaseDelay \in Nat /\ MaxDelay \in Nat /\ after \in Nat
  BY DEF LLMAssumption, RetryAfter
<1>2. PICK p \in Nat : 2 ^ n = p
  BY <1>1 DEF PowersOfTwo
<1>3. calculate_backoff(n) \in 0 .. MaxDelay
  BY <1>1, <1>2 DEF calculate_backoff
<1> QED BY <1>1, <1>3 DEF get_wait_time

LEMMA ChatBeginsKeeps ==
    ASSUME ChatInv, LLMAssumption, NEW c \in Chats, NEW r \in Requests, NEW tools \in BOOLEAN, ChatBegins(c, r, tools)
    PROVE  /\ ChatInv'
           /\ \A d \in Chats : AnswerFits(chat[d], chat'[d]) /\ AskedAgain(chat[d], chat'[d])
<1>1. PICK s : /\ s = [Idle(r) EXCEPT !.stage = IF tools THEN "calling" ELSE "lookup", !.tools = tools]
               /\ chat' = [chat EXCEPT ![c] = s] /\ UNCHANGED <<answers, chatNow>> /\ chat[c].stage = "idle"
  BY DEF ChatBegins
<1>2. /\ s \in ChatRecord /\ s.attempt = 0 /\ s.tools = tools
      /\ s.stage = IF tools THEN "calling" ELSE "lookup"
  <2>1. Idle(r) \in ChatRecord /\ Idle(r).attempt = 0
    BY DEF Idle, ChatRecord, ChatStages, NoAnswer, NoError
  <2>2. CASE tools
    BY <1>1, <2>1, <2>2 DEF ChatRecord, ChatStages
  <2>3. CASE ~tools
    BY <1>1, <2>1, <2>3 DEF ChatRecord, ChatStages
  <2> QED BY <2>2, <2>3
<1>3. CallFits(s) /\ AnswerFits(chat[c], s) /\ AskedAgain(chat[c], s)
  BY <1>1, <1>2 DEF CallFits, AnswerFits, AskedAgain
<1>4. answers' \in [Keys -> Rows] /\ \A k \in Keys : RowFits(k)'
  BY <1>1 DEF ChatInv, ChatTypeInv, RowFits
<1> QED BY <1>1, <1>2, <1>3, <1>4, OneCallMoves

LEMMA ChatStepKeeps ==
    ASSUME ChatInv, LLMAssumption, PowersOfTwo, NEW c \in Chats, ChatStep(c)
    PROVE  /\ ChatInv'
           /\ \A d \in Chats : AnswerFits(chat[d], chat'[d]) /\ AskedAgain(chat[d], chat'[d])
<1> DEFINE r == chat[c]
           key == KeyOf[r.req]
           row == answers[key]
<1>0. /\ r \in ChatRecord /\ CallFits(r) /\ key \in Keys /\ row \in Rows /\ RowFits(key)
      /\ chatNow \in Nat /\ AnswerTTL \in Nat /\ MaxRetries \in Nat
      /\ answers \in [Keys -> Rows] /\ chat \in [Chats -> ChatRecord] /\ \A k \in Keys : RowFits(k)
  BY DEF ChatInv, ChatTypeInv, ChatRecord, LLMAssumption
<1>1. ASSUME UNCHANGED answers PROVE answers' \in [Keys -> Rows] /\ \A k \in Keys : RowFits(k)'
  BY <1>0, <1>1 DEF RowFits
<1>2. CASE CacheHits(c)
  <2>1. r.stage = "lookup" /\ row # NoRow /\ row.expires > chatNow /\ UNCHANGED <<answers, chatNow>>
    BY <1>2 DEF CacheHits
  <2>2. PICK s \in ChatRecord : /\ s = [r EXCEPT !.stage = "answered", !.answer = row.answer]
                                /\ chat' = [chat EXCEPT ![c] = s]
    <3>1. [r EXCEPT !.stage = "answered", !.answer = row.answer] \in ChatRecord
      BY <1>0 DEF ChatRecord, ChatStages, Rows
    <3> QED BY <1>0, <1>2, <3>1 DEF CacheHits
  <2>3. s.stage = "answered" /\ s.answer = row.answer
    BY <1>0, <2>2 DEF ChatRecord
  <2>4. /\ ~r.tools /\ ~row.answer.tools /\ KeyOf[row.answer.req] = key
        /\ chatNow < row.answer.born + AnswerTTL
    BY <1>0, <2>1 DEF CallFits, RowFits
  <2>5. CallFits(s) /\ AnswerFits(r, s) /\ AskedAgain(r, s)
    BY <2>1, <2>3, <2>4 DEF CallFits, AnswerFits, AskedAgain
  <2> QED BY <1>1, <2>1, <2>2, <2>5, OneCallMoves
<1>3. CASE CacheMisses(c)
  <2>1. r.stage = "lookup" /\ UNCHANGED <<answers, chatNow>>
    BY <1>3 DEF CacheMisses
  <2>2. PICK next \in {"calling", "purge"} : chat' = [chat EXCEPT ![c].stage = next]
    BY <1>3 DEF CacheMisses
  <2>3. PICK s \in ChatRecord : s = [r EXCEPT !.stage = next] /\ chat' = [chat EXCEPT ![c] = s]
    BY <1>0, <2>2 DEF ChatRecord, ChatStages
  <2>4. s.stage = next /\ s.tools = r.tools /\ s.attempt = r.attempt
    BY <1>0, <2>3 DEF ChatRecord
  <2>5. CallFits(s) /\ AnswerFits(r, s) /\ AskedAgain(r, s)
    BY <1>0, <2>1, <2>4 DEF CallFits, AnswerFits, AskedAgain
  <2> QED BY <1>1, <2>1, <2>3, <2>5, OneCallMoves
<1>4. CASE CachePurges(c)
  <2>1. r.stage = "purge" /\ answers' = [answers EXCEPT ![key] = NoRow] /\ UNCHANGED chatNow
    BY <1>4 DEF CachePurges
  <2>2. PICK s \in ChatRecord : s = [r EXCEPT !.stage = "calling"] /\ chat' = [chat EXCEPT ![c] = s]
    BY <1>0, <1>4 DEF CachePurges, ChatRecord, ChatStages
  <2>3. s.stage = "calling" /\ s.attempt = r.attempt
    BY <1>0, <2>2 DEF ChatRecord
  <2>4. CallFits(s) /\ AnswerFits(r, s) /\ AskedAgain(r, s)
    BY <1>0, <2>1, <2>3 DEF CallFits, AnswerFits, AskedAgain
  <2>5. answers' \in [Keys -> Rows] /\ \A k \in Keys : RowFits(k)'
    <3>1. NoRow \in Rows
      BY DEF NoRow, Rows
    <3> QED BY <1>0, <2>1, <3>1 DEF RowFits
  <2> QED BY <2>1, <2>2, <2>4, <2>5, OneCallMoves
<1>5. CASE CacheStores(c)
  <2>1. r.stage = "storing" /\ UNCHANGED chatNow
    BY <1>5 DEF CacheStores
  <2>2. PICK s \in ChatRecord : s = [r EXCEPT !.stage = "answered"] /\ chat' = [chat EXCEPT ![c] = s]
    BY <1>0, <1>5 DEF CacheStores, ChatRecord, ChatStages
  <2>3. s.stage = "answered"
    BY <1>0, <2>2 DEF ChatRecord
  <2>4. CallFits(s) /\ AnswerFits(r, s) /\ AskedAgain(r, s)
    BY <2>1, <2>3 DEF CallFits, AnswerFits, AskedAgain
  <2>5. answers' \in [Keys -> Rows] /\ \A k \in Keys : RowFits(k)'
    <3>1. PICK new \in Rows : /\ new.answer = r.answer /\ new.expires = r.due
                              /\ answers' = answers \/ answers' = [answers EXCEPT ![key] = new]
      <4>1. [answer |-> r.answer, expires |-> r.due] \in Rows
        BY <1>0 DEF ChatRecord, Rows
      <4> QED BY <1>5, <4>1 DEF CacheStores
    <3>2. CASE answers' = answers
      BY <1>1, <3>2
    <3>3. CASE answers' = [answers EXCEPT ![key] = new]
      <4>1. ~new.answer.tools /\ KeyOf[new.answer.req] = key /\ new.expires = new.answer.born + AnswerTTL
        BY <1>0, <2>1, <3>1 DEF CallFits
      <4>2. answers' \in [Keys -> Rows] /\ answers'[key] = new /\ \A k \in Keys \ {key} : answers'[k] = answers[k]
        BY <1>0, <3>3
      <4>3. ASSUME NEW k \in Keys PROVE RowFits(k)'
        BY <1>0, <4>1, <4>2 DEF RowFits
      <4> QED BY <4>2, <4>3
    <3> QED BY <3>1, <3>2, <3>3
  <2> QED BY <2>1, <2>2, <2>4, <2>5, OneCallMoves
<1>6. CASE ProviderAnswers(c)
  <2> DEFINE a == [req |-> r.req, tools |-> r.tools, born |-> chatNow]
             next == IF r.tools THEN "answered" ELSE "storing"
  <2>1. r.stage = "calling" /\ UNCHANGED <<answers, chatNow>>
    BY <1>6 DEF ProviderAnswers
  <2>2. /\ a \in Answer /\ a.tools = r.tools /\ a.req = r.req /\ a.born = chatNow
        /\ next \in ChatStages /\ (next = "storing" => ~r.tools) /\ next # "calling" /\ next \in {"answered", "storing"}
    BY <1>0 DEF Answer, ChatRecord, ChatStages
  <2>7. PICK due \in Nat : due = chatNow + AnswerTTL
    BY <1>0
  <2>3. chat' = [chat EXCEPT ![c] = [r EXCEPT !.stage = next, !.answer = a, !.due = due]]
    BY <1>0, <1>6, <2>7 DEF ProviderAnswers
  <2> HIDE DEF a, next
  <2>4. PICK s \in ChatRecord : /\ s = [r EXCEPT !.stage = next, !.answer = a, !.due = due]
                                /\ chat' = [chat EXCEPT ![c] = s]
    <3>1. [r EXCEPT !.stage = next, !.answer = a, !.due = due] \in ChatRecord
      BY <1>0, <2>2 DEF ChatRecord
    <3> QED BY <2>3, <3>1
  <2>5. s.stage = next /\ s.tools = r.tools /\ s.req = r.req /\ s.answer = a /\ s.due = chatNow + AnswerTTL
    BY <1>0, <2>4, <2>7 DEF ChatRecord
  <2>6. CallFits(s) /\ AnswerFits(r, s) /\ AskedAgain(r, s)
    BY <2>1, <2>2, <2>5 DEF CallFits, AnswerFits, AskedAgain
  <2> QED BY <1>1, <2>1, <2>4, <2>6, OneCallMoves
<1>7. CASE ProviderFails(c)
  <2>1. r.stage = "calling" /\ UNCHANGED <<answers, chatNow>>
    BY <1>7 DEF ProviderFails
  <2>2. PICK e \in Errors, after \in RetryAfter :
           IF ~is_retryable_error(e) \/ r.attempt >= MaxRetries
           THEN chat' = [chat EXCEPT ![c].stage = "raised", ![c].error = e]
           ELSE chat' = [chat EXCEPT ![c].stage = "waiting", ![c].error = e,
                           ![c].wait = get_wait_time(after, r.attempt), ![c].advised = after # 0]
    BY <1>7 DEF ProviderFails
  <2>3. CASE ~is_retryable_error(e) \/ r.attempt >= MaxRetries
    <3>1. PICK s \in ChatRecord : s = [r EXCEPT !.stage = "raised", !.error = e] /\ chat' = [chat EXCEPT ![c] = s]
      <4>1. chat' = [chat EXCEPT ![c] = [r EXCEPT !.stage = "raised", !.error = e]]
        BY <1>0, <2>2, <2>3
      <4>2. [r EXCEPT !.stage = "raised", !.error = e] \in ChatRecord
        BY <1>0 DEF ChatRecord, ChatStages
      <4> QED BY <4>1, <4>2
    <3>2. s.stage = "raised"
      BY <1>0, <3>1 DEF ChatRecord
    <3>3. CallFits(s) /\ AnswerFits(r, s) /\ AskedAgain(r, s)
      BY <2>1, <3>2 DEF CallFits, AnswerFits, AskedAgain
    <3> QED BY <1>1, <2>1, <3>1, <3>3, OneCallMoves
  <2>4. CASE ~(~is_retryable_error(e) \/ r.attempt >= MaxRetries)
    <3>1. e \in {"transient", "client_rate"} /\ r.attempt < MaxRetries /\ r.attempt \in Nat
      BY <1>0, <2>4 DEF Errors, is_retryable_error, ChatRecord
    <3>2. PICK w \in Nat, adv \in BOOLEAN :
             w = get_wait_time(after, r.attempt) /\ adv = (after # 0) /\ (w <= MaxDelay \/ adv)
      BY <3>1, WaitCapped
    <3>3. PICK s \in ChatRecord : /\ s = [r EXCEPT !.stage = "waiting", !.error = e, !.wait = w, !.advised = adv]
                                  /\ chat' = [chat EXCEPT ![c] = s]
      <4>1. chat' = [chat EXCEPT ![c] = [r EXCEPT !.stage = "waiting", !.error = e, !.wait = w, !.advised = adv]]
        BY <1>0, <2>2, <2>4, <3>2
      <4>2. [r EXCEPT !.stage = "waiting", !.error = e, !.wait = w, !.advised = adv] \in ChatRecord
        BY <1>0, <3>2 DEF ChatRecord, ChatStages
      <4> QED BY <4>1, <4>2
    <3>4. s.stage = "waiting" /\ s.error = e /\ s.attempt = r.attempt /\ s.wait = w /\ s.advised = adv
      BY <1>0, <3>3 DEF ChatRecord
    <3>5. CallFits(s) /\ AnswerFits(r, s) /\ AskedAgain(r, s)
      BY <2>1, <3>1, <3>2, <3>4 DEF CallFits, AnswerFits, AskedAgain
    <3> QED BY <1>1, <2>1, <3>3, <3>5, OneCallMoves
  <2> QED BY <2>3, <2>4
<1>8. CASE RetryBegins(c)
  <2>1. r.stage = "waiting" /\ UNCHANGED <<answers, chatNow>>
    BY <1>8 DEF RetryBegins
  <2>2. PICK n \in Nat : n = r.attempt + 1
    BY <1>0 DEF ChatRecord
  <2>3. PICK s \in ChatRecord : s = [r EXCEPT !.stage = "calling", !.attempt = n] /\ chat' = [chat EXCEPT ![c] = s]
    <3>1. [r EXCEPT !.stage = "calling", !.attempt = n] \in ChatRecord
      BY <1>0 DEF ChatRecord, ChatStages
    <3> QED BY <1>0, <1>8, <2>2, <3>1 DEF RetryBegins
  <2>4. s.stage = "calling" /\ s.attempt = n
    BY <1>0, <2>3 DEF ChatRecord
  <2>5. r.attempt < MaxRetries /\ r.attempt \in Nat
    BY <1>0, <2>1 DEF CallFits, ChatRecord
  <2>6. CallFits(s) /\ AnswerFits(r, s) /\ AskedAgain(r, s)
    BY <1>0, <2>1, <2>2, <2>4, <2>5 DEF CallFits, AnswerFits, AskedAgain
  <2> QED BY <1>1, <2>1, <2>3, <2>6, OneCallMoves
<1> QED BY <1>2, <1>3, <1>4, <1>5, <1>6, <1>7, <1>8 DEF ChatStep

\* At the start nobody has called.
LEMMA ChatStart == LLMInit => ChatInv
<1>0. LLMAssumption /\ PowersOfTwo
  BY LLMAssumption, PowersOfTwo
<1> SUFFICES ASSUME LLMInit PROVE ChatInv
  OBVIOUS
<1>1. PICK r \in Requests : chat = [c \in Chats |-> Idle(r)]
  BY <1>0 DEF LLMInit, LLMAssumption
<1>2. Idle(r) \in ChatRecord /\ Idle(r).stage = "idle"
  BY DEF Idle, ChatRecord, ChatStages, NoAnswer, NoError
<1>3. \A c \in Chats : chat[c] = Idle(r)
  BY <1>1
<1>4. NoRow \in Rows /\ answers = [k \in Keys |-> NoRow] /\ chatNow = 0
  BY DEF LLMInit, NoRow, Rows
<1>5. ChatTypeInv
  BY <1>1, <1>2, <1>4 DEF ChatTypeInv
<1> QED BY <1>2, <1>3, <1>4, <1>5 DEF ChatInv, RowFits, CallFits

\* Every step keeps the invariant, and does with a call only what a call may do.
LEMMA ChatMoves ==
    ChatInv /\ [LLMNext]_llmVars =>
        /\ ChatInv'
        /\ [\A c \in Chats : AnswerFits(chat[c], chat'[c]) /\ AskedAgain(chat[c], chat'[c])]_llmVars
<1>0. LLMAssumption /\ PowersOfTwo
  BY LLMAssumption, PowersOfTwo
<1> SUFFICES ASSUME ChatInv, [LLMNext]_llmVars
             PROVE  /\ ChatInv'
                    /\ [\A c \in Chats : AnswerFits(chat[c], chat'[c]) /\ AskedAgain(chat[c], chat'[c])]_llmVars
  OBVIOUS
<1>1. CASE UNCHANGED llmVars
  BY <1>1 DEF llmVars, ChatInv, ChatTypeInv, RowFits
<1>2. CASE ChatTick
  <2>1. UNCHANGED <<answers, chat>> /\ chatNow' \in Nat
    BY <1>2 DEF ChatTick, ChatInv, ChatTypeInv
  <2>2. ChatInv'
    BY <2>1 DEF ChatInv, ChatTypeInv, RowFits
  <2>3. \A c \in Chats : AnswerFits(chat[c], chat'[c]) /\ AskedAgain(chat[c], chat'[c])
    BY <2>1 DEF AnswerFits, AskedAgain
  <2> QED BY <2>2, <2>3
<1> QED BY <1>0, <1>1, <1>2, ChatBeginsKeeps, ChatStepKeeps DEF LLMNext

\* Every answer of chat is fresh and fits its request, and the provider is asked again no
\* oftener and no later than the settings say (client.py:131 to 147 and 219 to 253, retry.py:128 to
\* 149).  For this the rows of the cache fit their keys, whoever stored, replaced or deleted them, and
\* a call that sleeps has an attempt left.
THEOREM ChatCorrect == LLMSpec => ChatDiscipline
<1>1. [\A c \in Chats : AnswerFits(chat[c], chat'[c]) /\ AskedAgain(chat[c], chat'[c])]_llmVars =>
        /\ [\A c \in Chats :
              LET a == chat'[c].answer IN
              chat[c].stage = "lookup" /\ chat'[c].stage = "answered" =>
                /\ ~chat[c].tools /\ ~a.tools
                /\ KeyOf[a.req] = KeyOf[chat[c].req]
                /\ chatNow < a.born + AnswerTTL]_llmVars
        /\ [\A c \in Chats :
              chat[c].stage # "calling" /\ chat'[c].stage = "calling" =>
                \/ chat[c].stage \in {"idle", "lookup", "purge"} /\ chat'[c].attempt = 0
                \/ /\ chat'[c].attempt = chat[c].attempt + 1 /\ chat'[c].attempt <= MaxRetries
                   /\ chat[c].wait <= MaxDelay \/ chat[c].advised]_llmVars
  BY DEF AnswerFits, AskedAgain
<1> QED BY <1>1, ChatStart, ChatMoves, PTL DEF LLMSpec, ChatDiscipline, CachedAnswersFit, RetryDiscipline

-----------------------------------------------------------------------------
(* Collaboration                                                           *)

FlagInv ==
    /\ progress \in [Routings -> RoutingStages]
    /\ FlagDownAtRest

\* The orchestrator's busy flag is up only while a call is under way, although every call that ends
\* lowers it for all (orchestrator.py, the finally clause of execute_with_routing).
THEOREM FlagCorrect == CollabSpec => []FlagDownAtRest
<1>1. CollabInit => FlagInv
  BY DEF CollabInit, FlagInv, FlagDownAtRest, RoutingStages
<1>2. FlagInv /\ [CollabNext]_collabVars => FlagInv'
  <2> SUFFICES ASSUME FlagInv, [CollabNext]_collabVars PROVE FlagInv'
    OBVIOUS
  <2>1. CASE UNCHANGED collabVars \/ InitializeRouting
    <3>1. UNCHANGED <<progress, isExecuting>>
      BY <2>1 DEF collabVars, InitializeRouting
    <3> QED BY <3>1 DEF FlagInv, FlagDownAtRest, Underway
  <2>2. ASSUME NEW c \in Routings, Works(c) PROVE FlagInv'
    \* A call moves on: it lowers the flag, or is still under way, or never raised it.
    <3>1. PICK next \in RoutingStages :
            /\ progress' = [progress EXCEPT ![c] = next]
            /\ \/ ~isExecuting'
               \/ next \notin {"idle", "answered", "failed"}
               \/ isExecuting' = isExecuting /\ ~Underway(c)
      <4>1. ASSUME NEW ts, Planned(c, ts)
            PROVE  progress' = [progress EXCEPT ![c] = "dispatch"]
        BY <4>1 DEF Planned
      <4>2. progress \in [Routings -> RoutingStages]
        BY DEF FlagInv
      <4>3. CASE RoutingBegins(c)
        BY <4>3 DEF RoutingBegins, RoutingStages, Underway
      <4>4. CASE RoutingRaises(c) \/ RoleMissing(c) \/ RoutingAnswers(c)
        BY <4>4 DEF RoutingRaises, RoleMissing, RoutingAnswers, Ends, RoutingStages
      <4>5. CASE Prepares(c)
        BY <4>2, <4>5 DEF Prepares, RoutingStages
      <4>6. CASE IntentRecognised(c)
        BY <4>1, <4>6 DEF IntentRecognised, RoutingStages
      <4>7. CASE Decomposed(c)
        BY <4>1, <4>7 DEF Decomposed, RoutingStages
      <4>8. CASE TaskRuns(c)
        <5>1. progress' = [progress EXCEPT ![c] = "dispatch"]
          BY <4>2, <4>8 DEF TaskRuns
        <5> QED BY <5>1 DEF RoutingStages
      <4> QED BY <2>2, <4>3, <4>4, <4>5, <4>6, <4>7, <4>8 DEF Works
    <3>2. progress' \in [Routings -> RoutingStages] /\ progress'[c] = next /\ \A d \in Routings \ {c} : progress'[d] = progress[d]
      BY <3>1 DEF FlagInv
    <3> QED BY <3>1, <3>2 DEF FlagInv, FlagDownAtRest, Underway
  <2> QED BY <2>1, <2>2 DEF CollabNext
<1> QED BY <1>1, <1>2, PTL DEF CollabSpec, FlagInv

-----------------------------------------------------------------------------
(* The order of a plan                                                     *)

\* A tie in the rank is decided by the position.
LEMMA BeforeCompares ==
    ASSUME NEW K, NEW rank, NEW i \in K, NEW j \in K
    PROVE  <<i, j>> \in Before(K, rank) <=> rank[i] > rank[j] \/ (rank[i] = rank[j] /\ i < j)
BY DEF Before

\* A stable sort lists each position once, the higher ranks first.
LEMMA SortedInOrder ==
    ASSUME NEW K \in SUBSET Nat, IsFiniteSet(K), NEW rank \in [K -> Int]
    PROVE  LET e == Sorted(K, rank)
               N == Cardinality(K)
           IN  /\ N \in Nat /\ e \in [1 .. N -> K]
               /\ \A i \in K : \E n \in 1 .. N : e[n] = i
               /\ \A m, n \in 1 .. N : e[m] = e[n] => m = n
               /\ \A m, n \in 1 .. N : m < n => rank[e[m]] >= rank[e[n]]
<1> DEFINE R == Before(K, rank)
           e == Sorted(K, rank)
           N == Cardinality(K)
<1>0. \A i, j \in K : <<i, j>> \in R <=> rank[i] > rank[j] \/ (rank[i] = rank[j] /\ i < j)
  BY BeforeCompares
<1>1. Orders(R, K)
  <2>2. \A i \in K : i \in Nat /\ rank[i] \in Int OBVIOUS
  <2> HIDE DEF R
  <2> QED BY <1>0, <2>2 DEF Orders
<1>2. e = Enumerated(R, K) BY DEF Sorted
<1> HIDE DEF R, e
<1>3. /\ N \in Nat /\ e \in [1 .. N -> K]
      /\ \A i \in K : \E n \in 1 .. N : e[n] = i
      /\ \A m, n \in 1 .. N : <<e[m], e[n]>> \in R <=> m < n
      /\ \A m, n \in 1 .. N : e[m] = e[n] => m = n
  BY <1>1, <1>2, EnumeratedInOrder
<1>4. ASSUME NEW m \in 1 .. N, NEW n \in 1 .. N, m < n PROVE rank[e[m]] >= rank[e[n]]
  <2>1. e[m] \in K /\ e[n] \in K BY <1>3
  <2>2. <<e[m], e[n]>> \in R BY <1>3, <1>4
  <2>3. PICK a \in K, b \in K : a = e[m] /\ b = e[n] BY <2>1
  <2>4. rank[a] > rank[b] \/ rank[a] = rank[b] BY <1>0, <2>2, <2>3
  <2>5. rank[a] \in Int /\ rank[b] \in Int OBVIOUS
  <2> QED BY <2>3, <2>4, <2>5
<1> QED BY <1>3, <1>4 DEF e

-----------------------------------------------------------------------------
\* Blocked(ts) is itself a blocked set, the largest, and looks only at what a task is.
LEMMA BlockedTogether ==
    ASSUME NEW ts, NEW i \in DOMAIN ts
    PROVE  /\ i \in Blocked(ts) => \E d \in ts[i].deps : \A j \in DOMAIN ts : ts[j].id = d => j \in Blocked(ts)
           /\ \A B \in SUBSET DOMAIN ts : BlockedSet(ts, B) /\ i \in B => i \in Blocked(ts)
           /\ IsBlocked(ts, ts[i]) <=> i \in Blocked(ts)
           /\ Blocked(ts) \subseteq DOMAIN ts
<1>1. ASSUME NEW B \in SUBSET DOMAIN ts, BlockedSet(ts, B) PROVE B \subseteq Blocked(ts)
  BY <1>1 DEF Blocked
<1>2. ASSUME NEW k \in Blocked(ts)
      PROVE  \E B \in SUBSET DOMAIN ts : BlockedSet(ts, B) /\ k \in B
  BY DEF Blocked
<1>3. i \in Blocked(ts) => \E d \in ts[i].deps : \A j \in DOMAIN ts : ts[j].id = d => j \in Blocked(ts)
  <2> SUFFICES ASSUME i \in Blocked(ts)
               PROVE  \E d \in ts[i].deps : \A j \in DOMAIN ts : ts[j].id = d => j \in Blocked(ts)
    OBVIOUS
  <2>1. PICK B \in SUBSET DOMAIN ts : BlockedSet(ts, B) /\ i \in B BY <1>2
  <2>2. PICK d \in ts[i].deps : {j \in DOMAIN ts : ts[j].id = d} \subseteq B BY <2>1 DEF BlockedSet
  <2> QED BY <1>1, <2>1, <2>2
<1>4. ASSUME NEW k \in Blocked(ts), ts[k] = ts[i] PROVE i \in Blocked(ts)
  <2>1. PICK B \in SUBSET DOMAIN ts : BlockedSet(ts, B) /\ k \in B BY <1>2
  <2>2. BlockedSet(ts, B \cup {i})
    <3> SUFFICES ASSUME NEW x \in B \cup {i}
                 PROVE  \E d \in ts[x].deps : {j \in DOMAIN ts : ts[j].id = d} \subseteq B \cup {i}
      BY DEF BlockedSet
    <3>1. PICK y \in B : ts[y] = ts[x] BY <1>4, <2>1
    <3>2. PICK d \in ts[y].deps : {j \in DOMAIN ts : ts[j].id = d} \subseteq B BY <2>1 DEF BlockedSet
    <3> QED BY <3>1, <3>2
  <2>3. B \cup {i} \in SUBSET DOMAIN ts OBVIOUS
  <2> QED BY <1>1, <2>2, <2>3
<1>5. IsBlocked(ts, ts[i]) <=> i \in Blocked(ts) BY <1>4 DEF IsBlocked
<1>6. Blocked(ts) \subseteq DOMAIN ts BY <1>2
<1> QED BY <1>1, <1>3, <1>5, <1>6

\* The ids of the first n that are ordered.
IdsAt(ts, out, n) == {ts[out[m]].id : m \in 1 .. n}

\* What a wave leaves: each position is ordered once or left; a task comes after what it depends on, and those
\* that can never be ready come last.
WaveOK(ts, s) ==
    /\ s.out \in Seq(DOMAIN ts) /\ s.rest \in SUBSET DOMAIN ts
    /\ \A m, n \in DOMAIN s.out : s.out[m] = s.out[n] => m = n
    /\ \A i \in DOMAIN ts : i \in s.rest <=> \A n \in DOMAIN s.out : s.out[n] # i
    /\ \A n \in DOMAIN s.out : s.out[n] \in Blocked(ts) \/ ts[s.out[n]].deps \subseteq IdsAt(ts, s.out, n - 1)
    /\ \A m, n \in DOMAIN s.out : m < n =>
         /\ s.out[m] \in Blocked(ts) => s.out[n] \in Blocked(ts)
         /\ ts[s.out[m]].deps = ts[s.out[n]].deps /\ s.out[m] \notin Blocked(ts) =>
              ts[s.out[m]].prio >= ts[s.out[n]].prio
    /\ s.rest # {} => \A n \in DOMAIN s.out :
         /\ s.out[n] \notin Blocked(ts)
         /\ \A i \in s.rest : ts[i].deps # ts[s.out[n]].deps

\* Whoever is ready can be so; and when nobody is, nobody who is left ever will be.
LEMMA ReadyOrBlocked ==
    ASSUME NEW ts, NEW s, WaveOK(ts, s), s.rest # {}
    PROVE  /\ \A i \in Ready(ts, s) : i \notin Blocked(ts)
           /\ Ready(ts, s) = {} => s.rest \subseteq Blocked(ts)
<1>1. ASSUME NEW i \in Ready(ts, s) PROVE i \notin Blocked(ts)
  <2>1. i \in DOMAIN ts /\ ts[i].deps \subseteq {ts[s.out[n]].id : n \in DOMAIN s.out}
    BY DEF Ready, WaveOK
  <2>2. ASSUME NEW d \in ts[i].deps PROVE \E j \in DOMAIN ts : ts[j].id = d /\ j \notin Blocked(ts)
    <3>1. PICK n \in DOMAIN s.out : ts[s.out[n]].id = d BY <2>1
    <3>2. s.out[n] \in DOMAIN ts /\ s.out[n] \notin Blocked(ts) BY DEF WaveOK
    <3> QED BY <3>1, <3>2
  <2> QED BY <2>1, <2>2, BlockedTogether
<1>2. ASSUME Ready(ts, s) = {} PROVE BlockedSet(ts, s.rest)
  <2> SUFFICES ASSUME NEW i \in s.rest
               PROVE  \E d \in ts[i].deps : {j \in DOMAIN ts : ts[j].id = d} \subseteq s.rest
    BY DEF BlockedSet
  <2>1. PICK d \in ts[i].deps : d \notin {ts[s.out[n]].id : n \in DOMAIN s.out} BY <1>2 DEF Ready
  <2>2. ASSUME NEW j \in DOMAIN ts, ts[j].id = d PROVE j \in s.rest
    <3>1. \A n \in DOMAIN s.out : s.out[n] # j BY <2>1, <2>2
    <3> QED BY <3>1 DEF WaveOK
  <2> QED BY <2>2
<1>3. ASSUME Ready(ts, s) = {}, NEW i \in s.rest PROVE i \in Blocked(ts)
  <2>1. i \in DOMAIN ts /\ s.rest \in SUBSET DOMAIN ts BY DEF WaveOK
  <2> QED BY <1>2, <1>3, <2>1, BlockedTogether
<1> QED BY <1>1, <1>3

\* One wave more: the positions K, all that are ready or, when nobody is, all that are left.
LEMMA WaveGoesOn ==
    ASSUME NEW ts, IsTaskList(ts), NEW s, WaveOK(ts, s),
           NEW K \in SUBSET s.rest, NEW N \in Nat, NEW e \in [1 .. N -> K],
           \A i \in K : \E n \in 1 .. N : e[n] = i,
           \A m, n \in 1 .. N : e[m] = e[n] => m = n,
           \/ K = Ready(ts, s) /\ \A m, n \in 1 .. N : m < n => ts[e[m]].prio >= ts[e[n]].prio
           \/ K = s.rest /\ Ready(ts, s) = {}
    PROVE  WaveOK(ts, [out |-> s.out \o e, rest |-> s.rest \ K])
<1> DEFINE L == Len(s.out)
           out == s.out \o e
           D == DOMAIN ts
<1>1. s.out \in Seq(D) /\ K \in SUBSET D /\ L \in Nat /\ DOMAIN s.out = 1 .. L BY DEF WaveOK
<1>2. e \in Seq(D) /\ Len(e) = N BY <1>1
<1>3. out \in Seq(D) /\ DOMAIN out = 1 .. L + N /\ Len(out) = L + N BY <1>1, <1>2
<1>4. \A n \in 1 .. L : out[n] = s.out[n] BY <1>1, <1>2
<1>5. \A n \in 1 .. L + N : n > L => n - L \in 1 .. N /\ out[n] = e[n - L] /\ out[n] \in K BY <1>1, <1>2
<1>6. \A k \in 1 .. N : L + k \in 1 .. L + N /\ out[L + k] = e[k] BY <1>1, <1>2
<1> HIDE DEF L, out
<1>7. \A n \in 1 .. L : s.out[n] \in D /\ s.out[n] \notin s.rest BY <1>1 DEF WaveOK
<1>8. \A n \in 1 .. L : out[n] \in D \ s.rest BY <1>4, <1>7
<1>9. \A m, n \in DOMAIN out : out[m] = out[n] => m = n
  <2> SUFFICES ASSUME NEW m \in 1 .. L + N, NEW n \in 1 .. L + N, out[m] = out[n] PROVE m = n BY <1>3
  <2>1. CASE m <= L /\ n <= L
    <3>1. m \in 1 .. L /\ n \in 1 .. L BY <1>1, <2>1
    <3> QED BY <1>1, <1>4, <3>1 DEF WaveOK
  <2>2. CASE m > L /\ n > L
    <3>1. m - L = n - L BY <1>5, <2>2
    <3> QED BY <1>1, <3>1
  <2>3. CASE m <= L /\ n > L
    <3>1. out[m] \notin s.rest /\ out[n] \in s.rest BY <1>1, <1>5, <1>8, <2>3
    <3> QED BY <3>1
  <2>4. CASE m > L /\ n <= L
    <3>1. out[n] \notin s.rest /\ out[m] \in s.rest BY <1>1, <1>5, <1>8, <2>4
    <3> QED BY <3>1
  <2> QED BY <1>1, <2>1, <2>2, <2>3, <2>4
<1>10. \A i \in D : i \in s.rest \ K <=> \A n \in DOMAIN out : out[n] # i
  <2> SUFFICES ASSUME NEW i \in D PROVE i \in s.rest \ K <=> \A n \in DOMAIN out : out[n] # i OBVIOUS
  <2>1. CASE i \in s.rest \ K
    <3>1. \A n \in 1 .. L + N : out[n] # i BY <1>1, <1>5, <1>8, <2>1
    <3> QED BY <1>3, <2>1, <3>1
  <2>2. CASE i \in K
    <3>1. PICK k \in 1 .. N : e[k] = i BY <2>2
    <3> QED BY <1>3, <1>6, <2>2, <3>1
  <2>3. CASE i \notin s.rest
    <3>1. PICK n \in 1 .. L : s.out[n] = i BY <1>1, <2>3 DEF WaveOK
    <3>2. n \in 1 .. L + N /\ out[n] = i BY <1>1, <1>4, <3>1
    <3> QED BY <1>3, <2>3, <3>2
  <2> QED BY <2>1, <2>2, <2>3
<1>11. \A n \in 1 .. L : IdsAt(ts, out, n - 1) = IdsAt(ts, s.out, n - 1)
  <2> SUFFICES ASSUME NEW n \in 1 .. L PROVE IdsAt(ts, out, n - 1) = IdsAt(ts, s.out, n - 1) OBVIOUS
  <2>1. \A m \in 1 .. n - 1 : out[m] = s.out[m] BY <1>1, <1>4
  <2> QED BY <2>1 DEF IdsAt
<1>12. K = Ready(ts, s) => \A i \in K : ts[i].deps \subseteq IdsAt(ts, s.out, L)
  BY <1>1 DEF Ready, IdsAt
<1>13. K # Ready(ts, s) => K \subseteq Blocked(ts)
  BY ReadyOrBlocked
<1>14. K = Ready(ts, s) => \A i \in K : i \notin Blocked(ts)
  BY ReadyOrBlocked DEF Ready
<1>15. \A n \in DOMAIN out : out[n] \in Blocked(ts) \/ ts[out[n]].deps \subseteq IdsAt(ts, out, n - 1)
  <2> SUFFICES ASSUME NEW n \in 1 .. L + N, out[n] \notin Blocked(ts)
               PROVE  ts[out[n]].deps \subseteq IdsAt(ts, out, n - 1)
    BY <1>3
  <2>1. CASE n <= L
    <3>1. n \in 1 .. L BY <1>1, <2>1
    <3>2. s.out[n] \in Blocked(ts) \/ ts[s.out[n]].deps \subseteq IdsAt(ts, s.out, n - 1)
      BY <1>1, <3>1 DEF WaveOK
    <3> QED BY <1>4, <1>11, <3>1, <3>2
  <2>2. CASE n > L
    <3>1. out[n] \in K BY <1>5, <2>2
    <3>2. ts[out[n]].deps \subseteq IdsAt(ts, s.out, L) BY <1>12, <1>13, <3>1
    <3>3. IdsAt(ts, s.out, L) \subseteq IdsAt(ts, out, n - 1)
      <4>1. \A m \in 1 .. L : m \in 1 .. n - 1 /\ out[m] = s.out[m] BY <1>1, <1>4, <2>2
      <4> QED BY <4>1 DEF IdsAt
    <3> QED BY <3>2, <3>3
  <2> QED BY <1>1, <2>1, <2>2
<1>16. ASSUME NEW m \in 1 .. L + N, NEW n \in 1 .. L + N, m < n
       PROVE  /\ out[m] \in Blocked(ts) => out[n] \in Blocked(ts)
              /\ ts[out[m]].deps = ts[out[n]].deps /\ out[m] \notin Blocked(ts) =>
                   ts[out[m]].prio >= ts[out[n]].prio
  <2>1. CASE n <= L
    <3>1. m \in 1 .. L /\ n \in 1 .. L BY <1>1, <1>16, <2>1
    <3>2. out[m] = s.out[m] /\ out[n] = s.out[n] BY <1>4, <3>1
    <3> QED BY <1>1, <1>16, <3>1, <3>2 DEF WaveOK
  <2>2. CASE m <= L /\ n > L
    <3>1. m \in 1 .. L /\ out[m] = s.out[m] /\ out[n] \in K BY <1>1, <1>4, <1>5, <2>2
    <3>2. out[n] \in s.rest BY <3>1
    <3>3. s.out[m] \notin Blocked(ts) /\ ts[out[n]].deps # ts[s.out[m]].deps BY <1>1, <3>1, <3>2 DEF WaveOK
    <3> QED BY <3>1, <3>3
  <2>3. CASE m > L
    <3>1. /\ n - L \in 1 .. N /\ out[n] = e[n - L] /\ out[n] \in K
          /\ m - L \in 1 .. N /\ out[m] = e[m - L] /\ out[m] \in K /\ m - L < n - L
      BY <1>1, <1>5, <1>16, <2>3
    <3>2. CASE K # Ready(ts, s)
      BY <1>13, <3>1, <3>2
    <3>3. CASE K = Ready(ts, s) /\ K # {}
      <4>1. out[m] \notin Blocked(ts) BY <1>14, <3>1, <3>3
      <4>2. \A a, b \in 1 .. N : a < b => ts[e[a]].prio >= ts[e[b]].prio BY <3>3
      <4> QED BY <3>1, <4>1, <4>2
    <3> QED BY <3>1, <3>2, <3>3
  <2> QED BY <1>1, <1>16, <2>1, <2>2, <2>3
<1>17. ASSUME s.rest \ K # {}, NEW n \in 1 .. L + N
       PROVE  /\ out[n] \notin Blocked(ts)
              /\ \A i \in s.rest \ K : ts[i].deps # ts[out[n]].deps
  <2>1. K = Ready(ts, s) BY <1>17
  <2>2. CASE n <= L
    <3>1. n \in 1 .. L /\ out[n] = s.out[n] BY <1>1, <1>4, <2>2
    <3> QED BY <1>1, <1>17, <3>1 DEF WaveOK
  <2>3. CASE n > L
    <3>1. out[n] \in K /\ out[n] \notin Blocked(ts) BY <1>5, <1>14, <2>1, <2>3
    <3>2. ASSUME NEW i \in s.rest \ K PROVE ts[i].deps # ts[out[n]].deps
      BY <2>1, <3>1, <3>2 DEF Ready
    <3> QED BY <3>1, <3>2
  <2> QED BY <1>1, <2>2, <2>3
<1>18. s.rest \ K \in SUBSET D BY DEF WaveOK
<1> QED BY <1>3, <1>9, <1>10, <1>15, <1>16, <1>17, <1>18 DEF WaveOK, out

\* The first n waves of the recursion.
WavesUpTo(ts, f, n) == f = [k \in 0 .. n |-> IF k = 0 THEN NothingOrdered(ts) ELSE Wave(ts, f[k - 1])]

\* The recursion of Waves defines a function: it is what its definition says.
LEMMA WavesDefined ==
    ASSUME NEW ts, Len(ts) \in Nat
    PROVE  WavesUpTo(ts, Waves(ts), 2 * Len(ts))
<1> DEFINE N == 2 * Len(ts)
           Missing == {n \in Nat : ~\E f : WavesUpTo(ts, f, n)}
<1>1. Missing = {}
  <2> SUFFICES ASSUME Missing # {} PROVE FALSE OBVIOUS
  <2>1. PICK m \in Missing : \A n \in Missing : m <= n BY LeastMember
  <2>2. m # 0
    <3> SUFFICES ASSUME m = 0 PROVE FALSE OBVIOUS
    <3>1. PICK f : f = [k \in 0 .. m |-> NothingOrdered(ts)] OBVIOUS
    <3>2. WavesUpTo(ts, f, m) BY <3>1 DEF WavesUpTo
    <3> QED BY <2>1, <3>2
  <2>3. m \in Nat /\ m - 1 \in Nat /\ m - 1 \notin Missing BY <2>1, <2>2
  <2>4. PICK f : WavesUpTo(ts, f, m - 1) BY <2>3
  <2> DEFINE g == [k \in 0 .. m |-> IF k = m THEN Wave(ts, f[m - 1]) ELSE f[k]]
  <2>5. WavesUpTo(ts, g, m)
    <3>1. ASSUME NEW k \in 0 .. m PROVE g[k] = IF k = 0 THEN NothingOrdered(ts) ELSE Wave(ts, g[k - 1])
      <4>1. CASE k = m BY <2>2, <2>3, <4>1
      <4>2. CASE k # m /\ k # 0
        <5>1. k \in 0 .. m - 1 /\ k - 1 \in 0 .. m - 1 /\ k - 1 # m BY <4>2
        <5>2. g[k] = f[k] /\ g[k - 1] = f[k - 1] BY <4>2, <5>1
        <5>3. f[k] = Wave(ts, f[k - 1]) BY <2>4, <4>2, <5>1 DEF WavesUpTo
        <5> QED BY <4>2, <5>2, <5>3
      <4>3. CASE k # m /\ k = 0
        <5>1. f[0] = NothingOrdered(ts) BY <2>3, <2>4 DEF WavesUpTo
        <5> QED BY <4>3, <5>1
      <4> QED BY <4>1, <4>2, <4>3
    <3> QED BY <3>1 DEF WavesUpTo
  <2> QED BY <2>1, <2>5
<1>2. N \in Nat OBVIOUS
<1>3. \E f : WavesUpTo(ts, f, N) BY <1>1, <1>2
<1>4. Waves(ts) = CHOOSE f : WavesUpTo(ts, f, N) BY DEF Waves, WavesUpTo
<1> HIDE DEF N
<1>5. WavesUpTo(ts, Waves(ts), N) BY <1>3, <1>4
<1> QED BY <1>5 DEF N

\* A list has the positions 1 .. Len.
LEMMA TaskListIs ==
    ASSUME NEW ts, IsTaskList(ts)
    PROVE  /\ Len(ts) \in Nat /\ DOMAIN ts = 1 .. Len(ts)
           /\ IsFiniteSet(DOMAIN ts) /\ Cardinality(DOMAIN ts) = Len(ts)
           /\ \A K \in SUBSET DOMAIN ts : IsFiniteSet(K) /\ Cardinality(K) \in Nat /\ K \in SUBSET Nat
<1>1. PICK S : ts \in Seq(S) BY DEF IsTaskList
<1>2. Len(ts) \in Nat /\ DOMAIN ts = 1 .. Len(ts) BY <1>1
<1>3. PICK n \in Nat : n = Len(ts) /\ DOMAIN ts = 1 .. n BY <1>2
<1>4. IsFiniteSet(1 .. n) /\ Cardinality(1 .. n) = n BY FS_Interval
<1>5. ASSUME NEW K \in SUBSET DOMAIN ts PROVE IsFiniteSet(K) /\ Cardinality(K) \in Nat /\ K \in SUBSET Nat
  BY <1>3, <1>4, FS_Subset, FS_CardinalityType
<1> QED BY <1>3, <1>4, <1>5

\* Each wave keeps what the ordering has, and takes something while something is left.
LEMMA WaveKeeps ==
    ASSUME NEW ts, IsTaskList(ts), NEW s, WaveOK(ts, s)
    PROVE  /\ WaveOK(ts, Wave(ts, s))
           /\ s.rest # {} => Wave(ts, s).rest \subseteq s.rest /\ Wave(ts, s).rest # s.rest
<1>0. s.rest \in SUBSET DOMAIN ts /\ Ready(ts, s) \in SUBSET s.rest BY DEF WaveOK, Ready
<1>1. CASE Ready(ts, s) = {}
  <2> DEFINE K == s.rest
             rank == [i \in K |-> 0]
             N == Cardinality(K)
  <2>1. K \in SUBSET Nat /\ IsFiniteSet(K) /\ rank \in [K -> Int] BY <1>0, TaskListIs
  <2>2. PICK e : e = Sorted(K, rank) OBVIOUS
  <2> HIDE DEF rank
  <2>3. /\ N \in Nat /\ e \in [1 .. N -> K]
        /\ \A i \in K : \E n \in 1 .. N : e[n] = i
        /\ \A m, n \in 1 .. N : e[m] = e[n] => m = n
    BY <2>1, <2>2, SortedInOrder
  <2>4. PICK left : left = s.rest \ K /\ left = {} OBVIOUS
  <2>5. WaveOK(ts, [out |-> s.out \o e, rest |-> left]) BY <1>1, <2>3, <2>4, WaveGoesOn
  <2>6. Wave(ts, s) = [out |-> s.out \o e, rest |-> {}] BY <1>1, <2>2 DEF Wave, AsItStands, rank
  <2>7. Wave(ts, s) = [out |-> s.out \o e, rest |-> left] BY <2>4, <2>6
  <2>8. PICK w : w = Wave(ts, s) OBVIOUS
  <2>9. w.rest = left BY <2>7, <2>8
  <2>10. WaveOK(ts, w) BY <2>5, <2>7, <2>8
  <2> QED BY <2>4, <2>8, <2>9, <2>10
<1>2. CASE Ready(ts, s) # {}
  <2> DEFINE K == Ready(ts, s)
             rank == [i \in K |-> ts[i].prio]
             N == Cardinality(K)
  <2>1. K \in SUBSET Nat /\ IsFiniteSet(K) BY <1>0, TaskListIs
  <2>2. rank \in [K -> Int] BY <1>0 DEF IsTaskList
  <2>3. PICK e : e = Sorted(K, rank) OBVIOUS
  <2>4. Wave(ts, s) = [out |-> s.out \o e, rest |-> s.rest \ K] BY <1>2, <2>3 DEF Wave, ByPriority
  <2>5. \A i \in K : rank[i] = ts[i].prio OBVIOUS
  <2> HIDE DEF rank, K
  <2>6. /\ N \in Nat /\ e \in [1 .. N -> K]
        /\ \A i \in K : \E n \in 1 .. N : e[n] = i
        /\ \A m, n \in 1 .. N : e[m] = e[n] => m = n
        /\ \A m, n \in 1 .. N : m < n => rank[e[m]] >= rank[e[n]]
    BY <2>1, <2>2, <2>3, SortedInOrder
  <2>7. \A m, n \in 1 .. N : m < n => ts[e[m]].prio >= ts[e[n]].prio BY <2>5, <2>6
  <2>8. WaveOK(ts, [out |-> s.out \o e, rest |-> s.rest \ K])
    <3>1. K = Ready(ts, s) /\ K \in SUBSET s.rest BY <1>0 DEF K
    <3> QED BY <2>6, <2>7, <3>1, WaveGoesOn
  <2>9. K # {} /\ K \in SUBSET s.rest BY <1>0, <1>2 DEF K
  <2> QED BY <2>4, <2>8, <2>9
<1> QED BY <1>1, <1>2

\* After n waves at least n tasks are ordered, or all: after 2 * Len(ts) nothing is left.
LEMMA WavesEnd ==
    ASSUME NEW ts, IsTaskList(ts)
    PROVE  /\ WaveOK(ts, Waves(ts)[2 * Len(ts)])
           /\ Waves(ts)[2 * Len(ts)].rest = {}
<1> DEFINE N == 2 * Len(ts)
           w == Waves(ts)
           Fine(n) == WaveOK(ts, w[n]) /\ (w[n].rest # {} => Cardinality(w[n].rest) + n <= Len(ts))
           Missing == {n \in 0 .. N : ~Fine(n)}
<1>0. Len(ts) \in Nat /\ N \in Nat BY TaskListIs
<1>1. w = [k \in 0 .. N |-> IF k = 0 THEN NothingOrdered(ts) ELSE Wave(ts, w[k - 1])]
  BY <1>0, WavesDefined DEF WavesUpTo
<1> HIDE DEF w
<1>2. Fine(0)
  <2>1. w[0] = [out |-> <<>>, rest |-> DOMAIN ts] BY <1>0, <1>1 DEF NothingOrdered
  <2>2. WaveOK(ts, w[0]) BY <2>1 DEF WaveOK
  <2> QED BY <2>1, <2>2, TaskListIs
<1>3. ASSUME NEW n \in 1 .. N, Fine(n - 1) PROVE Fine(n)
  <2>1. PICK s : s = w[n - 1] OBVIOUS
  <2>2. w[n] = Wave(ts, s) BY <1>0, <1>1, <2>1
  <2>3. WaveOK(ts, s) /\ (s.rest # {} => Cardinality(s.rest) + (n - 1) <= Len(ts)) BY <1>3, <2>1
  <2>4. /\ WaveOK(ts, w[n])
        /\ s.rest # {} => w[n].rest \subseteq s.rest /\ w[n].rest # s.rest
    BY <2>2, <2>3, WaveKeeps
  <2>5. ASSUME w[n].rest # {} PROVE Cardinality(w[n].rest) + n <= Len(ts)
    <3>1. s.rest # {}
      <4> SUFFICES ASSUME s.rest = {} PROVE FALSE OBVIOUS
      <4>1. w[n].rest = {} BY <2>2 DEF Wave, Ready
      <4> QED BY <2>5, <4>1
    <3>2. s.rest \in SUBSET DOMAIN ts BY <2>3 DEF WaveOK
    <3>3. PICK a, b : a = s.rest /\ b = w[n].rest OBVIOUS
    <3>4. IsFiniteSet(a) /\ Cardinality(a) \in Nat BY <3>2, <3>3, TaskListIs
    <3>5. b \in SUBSET a /\ b # a BY <2>4, <3>1, <3>3
    <3>6. Cardinality(b) <= Cardinality(a) /\ Cardinality(b) # Cardinality(a) /\ IsFiniteSet(b)
      BY <3>4, <3>5, FS_Subset
    <3>7. Cardinality(b) \in Nat BY <3>6, FS_CardinalityType
    <3>8. Cardinality(a) + (n - 1) <= Len(ts) BY <2>3, <3>1, <3>3
    <3>9. Cardinality(b) + n <= Len(ts) BY <1>0, <3>4, <3>6, <3>7, <3>8
    <3> QED BY <3>3, <3>9
  <2> QED BY <2>4, <2>5
<1> HIDE DEF Fine
<1>4. Missing = {}
  <2> SUFFICES ASSUME Missing # {} PROVE FALSE OBVIOUS
  <2>1. Missing \in SUBSET Nat BY <1>0
  <2>2. PICK m \in Missing : \A n \in Missing : m <= n BY <2>1, LeastMember
  <2>3. m \in 0 .. N /\ ~Fine(m) /\ m # 0 BY <1>2, <2>2
  <2>4. m \in 1 .. N /\ m - 1 \in 0 .. N /\ m - 1 \notin Missing BY <1>0, <2>2, <2>3
  <2>5. Fine(m - 1) BY <2>4
  <2> QED BY <1>3, <2>3, <2>4, <2>5
<1>5. Fine(N) BY <1>0, <1>4
<1>6. w[N].rest = {}
  <2> SUFFICES ASSUME w[N].rest # {} PROVE FALSE OBVIOUS
  <2>1. WaveOK(ts, w[N]) /\ Cardinality(w[N].rest) + N <= Len(ts) BY <1>5 DEF Fine
  <2>2. PICK a : a = w[N].rest OBVIOUS
  <2>3. a \in SUBSET DOMAIN ts /\ a # {} BY <2>1, <2>2 DEF WaveOK
  <2>4. IsFiniteSet(a) /\ Cardinality(a) \in Nat BY <2>3, TaskListIs
  <2>5. Cardinality(a) # 0 BY <2>3, <2>4, FS_EmptySet
  <2>6. Cardinality(a) + 2 * Len(ts) <= Len(ts) BY <2>1, <2>2
  <2> QED BY <1>0, <2>4, <2>5, <2>6
<1> QED BY <1>5, <1>6 DEF Fine, w

-----------------------------------------------------------------------------
\* What _order_tasks_by_dependencies makes of a plan.
OrderFits(ts, o) ==
    /\ o \in Seq({ts[i] : i \in DOMAIN ts})
    /\ \A n \in DOMAIN o : IsBlocked(ts, o[n]) \/ o[n].deps \subseteq {o[m].id : m \in 1 .. n - 1}
    /\ \A m, n \in DOMAIN o : m < n =>
         /\ IsBlocked(ts, o[m]) => IsBlocked(ts, o[n])
         /\ o[m].deps = o[n].deps /\ ~IsBlocked(ts, o[m]) => o[m].prio >= o[n].prio
    /\ \A t : Cardinality({n \in DOMAIN o : o[n] = t}) = Cardinality({i \in DOMAIN ts : ts[i] = t})
    /\ Len(o) = Len(ts)

\* Every plan is ordered as _order_tasks_by_dependencies should (message_hub.py:292 to 334).
LEMMA TasksOrdered ==
    ASSUME NEW ts, IsTaskList(ts)
    PROVE  OrderFits(ts, OrderTasks(ts))
<1>1. PICK s : s = Waves(ts)[2 * Len(ts)] OBVIOUS
<1>2. WaveOK(ts, s) /\ s.rest = {} BY <1>1, WavesEnd
<1>3. PICK e, L : e = s.out /\ L = Len(e) OBVIOUS
<1> DEFINE D == DOMAIN ts
<1>4. e \in Seq(D) /\ L \in Nat /\ DOMAIN e = 1 .. L /\ e \in [1 .. L -> D] BY <1>2, <1>3 DEF WaveOK
<1>5. PICK o : o = OrderTasks(ts) OBVIOUS
<1>6. o = [n \in 1 .. L |-> ts[e[n]]] BY <1>1, <1>3, <1>4, <1>5 DEF OrderTasks
<1>7. /\ \A m, n \in 1 .. L : e[m] = e[n] => m = n
      /\ \A i \in D : \E n \in 1 .. L : e[n] = i
      /\ \A n \in 1 .. L : e[n] \in D
  BY <1>2, <1>3, <1>4 DEF WaveOK
<1>8. /\ o \in Seq({ts[i] : i \in D}) /\ DOMAIN o = 1 .. L /\ Len(o) = L
      /\ \A n \in 1 .. L : o[n] = ts[e[n]]
  BY <1>4, <1>6, <1>7
<1>9. \A n \in 1 .. L : IsBlocked(ts, o[n]) <=> e[n] \in Blocked(ts)
  BY <1>7, <1>8, BlockedTogether
<1>10. ASSUME NEW n \in 1 .. L PROVE IsBlocked(ts, o[n]) \/ o[n].deps \subseteq {o[m].id : m \in 1 .. n - 1}
  <2>1. e[n] \in Blocked(ts) \/ ts[e[n]].deps \subseteq IdsAt(ts, e, n - 1) BY <1>2, <1>3, <1>4 DEF WaveOK
  <2>2. \A m \in 1 .. n - 1 : o[m] = ts[e[m]] BY <1>4, <1>8
  <2>3. IdsAt(ts, e, n - 1) = {o[m].id : m \in 1 .. n - 1} BY <2>2 DEF IdsAt
  <2> QED BY <1>8, <1>9, <2>1, <2>3
<1>11. ASSUME NEW m \in 1 .. L, NEW n \in 1 .. L, m < n
       PROVE  /\ IsBlocked(ts, o[m]) => IsBlocked(ts, o[n])
              /\ o[m].deps = o[n].deps /\ ~IsBlocked(ts, o[m]) => o[m].prio >= o[n].prio
  <2>1. /\ e[m] \in Blocked(ts) => e[n] \in Blocked(ts)
        /\ ts[e[m]].deps = ts[e[n]].deps /\ e[m] \notin Blocked(ts) => ts[e[m]].prio >= ts[e[n]].prio
    BY <1>2, <1>3, <1>4, <1>11 DEF WaveOK
  <2> QED BY <1>8, <1>9, <2>1
<1>12. ASSUME NEW t PROVE Cardinality({n \in 1 .. L : o[n] = t}) = Cardinality({i \in D : ts[i] = t})
  <2> DEFINE S == {n \in 1 .. L : o[n] = t}
             T == {i \in D : ts[i] = t}
             f == [n \in S |-> e[n]]
  <2>1. f \in [S -> T] BY <1>7, <1>8
  <2>2. f \in Injection(S, T) BY <1>7, <2>1 DEF Injection, IsInjective
  <2>3. ASSUME NEW i \in T PROVE \E n \in S : f[n] = i
    <3>1. PICK n \in 1 .. L : e[n] = i BY <1>7
    <3> QED BY <1>8, <3>1
  <2>4. f \in Surjection(S, T) BY <2>1, <2>3 DEF Surjection
  <2>5. f \in Bijection(S, T) BY <2>2, <2>4 DEF Bijection
  <2>6. ExistsBijection(S, T) BY <2>5 DEF ExistsBijection
  <2>7. IsFiniteSet(T) BY TaskListIs
  <2>8. IsFiniteSet(1 .. L) /\ S \in SUBSET (1 .. L) BY <1>4, FS_Interval
  <2>9. IsFiniteSet(S) BY <2>8, FS_Subset
  <2> QED BY <2>6, <2>7, <2>9, FS_Bijection
<1>13. L = Len(ts)
  <2>1. e \in Injection(1 .. L, D) BY <1>4, <1>7 DEF Injection, IsInjective
  <2>2. e \in Bijection(1 .. L, D) BY <1>4, <1>7, <2>1 DEF Bijection, Surjection
  <2>3. ExistsBijection(1 .. L, D) BY <2>2 DEF ExistsBijection
  <2>4. IsFiniteSet(1 .. L) /\ Cardinality(1 .. L) = L BY <1>4, FS_Interval
  <2>5. Cardinality(D) = Cardinality(1 .. L) BY <2>3, <2>4, FS_Bijection
  <2>6. Cardinality(D) = Len(ts) BY TaskListIs
  <2> HIDE DEF D
  <2> QED BY <2>4, <2>5, <2>6
<1>14. OrderFits(ts, o)
  <2>1. \A t : Cardinality({n \in DOMAIN o : o[n] = t}) = Cardinality({i \in DOMAIN ts : ts[i] = t})
    <3> SUFFICES ASSUME NEW t
                 PROVE  Cardinality({n \in DOMAIN o : o[n] = t}) = Cardinality({i \in DOMAIN ts : ts[i] = t})
      OBVIOUS
    <3>1. {n \in DOMAIN o : o[n] = t} = {n \in 1 .. L : o[n] = t} BY <1>8
    <3> QED BY <1>12, <3>1
  <2> QED BY <1>8, <1>10, <1>11, <1>13, <2>1 DEF OrderFits
<1> QED BY <1>5, <1>14

\* The tasks of a plan, their results, and the stages before there is a plan.
TasksOf(ts) == {ts[i] : i \in DOMAIN ts}
Results(ts) == [task : TasksOf(ts), success : BOOLEAN]
Preparing == {"idle", "config", "memory", "intent", "decompose"}

\* What has run of a plan and what is left to run are its order, cut in two.
CutInTwo(ts, results, left, stage) ==
    LET o == OrderTasks(ts) IN
    /\ IsTaskList(ts)
    /\ results \in Seq(Results(ts)) /\ left \in Seq(TasksOf(ts))
    /\ Len(results) + Len(left) = Len(o)
    /\ \A i \in 1 .. Len(results) : results[i].task = o[i]
    /\ \A i \in 1 .. Len(left) : left[i] = o[Len(results) + i]
    /\ stage \in Preparing => results = <<>>
    /\ stage = "answered" => left = <<>>
PlanFits(c) == CutInTwo(tasks[c], ran[c], ordered[c], progress[c])

\* The inductive invariant of the orchestrator's routings.
PlansInv ==
    /\ routingEnabled \in BOOLEAN /\ isExecuting \in BOOLEAN
    /\ progress \in [Routings -> RoutingStages]
    /\ tasks = [c \in Routings |-> tasks[c]] /\ ordered = [c \in Routings |-> ordered[c]]
    /\ ran = [c \in Routings |-> ran[c]]
    /\ \A id \in DOMAIN taskResults : taskResults[id] \in Seq(BOOLEAN)
    /\ \A c \in Routings : PlanFits(c)

\* A plan that is cut in two that way is carried out in order, as PlanCarriedOut says.
LEMMA PlanFitsTold ==
    ASSUME NEW c \in Routings, PlanFits(c)
    PROVE  PlanCarriedOut(c) /\ Len(ran[c]) + Len(ordered[c]) = Len(tasks[c])
<1>1. PICK ts, r, rest, o : ts = tasks[c] /\ r = ran[c] /\ rest = ordered[c] /\ o = OrderTasks(ts) OBVIOUS
<1>2. IsTaskList(ts) BY <1>1 DEF PlanFits, CutInTwo
<1>3. OrderFits(ts, o) BY <1>1, <1>2, TasksOrdered
<1>4. PICK m, n : m = Len(r) /\ n = Len(rest) OBVIOUS
<1>4a. /\ r \in Seq(Results(ts)) /\ rest \in Seq(TasksOf(ts)) /\ Len(r) + Len(rest) = Len(o)
       /\ \A i \in 1 .. Len(r) : r[i].task = o[i]
  BY <1>1 DEF PlanFits, CutInTwo
<1>4b. o \in Seq(TasksOf(ts)) BY <1>3 DEF OrderFits, TasksOf
<1>4c. DOMAIN o = 1 .. Len(o) BY <1>4b
<1>5. /\ r \in Seq(Results(ts)) /\ m \in Nat /\ DOMAIN r = 1 .. m
      /\ n \in Nat /\ DOMAIN rest = 1 .. n
      /\ m + n = Len(o) /\ DOMAIN o = 1 .. m + n
      /\ \A i \in 1 .. m : r[i].task = o[i]
  BY <1>4, <1>4a, <1>4c
<1>6. \A i \in 1 .. m : i \in 1 .. m + n /\ r[i].task = o[i] BY <1>5
<1>7. ASSUME NEW i \in 1 .. m PROVE IsBlocked(ts, r[i].task) \/ r[i].task.deps \subseteq RanIds(c, i - 1)
  <2>1. \A k \in 1 .. i - 1 : r[k].task.id = o[k].id BY <1>5, <1>6
  <2>2. {o[k].id : k \in 1 .. i - 1} = RanIds(c, i - 1) BY <1>1, <2>1 DEF RanIds
  <2>3. IsBlocked(ts, o[i]) \/ o[i].deps \subseteq {o[k].id : k \in 1 .. i - 1} BY <1>3, <1>5, <1>6 DEF OrderFits
  <2> QED BY <1>6, <2>2, <2>3
<1>8. ASSUME NEW i \in 1 .. m, NEW j \in 1 .. m, i < j
      PROVE  /\ IsBlocked(ts, r[i].task) => IsBlocked(ts, r[j].task)
             /\ r[i].task.deps = r[j].task.deps /\ ~IsBlocked(ts, r[i].task) => r[i].task.prio >= r[j].task.prio
  <2>1. \A a, b \in DOMAIN o : a < b =>
          /\ IsBlocked(ts, o[a]) => IsBlocked(ts, o[b])
          /\ o[a].deps = o[b].deps /\ ~IsBlocked(ts, o[a]) => o[a].prio >= o[b].prio
    BY <1>3 DEF OrderFits
  <2>2. i \in DOMAIN o /\ j \in DOMAIN o BY <1>5, <1>6
  <2> QED BY <1>6, <1>8, <2>1, <2>2
<1>9. ASSUME progress[c] = "answered", NEW t
      PROVE  Cardinality({j \in 1 .. m : r[j].task = t}) = Cardinality({j \in DOMAIN ts : ts[j] = t})
  <2>1. n = 0 BY <1>1, <1>4, <1>9 DEF PlanFits, CutInTwo
  <2>2. {j \in 1 .. m : r[j].task = t} = {j \in DOMAIN o : o[j] = t} BY <1>5, <1>6, <2>1
  <2> QED BY <1>3, <2>2 DEF OrderFits
<1>10. Len(r) + Len(rest) = Len(ts) BY <1>3, <1>4, <1>5 DEF OrderFits
<1>11. PlanCarriedOut(c)
  <2>1. \A i \in DOMAIN r : IsBlocked(ts, r[i].task) \/ r[i].task.deps \subseteq RanIds(c, i - 1) BY <1>5, <1>7
  <2>2. \A i, j \in DOMAIN r : i < j =>
           /\ IsBlocked(ts, r[i].task) => IsBlocked(ts, r[j].task)
           /\ r[i].task.deps = r[j].task.deps /\ ~IsBlocked(ts, r[i].task) => r[i].task.prio >= r[j].task.prio
    BY <1>5, <1>8
  <2>3. progress[c] = "answered" =>
          \A i \in DOMAIN ts :
             Cardinality({j \in DOMAIN r : r[j].task = ts[i]}) = Cardinality({j \in DOMAIN ts : ts[j] = ts[i]})
    <3> SUFFICES ASSUME progress[c] = "answered", NEW i \in DOMAIN ts
                 PROVE  Cardinality({j \in DOMAIN r : r[j].task = ts[i]})
                           = Cardinality({j \in DOMAIN ts : ts[j] = ts[i]})
      OBVIOUS
    <3>1. PICK t : t = ts[i] OBVIOUS
    <3>2. {j \in DOMAIN r : r[j].task = t} = {j \in 1 .. m : r[j].task = t} BY <1>5
    <3> QED BY <1>9, <3>1, <3>2
  <2> QED BY <1>1, <2>1, <2>2, <2>3 DEF PlanCarriedOut
<1> QED BY <1>1, <1>10, <1>11

\* A call which is given a plan, and has run nothing, fits it.
LEMMA PlanStarts ==
    ASSUME NEW c \in Routings, PlanFits(c), NEW ts, IsTaskList(ts), ran[c] = <<>>,
           tasks'[c] = ts, ordered'[c] = OrderTasks(ts), ran'[c] = ran[c], progress'[c] = "dispatch"
    PROVE  PlanFits(c)'
<1>1. PICK o : o = OrderTasks(ts) OBVIOUS
<1>2. OrderFits(ts, o) BY <1>1, TasksOrdered
<1>3. o \in Seq(TasksOf(ts)) /\ Len(o) \in Nat BY <1>2 DEF OrderFits, TasksOf
<1>4. /\ ran'[c] = <<>> /\ Len(ran'[c]) = 0 /\ ran'[c] \in Seq(Results(ts)) OBVIOUS
<1>5. \A i \in 1 .. Len(o) : o[i] = o[0 + i] BY <1>3
<1> QED BY <1>1, <1>3, <1>4, <1>5 DEF PlanFits, CutInTwo, Preparing

\* A call that only moves on keeps its plan.
LEMMA PlanRests ==
    ASSUME NEW c \in Routings, PlanFits(c),
           tasks'[c] = tasks[c], ordered'[c] = ordered[c], ran'[c] = ran[c],
           progress'[c] \in Preparing => progress[c] \in Preparing,
           progress'[c] = "answered" => ordered[c] = <<>>
    PROVE  PlanFits(c)'
BY DEF PlanFits, CutInTwo

\* The first of what is left runs.
LEMMA PlanGoesOn ==
    ASSUME NEW c \in Routings, PlanFits(c), progress[c] = "dispatch", ordered[c] # <<>>, NEW ok \in BOOLEAN,
           tasks'[c] = tasks[c], progress'[c] = progress[c], ordered'[c] = Tail(ordered[c]),
           ran'[c] = Append(ran[c], [task |-> Head(ordered[c]), success |-> ok])
    PROVE  PlanFits(c)'
<1>1. PICK ts, r, rest, o, t : /\ ts = tasks[c] /\ r = ran[c] /\ rest = ordered[c] /\ o = OrderTasks(ts)
                               /\ t = [task |-> Head(rest), success |-> ok]
  OBVIOUS
<1>2. PICK r2, rest2 : r2 = Append(r, t) /\ rest2 = Tail(rest) OBVIOUS
<1>3. /\ IsTaskList(ts) /\ r \in Seq(Results(ts)) /\ rest \in Seq(TasksOf(ts))
      /\ Len(r) + Len(rest) = Len(o)
      /\ \A i \in 1 .. Len(r) : r[i].task = o[i]
      /\ \A i \in 1 .. Len(rest) : rest[i] = o[Len(r) + i]
  BY <1>1 DEF PlanFits, CutInTwo
<1>4. /\ Len(r) \in Nat /\ Len(rest) \in Nat \ {0} /\ rest # <<>> BY <1>1, <1>3
<1>5. Head(rest) \in TasksOf(ts) /\ Head(rest) = rest[1] /\ rest[1] = o[Len(r) + 1] BY <1>3, <1>4
<1>6. t \in Results(ts) /\ t.task = o[Len(r) + 1] BY <1>1, <1>5 DEF Results
<1>7. /\ r2 \in Seq(Results(ts)) /\ Len(r2) = Len(r) + 1
      /\ r2[Len(r) + 1] = t /\ \A i \in 1 .. Len(r) : r2[i] = r[i]
  BY <1>2, <1>3, <1>6
<1>8. /\ rest2 \in Seq(TasksOf(ts)) /\ Len(rest2) = Len(rest) - 1
      /\ \A i \in 1 .. Len(rest) - 1 : rest2[i] = rest[i + 1]
  <2>1. PICK S : S = TasksOf(ts) OBVIOUS
  <2>2. rest \in Seq(S) BY <1>3, <2>1
  <2>3. rest2 \in Seq(S) /\ Len(rest2) = Len(rest) - 1 BY <1>2, <1>4, <2>2
  <2>4. \A i \in 1 .. Len(rest) - 1 : rest2[i] = rest[i + 1] BY <1>2, <1>4, <2>2
  <2> QED BY <2>1, <2>3, <2>4
<1>9. \A i \in 1 .. Len(r) + 1 : r2[i].task = o[i]
  <2>1. PICK m : m = Len(r) /\ m \in Nat BY <1>4
  <2>2. \A i \in 1 .. m + 1 : i \in 1 .. m \/ i = m + 1 BY <2>1
  <2>3. \A i \in 1 .. m : r2[i].task = o[i] BY <1>3, <1>7, <2>1
  <2>4. r2[m + 1].task = o[m + 1] BY <1>6, <1>7, <2>1
  <2> QED BY <2>1, <2>2, <2>3, <2>4
<1>10. \A i \in 1 .. Len(rest2) : rest2[i] = o[Len(r2) + i]
  <2> SUFFICES ASSUME NEW i \in 1 .. Len(rest2) PROVE rest2[i] = o[Len(r2) + i] OBVIOUS
  <2>1. i \in 1 .. Len(rest) - 1 /\ i + 1 \in 1 .. Len(rest) BY <1>4, <1>8
  <2>2. Len(r) + (i + 1) = Len(r2) + i BY <1>4, <1>7, <2>1
  <2>3. PICK k, n : k = i + 1 /\ n = Len(r) + k OBVIOUS
  <2>4. k \in 1 .. Len(rest) /\ n = Len(r2) + i BY <2>1, <2>2, <2>3
  <2>5. rest2[i] = rest[k] BY <1>8, <2>1, <2>3
  <2>6. rest[k] = o[n] BY <1>3, <2>3, <2>4
  <2> QED BY <2>4, <2>5, <2>6
<1>11. Len(r2) + Len(rest2) = Len(o)
  <2>1. PICK m, n, k : m = Len(r) /\ n = Len(rest) /\ k = Len(o) OBVIOUS
  <2>2. m \in Nat /\ n \in Nat /\ m + n = k BY <1>3, <1>4, <2>1
  <2>2a. n # 0 BY <1>4, <2>1
  <2>2b. m + 1 \in Nat /\ n - 1 \in Nat BY <2>2, <2>2a
  <2>3. PICK m2 \in Nat, n2 \in Nat : m2 = m + 1 /\ n2 = n - 1 BY <2>2b
  <2>4. m2 + n2 = k BY <2>2, <2>3
  <2>5. Len(r2) = m2 /\ Len(rest2) = n2 BY <1>7, <1>8, <2>1, <2>3
  <2> QED BY <2>1, <2>4, <2>5
<1>12. tasks'[c] = ts /\ ran'[c] = r2 /\ ordered'[c] = rest2 /\ progress'[c] = "dispatch" BY <1>1, <1>2
<1>13. Len(r2) = Len(r) + 1 /\ r2 \in Seq(Results(ts)) /\ rest2 \in Seq(TasksOf(ts)) BY <1>7, <1>8
<1>14. CutInTwo(ts, r2, rest2, "dispatch") BY <1>1, <1>3, <1>9, <1>10, <1>11, <1>13 DEF CutInTwo, Preparing
<1> QED BY <1>12, <1>14 DEF PlanFits

\* The plans the orchestrator makes itself: one task, or none.
LEMMA SingleIsList == \A kind : IsTaskList(Single(kind)) /\ Single(kind) # <<>>
<1> SUFFICES ASSUME NEW kind PROVE IsTaskList(Single(kind)) /\ Single(kind) # <<>> OBVIOUS
<1>1. PICK t : t = Task("task", kind) OBVIOUS
<1>2. t.prio = 0 BY <1>1 DEF Task
<1>3. Single(kind) = <<t>> BY <1>1 DEF Single
<1>4. PICK s : s = <<t>> OBVIOUS
<1>5. DOMAIN s = {1} /\ s[1] = t /\ s \in Seq({t}) BY <1>4
<1>6. {s[i] : i \in DOMAIN s} = {t} BY <1>5
<1> QED BY <1>2, <1>3, <1>4, <1>5, <1>6 DEF IsTaskList

LEMMA NothingPlanned == IsTaskList(<<>>)
BY DEF IsTaskList

\* The plan of one call changes at most; the others' stay.
LEMMA OnePlanMoves ==
    ASSUME PlansInv, NEW c \in Routings, NEW p \in RoutingStages, NEW ts, NEW rest, NEW r,
           progress' = [progress EXCEPT ![c] = p], tasks' = [tasks EXCEPT ![c] = ts],
           ordered' = [ordered EXCEPT ![c] = rest], ran' = [ran EXCEPT ![c] = r],
           (\A d \in {c} : PlanFits(d)'),
           routingEnabled' \in BOOLEAN, isExecuting' \in BOOLEAN,
           \A id \in DOMAIN taskResults' : taskResults'[id] \in Seq(BOOLEAN)
    PROVE  PlansInv'
<1>1. /\ progress' \in [Routings -> RoutingStages] /\ tasks' = [d \in Routings |-> tasks'[d]]
      /\ ordered' = [d \in Routings |-> ordered'[d]] /\ ran' = [d \in Routings |-> ran'[d]]
      /\ \A d \in Routings \ {c} : /\ progress'[d] = progress[d] /\ tasks'[d] = tasks[d]
                                   /\ ordered'[d] = ordered[d] /\ ran'[d] = ran[d]
  BY DEF PlansInv
<1>2. ASSUME NEW d \in Routings PROVE PlanFits(d)'
  <2>1. CASE d = c BY <2>1
  <2>2. CASE d # c
    <3>1. PlanFits(d) BY DEF PlansInv
    <3>2. /\ progress'[d] = progress[d] /\ tasks'[d] = tasks[d] /\ ordered'[d] = ordered[d] /\ ran'[d] = ran[d]
      BY <1>1, <2>2
    <3> QED BY <3>1, <3>2 DEF PlanFits
  <2> QED BY <2>1, <2>2
<1> QED BY <1>1, <1>2 DEF PlansInv

\* Every routing begins without a plan.
LEMMA PlansStart == CollabInit => PlansInv
<1> SUFFICES ASSUME CollabInit PROVE PlansInv OBVIOUS
<1>1. ASSUME NEW c \in Routings PROVE PlanFits(c)
  <2>1. tasks[c] = <<>> /\ ordered[c] = <<>> /\ ran[c] = <<>> /\ progress[c] = "idle" BY DEF CollabInit
  <2>2. IsTaskList(<<>>) BY NothingPlanned
  <2>3. PICK o : o = OrderTasks(<<>>) OBVIOUS
  <2>4. Len(o) = 0 BY <2>2, <2>3, TasksOrdered DEF OrderFits
  <2>5. \A S : <<>> \in Seq(S) OBVIOUS
  <2> QED BY <2>1, <2>2, <2>3, <2>4, <2>5 DEF PlanFits, CutInTwo
<1>2. taskResults = [id \in {} |-> <<>>] BY DEF CollabInit
<1>3. \A id \in DOMAIN taskResults : taskResults[id] \in Seq(BOOLEAN) BY <1>2
<1>4. progress \in [Routings -> RoutingStages] BY DEF CollabInit, RoutingStages
<1> QED BY <1>1, <1>3, <1>4 DEF PlansInv, CollabInit

\* A call that moves on without a new plan and runs nothing.
LEMMA CallMovesOn ==
    ASSUME PlansInv, NEW c \in Routings, NEW p \in RoutingStages, progress' = [progress EXCEPT ![c] = p],
           UNCHANGED <<tasks, ordered, ran, taskResults>>, routingEnabled' \in BOOLEAN, isExecuting' \in BOOLEAN,
           p \in Preparing => progress[c] \in Preparing, p = "answered" => ordered[c] = <<>>
    PROVE  PlansInv'
<1>1. PlanFits(c) BY DEF PlansInv
<1>2. progress'[c] = p /\ \A d \in Routings \ {c} : progress'[d] = progress[d] BY DEF PlansInv
<1>3. ASSUME NEW d \in Routings PROVE PlanFits(d)'
  <2>1. PlanFits(d) BY DEF PlansInv
  <2>2. CASE d = c BY <1>1, <1>2, <2>2, PlanRests
  <2>3. CASE d # c BY <1>2, <2>1, <2>3 DEF PlanFits, CutInTwo
  <2> QED BY <2>2, <2>3
<1>4. progress' \in [Routings -> RoutingStages] BY DEF PlansInv
<1> QED BY <1>3, <1>4 DEF PlansInv

\* A call is given its plan (orchestrator.py, the decomposition and the single task).
LEMMA PlanMade ==
    ASSUME PlansInv, NEW c \in Routings, progress[c] \in Preparing, NEW ts, IsTaskList(ts), Planned(c, ts),
           UNCHANGED <<routingEnabled, isExecuting, ran, taskResults>>
    PROVE  PlansInv'
<1>1. PlanFits(c) /\ ran[c] = <<>> BY DEF PlansInv, PlanFits, CutInTwo
<1>2. PICK o : o = OrderTasks(ts) OBVIOUS
<1>3. /\ progress' = [progress EXCEPT ![c] = "dispatch"] /\ tasks' = [tasks EXCEPT ![c] = ts]
      /\ ordered' = [ordered EXCEPT ![c] = o] /\ ran' = ran
  BY <1>2 DEF Planned
<1>4. /\ progress' \in [Routings -> RoutingStages] /\ tasks' = [d \in Routings |-> tasks'[d]]
      /\ ordered' = [d \in Routings |-> ordered'[d]] /\ ran' = [d \in Routings |-> ran'[d]]
  BY <1>3 DEF PlansInv, RoutingStages
<1>5. /\ tasks'[c] = ts /\ ordered'[c] = o /\ progress'[c] = "dispatch" /\ ran'[c] = ran[c]
      /\ \A d \in Routings \ {c} : /\ progress'[d] = progress[d] /\ tasks'[d] = tasks[d]
                                   /\ ordered'[d] = ordered[d] /\ ran'[d] = ran[d]
  BY <1>3 DEF PlansInv
<1>6. PlanFits(c)' BY <1>1, <1>2, <1>5, PlanStarts
<1>7. ASSUME NEW d \in Routings \ {c} PROVE PlanFits(d)'
  <2>1. PlanFits(d) BY DEF PlansInv
  <2> QED BY <1>5, <2>1 DEF PlanFits, CutInTwo
<1>8. \A d \in Routings : PlanFits(d)' BY <1>6, <1>7
<1> QED BY <1>4, <1>8 DEF PlansInv

\* The first task that is left runs, and its result is kept.
LEMMA TaskRunsKeeps ==
    ASSUME PlansInv, NEW c \in Routings, TaskRuns(c)
    PROVE  PlansInv'
<1>1. PlanFits(c) /\ ordered[c] # <<>> /\ progress[c] = "dispatch" BY DEF PlansInv, TaskRuns
<1> DEFINE t == Head(ordered[c])
<1>3. PICK ok \in Outcomes(Assigned(c, t.id)) :
        /\ ran' = [ran EXCEPT ![c] = Append(@, [task |-> t, success |-> ok])]
        /\ taskResults' =
             [id \in DOMAIN taskResults \cup {t.id} |->
                (IF id \in DOMAIN taskResults THEN taskResults[id] ELSE <<>>)
                    \o (IF id = t.id THEN <<ok>> ELSE <<>>)]
  BY DEF TaskRuns
<1> HIDE DEF t
<1>4. ok \in BOOLEAN BY DEF Outcomes
<1>5. ordered' = [ordered EXCEPT ![c] = Tail(@)] /\ UNCHANGED <<routingEnabled, isExecuting, progress, tasks>>
  BY DEF TaskRuns
<1>6. /\ ordered'[c] = Tail(ordered[c]) /\ ran'[c] = Append(ran[c], [task |-> t, success |-> ok])
      /\ tasks' = tasks /\ progress' = progress
      /\ ordered' = [d \in Routings |-> ordered'[d]] /\ ran' = [d \in Routings |-> ran'[d]]
      /\ \A d \in Routings \ {c} : ordered'[d] = ordered[d] /\ ran'[d] = ran[d]
  BY <1>3, <1>5 DEF PlansInv
<1>7. PlanFits(c)' BY <1>1, <1>4, <1>6, PlanGoesOn DEF t
<1>8. ASSUME NEW d \in Routings \ {c} PROVE PlanFits(d)'
  <2>1. PlanFits(d) BY DEF PlansInv
  <2> QED BY <1>6, <2>1 DEF PlanFits, CutInTwo
<1>9. \A d \in Routings : PlanFits(d)' BY <1>7, <1>8
<1>10. ASSUME NEW id \in DOMAIN taskResults' PROVE taskResults'[id] \in Seq(BOOLEAN)
  <2>1. PICK a, b : /\ a = (IF id \in DOMAIN taskResults THEN taskResults[id] ELSE <<>>)
                    /\ b = (IF id = t.id THEN <<ok>> ELSE <<>>)
    OBVIOUS
  <2>2. <<>> \in Seq(BOOLEAN) /\ <<ok>> \in Seq(BOOLEAN) BY <1>4
  <2>3. a = <<>> \/ (id \in DOMAIN taskResults /\ a = taskResults[id])
    <3>1. CASE id \in DOMAIN taskResults BY <2>1, <3>1
    <3>2. CASE id \notin DOMAIN taskResults BY <2>1, <3>2, Zenon
    <3> QED BY <3>1, <3>2
  <2>6. a \in Seq(BOOLEAN) BY <2>2, <2>3 DEF PlansInv
  <2>5. b \in Seq(BOOLEAN) BY <2>1, <2>2
  <2>4. taskResults'[id] = a \o b BY <1>3, <2>1
  <2> QED BY <2>4, <2>5, <2>6
<1> QED BY <1>5, <1>6, <1>9, <1>10 DEF PlansInv

\* Every step of a routing keeps every plan fitting.
LEMMA PlansStep ==
    ASSUME CollabAssumption, PlansInv, [CollabNext]_collabVars
    PROVE  PlansInv'
<1>1. CASE UNCHANGED collabVars \/ InitializeRouting
  <2>1. UNCHANGED <<progress, isExecuting, tasks, ordered, ran, taskResults>> /\ routingEnabled' \in BOOLEAN
    BY <1>1 DEF collabVars, InitializeRouting, PlansInv
  <2> QED BY <2>1 DEF PlansInv, PlanFits, CutInTwo
<1>2. ASSUME NEW c \in Routings, Works(c) PROVE PlansInv'
  <2>1. progress \in [Routings -> RoutingStages] /\ routingEnabled \in BOOLEAN /\ isExecuting \in BOOLEAN BY DEF PlansInv
  <2>2. CASE RoutingBegins(c)
    <3>1. CASE routingEnabled
      <4>1. progress' = [progress EXCEPT ![c] = "config"] /\ isExecuting' \in BOOLEAN BY <2>2, <3>1 DEF RoutingBegins
      <4> QED BY <2>1, <2>2, <4>1, CallMovesOn DEF RoutingBegins, Preparing, RoutingStages
    <3>2. CASE ~routingEnabled
      <4>1. progress' = [progress EXCEPT ![c] = "failed"] /\ isExecuting' \in BOOLEAN
        BY <2>1, <2>2, <3>2 DEF RoutingBegins
      <4> QED BY <2>1, <2>2, <4>1, CallMovesOn DEF RoutingBegins, Preparing, RoutingStages
    <3> QED BY <3>1, <3>2
  <2>3. CASE RoutingRaises(c) \/ RoleMissing(c)
    <3>1. /\ progress' = [progress EXCEPT ![c] = "failed"] /\ isExecuting' \in BOOLEAN
          /\ UNCHANGED <<routingEnabled, tasks, ordered, ran, taskResults>>
      BY <2>3 DEF RoutingRaises, RoleMissing, Ends
    <3> QED BY <2>1, <3>1, CallMovesOn DEF Preparing, RoutingStages
  <2>4. CASE RoutingAnswers(c)
    <3>1. /\ progress' = [progress EXCEPT ![c] = "answered"] /\ isExecuting' \in BOOLEAN /\ ordered[c] = <<>>
          /\ UNCHANGED <<routingEnabled, tasks, ordered, ran, taskResults>>
      BY <2>4 DEF RoutingAnswers, Ends
    <3> QED BY <2>1, <3>1, CallMovesOn DEF Preparing, RoutingStages
  <2>5. CASE Prepares(c)
    <3>1. PICK p \in {"memory", "intent"} : progress' = [progress EXCEPT ![c] = p]
      BY <2>1, <2>5 DEF Prepares
    <3>2. progress[c] \in Preparing /\ UNCHANGED <<routingEnabled, isExecuting, tasks, ordered, ran, taskResults>>
      BY <2>5 DEF Prepares, Preparing
    <3> QED BY <2>1, <3>1, <3>2, CallMovesOn DEF Preparing, RoutingStages
  <2>6. CASE IntentRecognised(c)
    <3>1. progress[c] \in Preparing /\ UNCHANGED <<routingEnabled, isExecuting, ran, taskResults>>
      BY <2>6 DEF IntentRecognised, Preparing
    <3>2. CASE progress' = [progress EXCEPT ![c] = "decompose"] /\ UNCHANGED <<tasks, ordered>>
      BY <2>1, <3>1, <3>2, CallMovesOn DEF Preparing, RoutingStages
    <3>3. ASSUME NEW kind, Planned(c, Single(kind)) PROVE PlansInv'
      BY <3>1, <3>3, PlanMade, SingleIsList
    <3> QED BY <2>6, <3>2, <3>3 DEF IntentRecognised
  <2>7. CASE Decomposed(c)
    <3>1. progress[c] \in Preparing /\ UNCHANGED <<routingEnabled, isExecuting, ran, taskResults>>
      BY <2>7 DEF Decomposed, Preparing
    <3>2. PICK ts \in ParsedPlans(c) : Planned(c, ts) BY <2>7 DEF Decomposed
    <3>3. IsTaskList(ts) BY SingleIsList DEF ParsedPlans, CollabAssumption
    <3> QED BY <3>1, <3>2, <3>3, PlanMade
  <2> QED BY <1>2, <2>2, <2>3, <2>4, <2>5, <2>6, <2>7, TaskRunsKeeps DEF Works
<1> QED BY <1>1, <1>2 DEF CollabNext

\* In every behaviour of the orchestrator every plan fits.
LEMMA PlansInvariant == CollabInit /\ [][CollabNext]_collabVars => []PlansInv
<1>1. PlansInv /\ [CollabNext]_collabVars => PlansInv' BY PlansStep, CollabAssumption
<1> QED BY <1>1, PlansStart, PTL

\* What the invariant says of the plans and of the types.
LEMMA PlansTold == PlansInv => PlansCarriedOut /\ CollabTypeOK
<1> SUFFICES ASSUME PlansInv PROVE PlansCarriedOut /\ CollabTypeOK OBVIOUS
<1>1. ASSUME NEW c \in Routings PROVE PlanCarriedOut(c) /\ Len(ran[c]) + Len(ordered[c]) = Len(tasks[c])
  <2>1. PlanFits(c) BY DEF PlansInv
  <2> QED BY <2>1, PlanFitsTold
<1>2. ASSUME NEW id \in DOMAIN taskResults, NEW i \in DOMAIN taskResults[id] PROVE taskResults[id][i] \in BOOLEAN
  <2>1. taskResults[id] \in Seq(BOOLEAN) BY DEF PlansInv
  <2>2. PICK s : s = taskResults[id] OBVIOUS
  <2>3. s \in Seq(BOOLEAN) /\ i \in DOMAIN s BY <2>1, <2>2
  <2>4. s[i] \in BOOLEAN BY <2>3
  <2> QED BY <2>2, <2>4
<1> QED BY <1>1, <1>2 DEF PlansCarriedOut, CollabTypeOK, PlansInv

-----------------------------------------------------------------------------
(* AgentMail                                                               *)

MailTypeInv ==
    /\ queued \in [MailRoles -> Seq(Posts)] /\ gone \in [MailRoles -> Seq(Posts)]
    /\ arrived \in [MailRoles -> Seq(Posts)] /\ cleared \in [MailRoles -> SUBSET Posts]
    /\ readerAt \in [Readers -> Posts \cup {"idle", "waiting"}]
    /\ knownRoles \subseteq MailRoles

Arrived(role) == ToSet(arrived[role])
Gone(role) == ToSet(gone[role])

\* A queue's messages came in this order, once each; a task or request came in one queue only.
InOrder(role) ==
    /\ arrived[role] = gone[role] \o queued[role] /\ IsInjective(arrived[role])
    /\ cleared[role] \subseteq Gone(role)
    /\ \A p \in Arrived(role) : PostKind[p] = "broadcast" \/ PostTo[p] = role

\* What an agent has in hand left the queue for it alone.
HandsOwn ==
    \A r \in Readers : readerAt[r] \in Posts =>
        /\ readerAt[r] \in Gone(ReaderOf[r]) \ cleared[ReaderOf[r]]
        /\ \A q \in Readers \ {r} : ReaderOf[q] = ReaderOf[r] => readerAt[q] # readerAt[r]

\* Where a task is that has not been answered.
InHand(p) ==
    p \in ToSet(queued[PostTo[p]]) \cup {readerAt[r] : r \in Readers} \cup cleared[PostTo[p]]

ListedTasks ==
    /\ activeIds \subseteq pendingIds /\ pendingIds \subseteq Sent
    /\ \A p \in Sent : PostKind[p] = "task" =>
         /\ p \in activeIds => InHand(p) \/ p \in submitted
         /\ InHand(p) => p \in activeIds

MailInv == MailTypeInv /\ (\A role \in MailRoles : InOrder(role)) /\ HandsOwn /\ ListedTasks

\* Putting at the end, taking from the front.
LEMMA PutLast ==
    ASSUME NEW S, NEW s \in Seq(S), NEW p \in S
    PROVE  /\ Append(s, p) \in Seq(S) /\ ToSet(Append(s, p)) = ToSet(s) \cup {p}
           /\ IsInjective(s) /\ p \notin ToSet(s) => IsInjective(Append(s, p))
<1>1. /\ Append(s, p) \in Seq(S) /\ DOMAIN s = 1 .. Len(s) /\ Len(s) \in Nat
      /\ DOMAIN Append(s, p) = 1 .. Len(s) + 1
      /\ Append(s, p)[Len(s) + 1] = p /\ \A i \in 1 .. Len(s) : Append(s, p)[i] = s[i]
  OBVIOUS
<1>2. ToSet(Append(s, p)) = ToSet(s) \cup {p}
  BY <1>1 DEF ToSet
<1>3. IsInjective(s) /\ p \notin ToSet(s) => IsInjective(Append(s, p))
  <2> SUFFICES ASSUME IsInjective(s), p \notin ToSet(s), NEW i \in 1 .. Len(s) + 1, NEW k \in 1 .. Len(s) + 1,
                      Append(s, p)[i] = Append(s, p)[k]
               PROVE  i = k
    BY <1>1 DEF IsInjective
  <2>1. \A n \in 1 .. Len(s) : s[n] # p
    BY <1>1 DEF ToSet
  <2>2. CASE i \in 1 .. Len(s) /\ k \in 1 .. Len(s)
    BY <1>1, <2>2 DEF IsInjective
  <2>3. CASE i = Len(s) + 1 \/ k = Len(s) + 1
    BY <1>1, <2>1, <2>3
  <2> QED BY <1>1, <2>2, <2>3
<1> QED BY <1>1, <1>2, <1>3

LEMMA TakeFirst ==
    ASSUME NEW S, NEW s \in Seq(S), NEW q \in Seq(S), q # <<>>
    PROVE  /\ Head(q) \in S /\ Tail(q) \in Seq(S)
           /\ Append(s, Head(q)) \o Tail(q) = s \o q
           /\ ToSet(q) = ToSet(Tail(q)) \cup {Head(q)}
<1>1. /\ Head(q) \in S /\ Tail(q) \in Seq(S) /\ Head(q) = q[1] /\ Len(q) \in Nat /\ Len(q) >= 1
      /\ DOMAIN q = 1 .. Len(q) /\ Len(Tail(q)) = Len(q) - 1 /\ DOMAIN Tail(q) = 1 .. Len(q) - 1
      /\ \A i \in 1 .. Len(q) - 1 : Tail(q)[i] = q[i + 1]
  OBVIOUS
<1>2. ToSet(q) = ToSet(Tail(q)) \cup {Head(q)}
  <2>1. ASSUME NEW i \in 1 .. Len(q) PROVE q[i] \in ToSet(Tail(q)) \cup {Head(q)}
    <3>1. CASE i = 1
      BY <1>1, <3>1
    <3>2. CASE i # 1
      <4>1. i - 1 \in 1 .. Len(q) - 1 /\ Tail(q)[i - 1] = q[i]
        BY <1>1, <3>2
      <4> QED BY <1>1, <4>1 DEF ToSet
    <3> QED BY <3>1, <3>2
  <2>2. ASSUME NEW i \in 1 .. Len(q) - 1 PROVE Tail(q)[i] \in ToSet(q)
    <3>1. i + 1 \in 1 .. Len(q) /\ Tail(q)[i] = q[i + 1]
      BY <1>1
    <3> QED BY <1>1, <3>1 DEF ToSet
  <2>3. Head(q) \in ToSet(q)
    BY <1>1 DEF ToSet
  <2> QED BY <1>1, <2>1, <2>2, <2>3, SMTT(30) DEF ToSet
<1>3. Append(s, Head(q)) \o Tail(q) = s \o q
  BY <1>1
<1> QED BY <1>1, <1>2, <1>3

LEMMA Joined ==
    ASSUME NEW S, NEW s \in Seq(S), NEW q \in Seq(S)
    PROVE  /\ s \o q \in Seq(S) /\ ToSet(s \o q) = ToSet(s) \cup ToSet(q)
           /\ IsInjective(s \o q) => ToSet(s) \cap ToSet(q) = {}
<1>1. /\ s \o q \in Seq(S) /\ Len(s) \in Nat /\ Len(q) \in Nat /\ DOMAIN s = 1 .. Len(s) /\ DOMAIN q = 1 .. Len(q)
      /\ DOMAIN (s \o q) = 1 .. Len(s) + Len(q)
      /\ \A i \in 1 .. Len(s) : (s \o q)[i] = s[i]
      /\ \A i \in 1 .. Len(q) : (s \o q)[Len(s) + i] = q[i]
  OBVIOUS
<1>2. ASSUME NEW i \in 1 .. Len(s) + Len(q) PROVE (s \o q)[i] \in ToSet(s) \cup ToSet(q)
  <2>1. CASE i <= Len(s)
    <3>1. i \in 1 .. Len(s)
      BY <1>1, <2>1
    <3> QED BY <1>1, <3>1 DEF ToSet
  <2>2. CASE i > Len(s)
    <3>1. i - Len(s) \in 1 .. Len(q) /\ (s \o q)[i] = q[i - Len(s)]
      BY <1>1, <2>2
    <3> QED BY <1>1, <3>1 DEF ToSet
  <2> QED BY <1>1, <2>1, <2>2
<1>3. ASSUME NEW i \in 1 .. Len(s) PROVE s[i] \in ToSet(s \o q)
  <2>1. i \in 1 .. Len(s) + Len(q) /\ (s \o q)[i] = s[i]
    BY <1>1
  <2> QED BY <1>1, <2>1 DEF ToSet
<1>4. ASSUME NEW i \in 1 .. Len(q) PROVE q[i] \in ToSet(s \o q)
  <2>1. Len(s) + i \in 1 .. Len(s) + Len(q) /\ (s \o q)[Len(s) + i] = q[i]
    BY <1>1
  <2> QED BY <1>1, <2>1 DEF ToSet
<1>5. IsInjective(s \o q) => ToSet(s) \cap ToSet(q) = {}
  <2> SUFFICES ASSUME IsInjective(s \o q), NEW i \in 1 .. Len(s), NEW k \in 1 .. Len(q), s[i] = q[k] PROVE FALSE
    BY <1>1 DEF ToSet
  <2>1. i \in 1 .. Len(s) + Len(q) /\ Len(s) + k \in 1 .. Len(s) + Len(q) /\ i # Len(s) + k
    BY <1>1
  <2>2. (s \o q)[i] = (s \o q)[Len(s) + k]
    BY <1>1
  <2> QED BY <1>1, <2>1, <2>2 DEF IsInjective
<1>6. ToSet(s \o q) = ToSet(s) \cup ToSet(q)
  BY <1>1, <1>2, <1>3, <1>4, SMTT(30) DEF ToSet
<1> QED BY <1>1, <1>5, <1>6

LEMMA AppendsAfter ==
    ASSUME NEW s \in Seq(Posts), NEW q \in Seq(Posts), NEW p \in Posts
    PROVE  Append(s \o q, p) = s \o Append(q, p)
OBVIOUS

LEMMA NothingMore ==
    ASSUME NEW S, NEW s \in Seq(S)
    PROVE  s \o <<>> = s /\ <<>> \in Seq(S) /\ ToSet(<<>>) = {}
<1>1. s \o <<>> = s /\ <<>> \in Seq(S) /\ DOMAIN <<>> = {}
  OBVIOUS
<1> QED BY <1>1 DEF ToSet

LEMMA PutKeeps ==
    ASSUME MailInv, MailAssumption, NEW p \in Posts, NEW roles \in SUBSET MailRoles, PutFor(roles, p),
           PostKind[p] = "broadcast" \/ roles = {PostTo[p]}, knownRoles' \subseteq MailRoles
    PROVE  /\ MailTypeInv' /\ (\A role \in MailRoles : InOrder(role)') /\ HandsOwn'
           /\ Sent \subseteq Sent' /\ Sent' \subseteq Sent \cup {p}
           /\ roles # {} => p \in Sent'
           /\ roles = {PostTo[p]} => InHand(p)'
           /\ \A q \in Posts \ {p} : InHand(q)' <=> InHand(q)
<1>0. /\ MailTypeInv /\ p \notin Sent /\ UNCHANGED <<submitted, readerAt, gone, cleared>>
      /\ queued' = [role \in MailRoles |-> IF role \in roles THEN Append(queued[role], p) ELSE queued[role]]
      /\ arrived' = [role \in MailRoles |-> IF role \in roles THEN Append(arrived[role], p) ELSE arrived[role]]
      /\ PostTo \in [Posts -> MailRoles]
  BY DEF MailInv, MailAssumption, PutFor
<1>1. ASSUME NEW role \in MailRoles, role \in roles
      PROVE  /\ queued'[role] = Append(queued[role], p) /\ queued'[role] \in Seq(Posts)
             /\ arrived'[role] = Append(arrived[role], p) /\ arrived'[role] \in Seq(Posts)
             /\ ToSet(queued'[role]) = ToSet(queued[role]) \cup {p}
             /\ Arrived(role)' = Arrived(role) \cup {p}
             /\ InOrder(role)'
  <2>1. /\ queued'[role] = Append(queued[role], p) /\ arrived'[role] = Append(arrived[role], p)
        /\ queued[role] \in Seq(Posts) /\ arrived[role] \in Seq(Posts) /\ gone[role] \in Seq(Posts)
    BY <1>0, <1>1 DEF MailTypeInv
  <2>2. /\ Append(queued[role], p) \in Seq(Posts) /\ ToSet(Append(queued[role], p)) = ToSet(queued[role]) \cup {p}
        /\ Append(arrived[role], p) \in Seq(Posts) /\ ToSet(Append(arrived[role], p)) = ToSet(arrived[role]) \cup {p}
    BY <2>1, PutLast
  <2>3. p \notin ToSet(arrived[role]) /\ IsInjective(arrived[role])
    BY <1>0 DEF Sent, MailInv, InOrder
  <2>4. IsInjective(Append(arrived[role], p))
    BY <2>1, <2>3, PutLast
  <2>5. Append(arrived[role], p) = gone[role] \o Append(queued[role], p)
    <3>1. arrived[role] = gone[role] \o queued[role]
      BY DEF MailInv, InOrder
    <3>2. Append(gone[role] \o queued[role], p) = gone[role] \o Append(queued[role], p)
      BY <2>1, AppendsAfter
    <3> QED BY <3>1, <3>2
  <2>6. \A q \in ToSet(arrived[role]) \cup {p} : PostKind[q] = "broadcast" \/ PostTo[q] = role
    BY <1>1 DEF MailInv, InOrder, Arrived
  <2>7. cleared'[role] \subseteq Gone(role)'
    BY <1>0 DEF MailInv, InOrder, Gone
  <2>8. InOrder(role)'
    BY <1>0, <2>1, <2>2, <2>4, <2>5, <2>6, <2>7 DEF InOrder, Arrived
  <2> QED BY <2>1, <2>2, <2>8 DEF Arrived
<1>2. ASSUME NEW role \in MailRoles, role \notin roles
      PROVE  queued'[role] = queued[role] /\ arrived'[role] = arrived[role] /\ Arrived(role)' = Arrived(role) /\ InOrder(role)'
  <2>1. queued'[role] = queued[role] /\ arrived'[role] = arrived[role]
    BY <1>0, <1>2
  <2>2. InOrder(role)
    BY DEF MailInv
  <2> QED BY <1>0, <2>1, <2>2 DEF InOrder, Arrived, Gone
<1>3. MailTypeInv'
  <2>1. queued' \in [MailRoles -> Seq(Posts)]
    BY <1>0, <1>1, <1>2 DEF MailTypeInv
  <2>2. arrived' \in [MailRoles -> Seq(Posts)]
    BY <1>0, <1>1, <1>2 DEF MailTypeInv
  <2> QED BY <1>0, <2>1, <2>2 DEF MailTypeInv
<1>4. \A role \in MailRoles : InOrder(role)'
  BY <1>1, <1>2
<1>5. HandsOwn'
  BY <1>0 DEF MailInv, HandsOwn, Gone
<1>6. Sent \subseteq Sent' /\ Sent' \subseteq Sent \cup {p} /\ (roles # {} => p \in Sent')
  <2>1. \A role \in MailRoles : Arrived(role) \subseteq Arrived(role)' /\ Arrived(role)' \subseteq Arrived(role) \cup {p}
    BY <1>1, <1>2
  <2>2. Sent = UNION {Arrived(role) : role \in MailRoles} /\ Sent' = UNION {Arrived(role)' : role \in MailRoles}
    BY DEF Sent, Arrived
  <2> QED BY <1>1, <2>1, <2>2
<1>7. ASSUME NEW q \in Posts \ {p} PROVE InHand(q)' <=> InHand(q)
  <2>1. PostTo[q] \in MailRoles
    BY <1>0
  <2>2. q \in ToSet(queued'[PostTo[q]]) <=> q \in ToSet(queued[PostTo[q]])
    BY <1>1, <1>2, <2>1
  <2> QED BY <1>0, <2>2 DEF InHand
<1>8. ASSUME roles = {PostTo[p]} PROVE InHand(p)'
  BY <1>0, <1>1, <1>8 DEF InHand
<1> QED BY <1>3, <1>4, <1>5, <1>6, <1>7, <1>8

LEMMA DispatchKeeps ==
    ASSUME MailInv, MailAssumption, NEW p \in Posts, DispatchTask(p)
    PROVE  MailInv'
<1>0. /\ PostTo[p] \in MailRoles /\ PostKind[p] = "task" /\ PutFor({PostTo[p]}, p)
      /\ knownRoles' = knownRoles \cup {PostTo[p]} /\ knownRoles \subseteq MailRoles
      /\ activeIds' = activeIds \cup {p} /\ pendingIds' = pendingIds \cup {p} /\ submitted' = submitted
      /\ Sent \subseteq Posts
  <2>1. \A role \in MailRoles : ToSet(arrived[role]) \subseteq Posts
    BY DEF MailInv, MailTypeInv, ToSet
  <2> QED BY <2>1 DEF DispatchTask, MailAssumption, MailInv, MailTypeInv, PutFor, Sent
<1>1. knownRoles' \subseteq MailRoles /\ {PostTo[p]} \in SUBSET MailRoles
  BY <1>0
<1>2. /\ MailTypeInv' /\ (\A role \in MailRoles : InOrder(role)') /\ HandsOwn'
      /\ Sent \subseteq Sent' /\ Sent' \subseteq Sent \cup {p} /\ p \in Sent'
      /\ InHand(p)' /\ \A q \in Posts \ {p} : InHand(q)' <=> InHand(q)
  BY <1>0, <1>1, PutKeeps
<1>3. ListedTasks'
  <2>1. activeIds' \subseteq pendingIds' /\ pendingIds' \subseteq Sent'
    BY <1>0, <1>2 DEF MailInv, ListedTasks
  <2>2. ASSUME NEW q \in Sent', PostKind[q] = "task"
        PROVE  (q \in activeIds' => InHand(q)' \/ q \in submitted') /\ (InHand(q)' => q \in activeIds')
    <3>1. CASE q = p
      BY <1>0, <1>2, <3>1
    <3>2. CASE q # p
      <4>1. q \in Sent /\ q \in Posts \ {p}
        BY <1>0, <1>2, <3>2
      <4>2. (q \in activeIds => InHand(q) \/ q \in submitted) /\ (InHand(q) => q \in activeIds)
        BY <2>2, <4>1 DEF MailInv, ListedTasks
      <4> QED BY <1>0, <1>2, <4>1, <4>2
    <3> QED BY <3>1, <3>2
  <2> QED BY <2>1, <2>2 DEF ListedTasks
<1> QED BY <1>2, <1>3 DEF MailInv

LEMMA OtherPostKeeps ==
    ASSUME MailInv, MailAssumption, NEW p \in Posts, SendAgentRequest(p) \/ Broadcast(p)
    PROVE  MailInv'
<1>0. knownRoles \subseteq MailRoles /\ PostTo[p] \in MailRoles /\ Sent \subseteq Posts
  <2>1. \A role \in MailRoles : ToSet(arrived[role]) \subseteq Posts
    BY DEF MailInv, MailTypeInv, ToSet
  <2> QED BY <2>1 DEF MailAssumption, MailInv, MailTypeInv, Sent
<1>1. PICK roles \in SUBSET MailRoles :
        /\ PutFor(roles, p) /\ knownRoles' \subseteq MailRoles
        /\ PostKind[p] = "broadcast" \/ roles = {PostTo[p]}
        /\ PostKind[p] # "task" /\ activeIds' = activeIds
        /\ pendingIds' = pendingIds \/ (pendingIds' = pendingIds \cup {p} /\ roles # {})
  <2>1. CASE SendAgentRequest(p)
    BY <1>0, <2>1 DEF SendAgentRequest
  <2>2. CASE Broadcast(p)
    BY <1>0, <2>2 DEF Broadcast
  <2> QED BY <2>1, <2>2
<1>2. /\ MailTypeInv' /\ (\A role \in MailRoles : InOrder(role)') /\ HandsOwn'
      /\ Sent \subseteq Sent' /\ Sent' \subseteq Sent \cup {p} /\ (roles # {} => p \in Sent')
      /\ \A q \in Posts \ {p} : InHand(q)' <=> InHand(q)
  BY <1>1, PutKeeps
<1>3. ListedTasks'
  <2>1. activeIds' \subseteq pendingIds' /\ pendingIds' \subseteq Sent'
    BY <1>1, <1>2 DEF MailInv, ListedTasks
  <2>2. ASSUME NEW q \in Sent', PostKind[q] = "task"
        PROVE  (q \in activeIds' => InHand(q)' \/ q \in submitted') /\ (InHand(q)' => q \in activeIds')
    <3>1. q \in Sent /\ q \in Posts \ {p}
      BY <1>0, <1>1, <1>2, <2>2
    <3>2. (q \in activeIds => InHand(q) \/ q \in submitted) /\ (InHand(q) => q \in activeIds)
      BY <2>2, <3>1 DEF MailInv, ListedTasks
    <3>3. submitted' = submitted
      BY <1>1 DEF PutFor
    <3> QED BY <1>1, <1>2, <3>1, <3>2, <3>3
  <2> QED BY <2>1, <2>2 DEF ListedTasks
<1> QED BY <1>2, <1>3 DEF MailInv

\* A task is in the queue of its role and in no other.
LEMMA ArrivedWhere ==
    ASSUME MailInv, NEW role \in MailRoles, NEW q \in Arrived(role)
    PROVE  q \in Posts /\ (PostKind[q] = "broadcast" \/ PostTo[q] = role)
<1>1. arrived[role] \in Seq(Posts) /\ InOrder(role)
  BY DEF MailInv, MailTypeInv
<1>2. q \in Posts
  BY <1>1 DEF Arrived, ToSet
<1> QED BY <1>1, <1>2 DEF InOrder

\* A message is taken, or a queue cleared: the messages that leave the queue are the next in order.
LEMMA LeavingKeepsOrder ==
    ASSUME MailInv, NEW role \in MailRoles, UNCHANGED arrived, UNCHANGED knownRoles,
           queued' \in [MailRoles -> Seq(Posts)], gone' \in [MailRoles -> Seq(Posts)],
           cleared' \in [MailRoles -> SUBSET Posts],
           readerAt' \in [Readers -> Posts \cup {"idle", "waiting"}],
           gone'[role] \o queued'[role] = gone[role] \o queued[role],
           Gone(role) \subseteq Gone(role)', cleared'[role] \subseteq Gone(role)',
           \A other \in MailRoles \ {role} :
              queued'[other] = queued[other] /\ gone'[other] = gone[other] /\ cleared'[other] = cleared[other]
    PROVE  MailTypeInv' /\ (\A any \in MailRoles : InOrder(any)') /\ Sent' = Sent
<1>1. InOrder(role)'
  BY DEF MailInv, InOrder, Arrived
<1>2. ASSUME NEW other \in MailRoles \ {role} PROVE InOrder(other)'
  <2>1. InOrder(other)
    BY DEF MailInv
  <2> QED BY <2>1 DEF InOrder, Arrived, Gone
<1> QED BY <1>1, <1>2 DEF MailInv, MailTypeInv, Sent

LEMMA GetKeeps ==
    ASSUME MailInv, MailAssumption, NEW r \in Readers, GetMessage(r)
    PROVE  MailInv'
<1> DEFINE role == ReaderOf[r]
           p == Head(queued[role])
<1>0. /\ role \in MailRoles /\ queued[role] \in Seq(Posts) /\ gone[role] \in Seq(Posts) /\ arrived[role] \in Seq(Posts)
      /\ queued[role] # <<>> /\ readerAt[r] = "waiting" /\ "waiting" \notin Posts
      /\ readerAt' = [readerAt EXCEPT ![r] = p]
      /\ queued' = [queued EXCEPT ![role] = Tail(queued[role])]
      /\ gone' = [gone EXCEPT ![role] = Append(gone[role], p)]
      /\ UNCHANGED <<knownRoles, activeIds, pendingIds, submitted, arrived, cleared>>
      /\ readerAt \in [Readers -> Posts \cup {"idle", "waiting"}]
      /\ queued \in [MailRoles -> Seq(Posts)] /\ gone \in [MailRoles -> Seq(Posts)]
  BY DEF MailInv, MailTypeInv, MailAssumption, GetMessage
<1>1. /\ p \in Posts /\ Tail(queued[role]) \in Seq(Posts)
      /\ Append(gone[role], p) \o Tail(queued[role]) = gone[role] \o queued[role]
      /\ ToSet(queued[role]) = ToSet(Tail(queued[role])) \cup {p}
      /\ Append(gone[role], p) \in Seq(Posts) /\ ToSet(Append(gone[role], p)) = ToSet(gone[role]) \cup {p}
  <2>1. /\ p \in Posts /\ Tail(queued[role]) \in Seq(Posts)
        /\ Append(gone[role], p) \o Tail(queued[role]) = gone[role] \o queued[role]
        /\ ToSet(queued[role]) = ToSet(Tail(queued[role])) \cup {p}
    BY <1>0, TakeFirst
  <2>2. gone[role] \in Seq(Posts)
    BY <1>0
  <2> HIDE DEF p, role
  <2>3. Append(gone[role], p) \in Seq(Posts) /\ ToSet(Append(gone[role], p)) = ToSet(gone[role]) \cup {p}
    <3>1. PICK s \in Seq(Posts), first \in Posts : s = gone[role] /\ first = p
      BY <2>1, <2>2
    <3>2. Append(s, first) \in Seq(Posts) /\ ToSet(Append(s, first)) = ToSet(s) \cup {first}
      BY PutLast
    <3> QED BY <3>1, <3>2
  <2> QED BY <2>1, <2>3, Zenon
<1>2. p \in Arrived(role) /\ p \notin Gone(role) /\ p \notin cleared[role]
  <2>1. ToSet(gone[role] \o queued[role]) = ToSet(gone[role]) \cup ToSet(queued[role])
    BY <1>0, Joined
  <2>2. ToSet(gone[role]) \cap ToSet(queued[role]) = {}
    <3>1. IsInjective(gone[role] \o queued[role])
      BY <1>0, ZenonT(30) DEF MailInv, InOrder
    <3> QED BY <1>0, <3>1, Joined
  <2>3. arrived[role] = gone[role] \o queued[role] /\ cleared[role] \subseteq Gone(role)
    BY <1>0 DEF MailInv, InOrder
  <2> QED BY <1>1, <2>1, <2>2, <2>3 DEF Arrived, Gone
<1> HIDE DEF p, role
<1>3. /\ readerAt'[r] = p /\ \A q \in Readers \ {r} : readerAt'[q] = readerAt[q]
      /\ readerAt' \in [Readers -> Posts \cup {"idle", "waiting"}]
      /\ queued'[role] = Tail(queued[role]) /\ gone'[role] = Append(gone[role], p)
      /\ queued' \in [MailRoles -> Seq(Posts)] /\ gone' \in [MailRoles -> Seq(Posts)]
      /\ \A other \in MailRoles \ {role} : queued'[other] = queued[other] /\ gone'[other] = gone[other]
  BY <1>0, <1>1
<1>4. Gone(role)' = Gone(role) \cup {p} /\ \A other \in MailRoles \ {role} : Gone(other)' = Gone(other)
  BY <1>1, <1>3 DEF Gone
<1>5. MailTypeInv' /\ (\A any \in MailRoles : InOrder(any)') /\ Sent' = Sent
  <2>1. cleared'[role] \subseteq Gone(role)' /\ cleared' \in [MailRoles -> SUBSET Posts]
    BY <1>0, <1>4 DEF MailInv, MailTypeInv, InOrder
  <2> QED BY <1>0, <1>1, <1>3, <1>4, <2>1, LeavingKeepsOrder
<1>6. HandsOwn'
  <2> SUFFICES ASSUME NEW q \in Readers, readerAt'[q] \in Posts
               PROVE  /\ readerAt'[q] \in Gone(ReaderOf[q])' \ cleared'[ReaderOf[q]]
                      /\ \A o \in Readers \ {q} : ReaderOf[o] = ReaderOf[q] => readerAt'[o] # readerAt'[q]
    BY DEF HandsOwn
  <2>1. \A o \in Readers : readerAt[o] = p => ReaderOf[o] # role
    BY <1>1, <1>2 DEF MailInv, HandsOwn
  <2>2. CASE q = r
    BY <1>0, <1>2, <1>3, <1>4, <2>1, <2>2 DEF role
  <2>3. CASE q # r
    <3>1. readerAt'[q] = readerAt[q] /\ ReaderOf[q] \in MailRoles
      BY <1>3, <2>3 DEF MailAssumption
    <3>2. readerAt[q] \in Gone(ReaderOf[q])' \ cleared'[ReaderOf[q]]
      BY <1>0, <1>4, <3>1 DEF MailInv, HandsOwn
    <3>3. ASSUME NEW o \in Readers \ {q}, ReaderOf[o] = ReaderOf[q] PROVE readerAt'[o] # readerAt'[q]
      <4>1. CASE o = r
        BY <1>3, <2>1, <3>1, <3>3, <4>1 DEF role
      <4>2. CASE o # r
        BY <1>3, <3>1, <3>3, <4>2 DEF MailInv, HandsOwn
      <4> QED BY <4>1, <4>2
    <3> QED BY <3>1, <3>2, <3>3
  <2> QED BY <2>2, <2>3
<1>7. ListedTasks'
  <2>1. ASSUME NEW q \in Sent, PostKind[q] = "task" PROVE InHand(q)' <=> InHand(q)
    <3>1. PICK any \in MailRoles : q \in Arrived(any)
      BY <2>1 DEF Sent, Arrived
    <3>2. PostTo[q] = any /\ q \in Posts /\ q # "waiting"
      BY <1>0, <2>1, <3>1, ArrivedWhere
    <3>3. CASE q = p
      <4>1. PostTo[q] = role
        BY <1>0, <1>2, <2>1, <3>3 DEF MailInv, InOrder
      <4>2. readerAt'[r] = q /\ q \in ToSet(queued[PostTo[q]])
        BY <1>1, <1>3, <3>3, <4>1
      <4> QED BY <4>2 DEF InHand
    <3>4. CASE q # p
      <4>1. q \in ToSet(queued'[PostTo[q]]) <=> q \in ToSet(queued[PostTo[q]])
        BY <1>1, <1>3, <3>2, <3>4
      <4>2. (\E o \in Readers : readerAt'[o] = q) <=> (\E o \in Readers : readerAt[o] = q)
        BY <1>0, <1>3, <3>2, <3>4
      <4> QED BY <1>0, <4>1, <4>2 DEF InHand
    <3> QED BY <3>3, <3>4
  <2> QED BY <1>0, <1>5, <2>1 DEF MailInv, ListedTasks
<1> QED BY <1>5, <1>6, <1>7 DEF MailInv

LEMMA ClearKeeps ==
    ASSUME MailInv, MailAssumption, NEW role \in MailRoles, ClearQueue(role)
    PROVE  MailInv'
<1>0. /\ queued[role] \in Seq(Posts) /\ gone[role] \in Seq(Posts)
      /\ queued' = [queued EXCEPT ![role] = <<>>]
      /\ cleared' = [cleared EXCEPT ![role] = cleared[role] \cup ToSet(queued[role])]
      /\ gone' = [gone EXCEPT ![role] = gone[role] \o queued[role]]
      /\ UNCHANGED <<knownRoles, activeIds, pendingIds, submitted, readerAt, arrived>>
      /\ queued \in [MailRoles -> Seq(Posts)] /\ gone \in [MailRoles -> Seq(Posts)]
      /\ cleared \in [MailRoles -> SUBSET Posts]
      /\ readerAt \in [Readers -> Posts \cup {"idle", "waiting"}]
  BY DEF MailInv, MailTypeInv, ClearQueue
<1>1. /\ gone[role] \o queued[role] \in Seq(Posts)
      /\ ToSet(gone[role] \o queued[role]) = ToSet(gone[role]) \cup ToSet(queued[role])
      /\ <<>> \in Seq(Posts) /\ ToSet(<<>>) = {} /\ (gone[role] \o queued[role]) \o <<>> = gone[role] \o queued[role]
      /\ ToSet(gone[role]) \cap ToSet(queued[role]) = {} /\ ToSet(queued[role]) \subseteq Posts
  <2>1. IsInjective(gone[role] \o queued[role])
    BY DEF MailInv, InOrder
  <2>2. gone[role] \o queued[role] \in Seq(Posts)
    BY <1>0, Joined
  <2>3. ToSet(queued[role]) \subseteq Posts
    BY <1>0 DEF ToSet
  <2> QED BY <1>0, <2>1, <2>2, <2>3, Joined, NothingMore
<1>2. /\ queued'[role] = <<>> /\ gone'[role] = gone[role] \o queued[role]
      /\ cleared'[role] = cleared[role] \cup ToSet(queued[role])
      /\ queued' \in [MailRoles -> Seq(Posts)] /\ gone' \in [MailRoles -> Seq(Posts)]
      /\ cleared' \in [MailRoles -> SUBSET Posts]
      /\ \A other \in MailRoles \ {role} :
            queued'[other] = queued[other] /\ gone'[other] = gone[other] /\ cleared'[other] = cleared[other]
  BY <1>0, <1>1
<1>3. Gone(role)' = Gone(role) \cup ToSet(queued[role]) /\ \A other \in MailRoles \ {role} : Gone(other)' = Gone(other)
  BY <1>1, <1>2 DEF Gone
<1>4. MailTypeInv' /\ (\A any \in MailRoles : InOrder(any)') /\ Sent' = Sent
  <2>1. cleared'[role] \subseteq Gone(role)'
    BY <1>2, <1>3 DEF MailInv, InOrder
  <2> QED BY <1>0, <1>1, <1>2, <1>3, <2>1, LeavingKeepsOrder
<1>5. HandsOwn'
  <2> SUFFICES ASSUME NEW q \in Readers, readerAt[q] \in Posts
               PROVE  /\ readerAt[q] \in Gone(ReaderOf[q])' \ cleared'[ReaderOf[q]]
                      /\ \A o \in Readers \ {q} : ReaderOf[o] = ReaderOf[q] => readerAt[o] # readerAt[q]
    BY <1>0 DEF HandsOwn
  <2>1. /\ readerAt[q] \in Gone(ReaderOf[q]) \ cleared[ReaderOf[q]]
        /\ \A o \in Readers \ {q} : ReaderOf[o] = ReaderOf[q] => readerAt[o] # readerAt[q]
    BY DEF MailInv, HandsOwn
  <2>2. ReaderOf[q] \in MailRoles
    BY DEF MailAssumption
  <2>3. ReaderOf[q] = role => readerAt[q] \notin ToSet(queued[role])
    BY <1>1, <2>1 DEF Gone
  <2> QED BY <1>2, <1>3, <2>1, <2>2, <2>3
<1>6. ListedTasks'
  <2>1. ASSUME NEW q \in Sent PROVE InHand(q)' <=> InHand(q)
    <3>1. PICK any \in MailRoles : q \in Arrived(any)
      BY DEF Sent, Arrived
    <3>2. q \in Posts
      BY <3>1 DEF MailInv, MailTypeInv, Arrived, ToSet
    <3>3. PostTo[q] \in MailRoles
      BY <3>2 DEF MailAssumption
    <3>4. q \in ToSet(queued'[PostTo[q]]) \cup cleared'[PostTo[q]] <=> q \in ToSet(queued[PostTo[q]]) \cup cleared[PostTo[q]]
      BY <1>1, <1>2, <3>3
    <3> QED BY <1>0, <3>4 DEF InHand
  <2> QED BY <1>0, <1>4, <2>1 DEF MailInv, ListedTasks
<1> QED BY <1>4, <1>5, <1>6 DEF MailInv

LEMMA SubmitKeeps ==
    ASSUME MailInv, MailAssumption, NEW r \in Readers, SubmitResult(r)
    PROVE  MailInv'
<1> DEFINE p == readerAt[r]
<1>0. /\ p \in Posts /\ "idle" \notin Posts /\ submitted' = submitted \cup {p}
      /\ readerAt' = [readerAt EXCEPT ![r] = "idle"]
      /\ \/ activeIds' = activeIds /\ pendingIds' = pendingIds
         \/ activeIds' = activeIds \ {p} /\ pendingIds' = pendingIds \ {p}
      /\ UNCHANGED <<queued, knownRoles, arrived, gone, cleared>>
      /\ readerAt \in [Readers -> Posts \cup {"idle", "waiting"}]
  BY DEF MailInv, MailTypeInv, MailAssumption, SubmitResult
<1>1. /\ readerAt'[r] = "idle" /\ \A q \in Readers \ {r} : readerAt'[q] = readerAt[q]
      /\ readerAt' \in [Readers -> Posts \cup {"idle", "waiting"}]
  BY <1>0
<1>2. MailTypeInv' /\ (\A role \in MailRoles : InOrder(role)') /\ Sent' = Sent
  <2>1. MailTypeInv'
    BY <1>0, <1>1 DEF MailInv, MailTypeInv
  <2>2. ASSUME NEW role \in MailRoles PROVE InOrder(role)'
    <3>1. InOrder(role)
      BY DEF MailInv
    <3> QED BY <1>0, <3>1 DEF InOrder, Arrived, Gone
  <2>3. Sent' = Sent
    BY <1>0 DEF Sent
  <2> QED BY <2>1, <2>2, <2>3
<1>3. HandsOwn'
  <2>1. ASSUME NEW q \in Readers, readerAt'[q] \in Posts
        PROVE  /\ q # r /\ readerAt'[q] = readerAt[q]
               /\ readerAt[q] \in Gone(ReaderOf[q]) \ cleared[ReaderOf[q]]
               /\ \A o \in Readers \ {q} : ReaderOf[o] = ReaderOf[q] => readerAt[o] # readerAt[q]
    BY <1>0, <1>1, <2>1 DEF MailInv, HandsOwn
  <2>2. ASSUME NEW q \in Readers, readerAt'[q] \in Posts, NEW o \in Readers \ {q}, ReaderOf[o] = ReaderOf[q]
        PROVE  readerAt'[o] # readerAt'[q]
    BY <1>0, <1>1, <2>1, <2>2
  <2> QED BY <1>0, <2>1, <2>2 DEF HandsOwn, Gone
<1>4. ListedTasks'
  <2>1. ASSUME NEW q \in Sent, PostKind[q] = "task"
        PROVE  (q \in activeIds' => InHand(q)' \/ q \in submitted') /\ (InHand(q)' => q \in activeIds')
    <3>1. PICK any \in MailRoles : q \in Arrived(any)
      BY DEF Sent, Arrived
    <3>2. q \in Posts /\ PostTo[q] = any /\ any \in MailRoles
      BY <2>1, <3>1, ArrivedWhere
    <3>3. (q \in activeIds => InHand(q) \/ q \in submitted) /\ (InHand(q) => q \in activeIds)
      BY <2>1 DEF MailInv, ListedTasks
    <3>4. CASE q # p
      <4>1. (\E o \in Readers : readerAt'[o] = q) <=> (\E o \in Readers : readerAt[o] = q)
        BY <1>0, <1>1, <3>2, <3>4
      <4>2. InHand(q)' <=> InHand(q)
        BY <1>0, <4>1 DEF InHand
      <4> QED BY <1>0, <3>3, <3>4, <4>2
    <3>5. CASE q = p
      <4>1. q \in Gone(ReaderOf[r]) /\ q \notin cleared[ReaderOf[r]] /\ ReaderOf[r] \in MailRoles
        BY <1>0, <3>5 DEF MailInv, HandsOwn, MailAssumption
      <4>2. ASSUME NEW role \in MailRoles, q \in Gone(role) PROVE role = any /\ q \notin ToSet(queued[role])
        <5>1. gone[role] \in Seq(Posts) /\ queued[role] \in Seq(Posts) /\ arrived[role] = gone[role] \o queued[role]
              /\ IsInjective(arrived[role])
          BY DEF MailInv, MailTypeInv, InOrder
        <5>2. ToSet(gone[role]) \cap ToSet(queued[role]) = {} /\ ToSet(gone[role]) \subseteq Arrived(role)
          BY <5>1, Joined DEF Arrived
        <5>3. q \in Arrived(role) /\ q \notin ToSet(queued[role])
          BY <4>2, <5>2 DEF Gone
        <5> QED BY <2>1, <3>2, <5>3 DEF MailInv, InOrder
      <4>3. ReaderOf[r] = any /\ q \notin ToSet(queued[any]) /\ q \notin cleared[any]
        BY <4>1, <4>2
      <4>4. \A o \in Readers : readerAt'[o] # q
        <5> SUFFICES ASSUME NEW o \in Readers, readerAt'[o] = q PROVE FALSE
          OBVIOUS
        <5>1. o # r /\ readerAt[o] = q
          BY <1>0, <1>1, <3>2
        <5>2. q \in Gone(ReaderOf[o]) /\ ReaderOf[o] \in MailRoles
          BY <3>2, <5>1 DEF MailInv, HandsOwn, MailAssumption
        <5>3. ReaderOf[o] = ReaderOf[r]
          BY <4>2, <4>3, <5>2
        <5> QED BY <1>0, <3>5, <5>1, <5>3 DEF MailInv, HandsOwn
      <4>5. ~InHand(q)'
        BY <1>0, <3>2, <4>3, <4>4 DEF InHand
      <4> QED BY <1>0, <3>5, <4>5
    <3> QED BY <3>4, <3>5
  <2>2. activeIds' \subseteq pendingIds' /\ pendingIds' \subseteq Sent'
    BY <1>0, <1>2 DEF MailInv, ListedTasks
  <2> QED BY <1>2, <2>1, <2>2 DEF ListedTasks
<1> QED BY <1>2, <1>3, <1>4 DEF MailInv

LEMMA WaitKeeps ==
    ASSUME MailInv, MailAssumption, NEW r \in Readers, BeginsToWait(r) \/ WaitTimesOut(r)
    PROVE  MailInv'
<1>0. PICK next \in {"idle", "waiting"} :
        /\ readerAt[r] \in {"idle", "waiting"} /\ readerAt' = [readerAt EXCEPT ![r] = next]
        /\ knownRoles' \in {knownRoles, knownRoles \cup {ReaderOf[r]}}
        /\ UNCHANGED <<queued, activeIds, pendingIds, submitted, arrived, gone, cleared>>
  BY DEF BeginsToWait, WaitTimesOut, hubState
<1>1. /\ readerAt'[r] = next /\ \A q \in Readers \ {r} : readerAt'[q] = readerAt[q]
      /\ readerAt' \in [Readers -> Posts \cup {"idle", "waiting"}]
      /\ next \notin Posts /\ readerAt[r] \notin Posts /\ ReaderOf[r] \in MailRoles
  BY <1>0 DEF MailInv, MailTypeInv, MailAssumption
<1>2. MailTypeInv' /\ (\A role \in MailRoles : InOrder(role)') /\ Sent' = Sent
  <2>1. MailTypeInv'
    BY <1>0, <1>1 DEF MailInv, MailTypeInv
  <2>2. ASSUME NEW role \in MailRoles PROVE InOrder(role)'
    <3>1. InOrder(role)
      BY DEF MailInv
    <3> QED BY <1>0, <3>1 DEF InOrder, Arrived, Gone
  <2>3. Sent' = Sent
    BY <1>0 DEF Sent
  <2> QED BY <2>1, <2>2, <2>3
<1>3. HandsOwn'
  <2>1. ASSUME NEW q \in Readers, readerAt'[q] \in Posts
        PROVE  /\ q # r /\ readerAt'[q] = readerAt[q]
               /\ readerAt[q] \in Gone(ReaderOf[q]) \ cleared[ReaderOf[q]]
               /\ \A o \in Readers \ {q} : ReaderOf[o] = ReaderOf[q] => readerAt[o] # readerAt[q]
    BY <1>0, <1>1, <2>1 DEF MailInv, HandsOwn
  <2>2. ASSUME NEW q \in Readers, readerAt'[q] \in Posts, NEW o \in Readers \ {q}, ReaderOf[o] = ReaderOf[q]
        PROVE  readerAt'[o] # readerAt'[q]
    BY <1>0, <1>1, <2>1, <2>2
  <2> QED BY <1>0, <2>1, <2>2 DEF HandsOwn, Gone
<1>4. ListedTasks'
  <2>1. ASSUME NEW q \in Posts PROVE InHand(q)' <=> InHand(q)
    <3>1. (\E o \in Readers : readerAt'[o] = q) <=> (\E o \in Readers : readerAt[o] = q)
      BY <1>0, <1>1
    <3> QED BY <1>0, <3>1 DEF InHand
  <2>2. Sent \subseteq Posts
    BY DEF MailInv, MailTypeInv, Sent, ToSet
  <2> QED BY <1>0, <1>2, <2>1, <2>2 DEF MailInv, ListedTasks
<1> QED BY <1>2, <1>3, <1>4 DEF MailInv

\* The invariant of the hub's queues holds throughout.
LEMMA MailInvariant == MailSpec => []MailInv
<1>0. MailAssumption
  BY MailAssumption
<1>1. MailInit => MailInv
  <2> SUFFICES ASSUME MailInit PROVE MailInv
    OBVIOUS
  <2>1. <<>> \in Seq(Posts) /\ DOMAIN <<>> = {} /\ <<>> \o <<>> = <<>>
    OBVIOUS
  <2>2. \A role \in MailRoles : arrived[role] = <<>> /\ gone[role] = <<>> /\ queued[role] = <<>> /\ cleared[role] = {}
    BY DEF MailInit
  <2>3. MailTypeInv /\ \A r \in Readers : readerAt[r] = "idle"
    BY <2>1 DEF MailInit, MailTypeInv
  <2>4. ToSet(<<>>) = {} /\ IsInjective(<<>>)
    BY <2>1 DEF ToSet, IsInjective
  <2>5. \A role \in MailRoles : InOrder(role)
    BY <2>1, <2>2, <2>4 DEF InOrder, Arrived, Gone
  <2>6. HandsOwn
    BY <1>0, <2>3 DEF HandsOwn, MailAssumption
  <2>7. Sent = {} /\ activeIds = {} /\ pendingIds = {}
    BY <2>2, <2>4 DEF Sent, MailInit
  <2> QED BY <2>3, <2>5, <2>6, <2>7 DEF MailInv, ListedTasks
<1>2. MailInv /\ [MailNext]_mailVars => MailInv'
  <2> SUFFICES ASSUME MailInv, [MailNext]_mailVars PROVE MailInv'
    OBVIOUS
  <2>1. CASE UNCHANGED mailVars
    <3>1. UNCHANGED <<queued, knownRoles, activeIds, pendingIds, submitted, readerAt, arrived, gone, cleared>>
      BY <2>1 DEF mailVars, hubState
    <3> QED BY <3>1 DEF MailInv, MailTypeInv, InOrder, HandsOwn, ListedTasks, InHand, Arrived, Gone, Sent
  <2> QED BY <1>0, <2>1, DispatchKeeps, OtherPostKeeps, WaitKeeps, GetKeeps, SubmitKeeps, ClearKeeps DEF MailNext
<1> QED BY <1>1, <1>2, PTL DEF MailSpec

\* The hub's queues lose and repeat nothing, hand out in order, and list a task until its result
\* names it (message_hub.py:82 to 200, 264 to 290).  For this a message is in one place at a time:
\* in the queue, in one agent's hands, or dropped.
THEOREM MailCorrect == MailSpec => []MailKept
<1>1. MailInv => MailKept
  <2> SUFFICES ASSUME MailInv PROVE MailKept
    OBVIOUS
  <2>1. \A role \in MailRoles : arrived[role] = gone[role] \o queued[role] /\ IsInjective(arrived[role])
    BY DEF MailInv, InOrder
  <2>2. \A r \in Readers : readerAt[r] \in Posts =>
         /\ readerAt[r] \in ToSet(gone[ReaderOf[r]]) \ cleared[ReaderOf[r]]
         /\ \A q \in Readers \ {r} : ReaderOf[q] = ReaderOf[r] => readerAt[q] # readerAt[r]
    BY DEF MailInv, HandsOwn, Gone
  <2> QED BY <2>1, <2>2 DEF MailInv, ListedTasks, InHand, MailKept
<1> QED BY <1>1, MailInvariant, PTL
-----------------------------------------------------------------------------
(* The run's specification: a step of it is one of one component, and the  *)
(* others rest.                                                            *)

\* A behaviour of the run is one of each component.
LEMMA SpecOfParts == PlanningSpec => LLMSpec /\ CollabSpec /\ MailSpec
<1>1. PlanningInit => LLMInit /\ CollabInit /\ MailInit BY DEF PlanningInit
<1>2. [PlanningNext]_<<llmVars, collabVars, mailVars, focus>> =>
         [LLMNext]_llmVars /\ [CollabNext]_collabVars /\ [MailNext]_mailVars
  BY DEF PlanningNext
<1> QED BY <1>1, <1>2, PTL DEF PlanningSpec, LLMSpec, CollabSpec, MailSpec

\* Every plan is carried out in an order that its dependencies allow, the urgent tasks of a wave
\* first, and only what can never be ready comes without what it depends on (message_hub.py:292 to
\* 334).  The invariant says that what has run and what is left are the plan's order, cut in two.
THEOREM PlansCorrect == CollabSpec => []PlansCarriedOut
<1>1. PlansInv => PlansCarriedOut BY PlansTold
<1> QED BY <1>1, PlansInvariant, PTL DEF CollabSpec

\* Together, as the run checks them: plans, the busy flag and the queues of the hub
\* (message_hub.py:82 to 334, orchestrator.py:132 to 137).
THEOREM HubCorrect == PlanningSpec => []HubKept
BY SpecOfParts, PlansCorrect, FlagCorrect, MailCorrect, PTL DEF HubKept

\* Ids are of messages, and only a role that is known has a queue with something in it.
MailIds ==
    /\ activeIds \subseteq Posts /\ pendingIds \subseteq Posts /\ submitted \subseteq Posts
    /\ \A role \in MailRoles : queued[role] # <<>> => role \in knownRoles

\* A message is put only where the role has a queue.
LEMMA PutKnown ==
    ASSUME MailIds, NEW roles \in SUBSET MailRoles, NEW p, PutFor(roles, p),
           knownRoles \cup roles \subseteq knownRoles'
    PROVE  \A role \in MailRoles : queued'[role] # <<>> => role \in knownRoles'
BY DEF PutFor, MailIds

\* Every step of the hub keeps the ids and the roles.
LEMMA MailIdsStep == MailInv /\ MailIds /\ [MailNext]_mailVars => MailIds'
<1> SUFFICES ASSUME MailInv, MailIds, [MailNext]_mailVars PROVE MailIds' OBVIOUS
<1>0. MailAssumption /\ MailTypeInv BY MailAssumption DEF MailInv
<1>1. CASE UNCHANGED mailVars BY <1>1 DEF mailVars, hubState, MailIds
<1>2. ASSUME NEW p \in Posts, DispatchTask(p) \/ SendAgentRequest(p) PROVE MailIds'
  <2>1. PostTo[p] \in MailRoles BY <1>0 DEF MailAssumption
  <2>2. PutFor({PostTo[p]}, p) /\ knownRoles' = knownRoles \cup {PostTo[p]}
    BY <1>2 DEF DispatchTask, SendAgentRequest
  <2>3. \A role \in MailRoles : queued'[role] # <<>> => role \in knownRoles' BY <2>1, <2>2, PutKnown
  <2>4. submitted' = submitted BY <2>2 DEF PutFor
  <2>5. activeIds' \subseteq Posts /\ pendingIds' \subseteq Posts
    BY <1>2 DEF DispatchTask, SendAgentRequest, MailIds
  <2> QED BY <2>3, <2>4, <2>5 DEF MailIds
<1>3. ASSUME NEW p \in Posts, Broadcast(p) PROVE MailIds'
  <2>1. PutFor(knownRoles, p) /\ UNCHANGED <<knownRoles, activeIds, pendingIds>> BY <1>3 DEF Broadcast
  <2>2. \A role \in MailRoles : queued'[role] # <<>> => role \in knownRoles'
    BY <1>0, <2>1, PutKnown DEF MailTypeInv
  <2>3. submitted' = submitted BY <2>1 DEF PutFor
  <2> QED BY <2>1, <2>2, <2>3 DEF MailIds
<1>4. ASSUME NEW r \in Readers, BeginsToWait(r) \/ WaitTimesOut(r) PROVE MailIds'
  BY <1>4 DEF BeginsToWait, WaitTimesOut, hubState, MailIds
<1>5. ASSUME NEW r \in Readers, GetMessage(r) PROVE MailIds'
  <2>1. PICK role : role = ReaderOf[r] /\ role \in MailRoles BY <1>0 DEF MailAssumption
  <2>2. /\ queued[role] # <<>> /\ queued' = [queued EXCEPT ![role] = Tail(@)]
        /\ UNCHANGED <<knownRoles, activeIds, pendingIds, submitted>>
    BY <1>5, <2>1 DEF GetMessage
  <2>3. role \in knownRoles BY <2>1, <2>2 DEF MailIds
  <2>4. \A o \in MailRoles : o # role => queued'[o] = queued[o] BY <1>0, <2>2 DEF MailTypeInv
  <2> QED BY <2>2, <2>3, <2>4 DEF MailIds
<1>6. ASSUME NEW r \in Readers, SubmitResult(r) PROVE MailIds'
  <2>1. readerAt[r] \in Posts /\ submitted' = submitted \cup {readerAt[r]} /\ UNCHANGED <<queued, knownRoles>>
        /\ activeIds' \subseteq activeIds /\ pendingIds' \subseteq pendingIds
    BY <1>6 DEF SubmitResult
  <2> QED BY <2>1 DEF MailIds
<1>7. ASSUME NEW role \in MailRoles, ClearQueue(role) PROVE MailIds'
  <2>1. queued[role] # <<>> /\ queued' = [queued EXCEPT ![role] = <<>>]
        /\ UNCHANGED <<knownRoles, activeIds, pendingIds, submitted>>
    BY <1>7 DEF ClearQueue
  <2>2. \A o \in MailRoles : queued'[o] = queued[o] \/ queued'[o] = <<>> BY <1>0, <2>1 DEF MailTypeInv
  <2> QED BY <2>1, <2>2 DEF MailIds
<1> QED BY <1>1, <1>2, <1>3, <1>4, <1>5, <1>6, <1>7 DEF MailNext

\* What the invariants of the hub say of the types of its variables.
LEMMA MailTyped == MailInv /\ MailIds => MailTypeOK
<1> SUFFICES ASSUME MailInv, MailIds PROVE MailTypeOK OBVIOUS
<1>1. ASSUME NEW role \in MailRoles PROVE ToSet(queued[role]) \subseteq Posts
  <2>1. queued[role] \in Seq(Posts) BY DEF MailInv, MailTypeInv
  <2>2. PICK s : s = queued[role] OBVIOUS
  <2>3. s \in Seq(Posts) BY <2>1, <2>2
  <2>4. ToSet(s) \subseteq Posts BY <2>3 DEF ToSet
  <2> QED BY <2>2, <2>4
<1> QED BY <1>1 DEF MailInv, MailTypeInv, MailIds, MailTypeOK

\* The variables of all three keep their types (llm/client.py, orchestrator.py, message_hub.py).
THEOREM PlanningTyped == PlanningSpec => []PlanningTypesOK
<1>1. PlanningSpec => []ChatInv BY SpecOfParts, ChatStart, ChatMoves, PTL DEF LLMSpec
<1>2. PlanningSpec => []PlansInv BY SpecOfParts, PlansInvariant, PTL DEF CollabSpec
<1>3. PlanningSpec => []MailInv /\ []MailIds
  <2>1. MailInit => MailIds
    <3>1. ASSUME MailInit, NEW role \in MailRoles PROVE queued[role] = <<>> BY <3>1 DEF MailInit
    <3> QED BY <3>1 DEF MailInit, MailIds
  <2> QED BY <2>1, SpecOfParts, MailInvariant, MailIdsStep, PTL DEF MailSpec
<1>4. ChatInv => LLMTypeOK BY DEF ChatInv, ChatTypeInv, ChatRecord, Rows, LLMTypeOK
<1>5. PlansInv => CollabTypeOK BY PlansTold
<1>6. LLMTypeOK /\ CollabTypeOK /\ MailTypeOK => PlanningTypesOK BY DEF PlanningTypesOK
<1> QED BY <1>1, <1>2, <1>3, <1>4, <1>5, <1>6, MailTyped, PTL
=============================================================================
