----------------------------- MODULE LLMClient -----------------------------
(***************************************************************************)
(* LLMClient.chat (agent/llm/client.py) with its retries                   *)
(* (agent/llm/retry.py) and the cache of answers they share                *)
(* (agent/cache/llm_cache.py, a table of cache.db).                        *)
(*                                                                         *)
(* Calls of chat interleave at every await: the look-up in the cache, the  *)
(* request to the provider, the sleep before a retry, the write to the     *)
(* cache.  The streaming calls touch no state of this module; what they    *)
(* yield is in AgentRuntime.                                               *)
(***************************************************************************)
EXTENDS Integers

CONSTANTS
    Chats,          \* calls of chat
    Requests,       \* what is asked: the whole list of messages
    Keys,           \* cache keys
    KeyOf,          \* generate_cache_key of a request: its first system and first user message
    MaxRetries,     \* settings.LLM_MAX_RETRIES
    BaseDelay,      \* settings.LLM_RETRY_BASE_DELAY
    MaxDelay,       \* settings.LLM_RETRY_MAX_DELAY
    AnswerTTL,      \* settings.LLM_CACHE_TTL
    MaxChatTime     \* bound: the clock stops here

ASSUME LLMAssumption ==
    /\ Requests # {} /\ KeyOf \in [Requests -> Keys]
    /\ MaxRetries \in Nat /\ BaseDelay \in Nat /\ MaxDelay \in Nat
    /\ AnswerTTL \in Nat /\ MaxChatTime \in Nat

\* So for any MaxRetries: stated because the provers know nothing of exponents.
ASSUME PowersOfTwo == \A n \in 0 .. MaxRetries : 2 ^ n \in Nat

VARIABLES
    answers,        \* the rows of the cache by key
    chat,           \* the state of each call
    chatNow         \* utcnow()

llmVars == <<answers, chat, chatNow>>

\* An answer: the request it was given to, whether tools were offered, when it came.
Answer == [req : Requests, tools : BOOLEAN, born : Nat]
NoAnswer == [req |-> "none", tools |-> FALSE, born |-> 0]
NoRow == [answer |-> NoAnswer, expires |-> 0]

\* Errors of the provider: "client" has status 400, 401, 403 or 404; "client_rate" has one
\* of these too, and the letters "rate" (of "generate", say) or "429" in its text; anything else is
\* transient.
Errors == {"transient", "client", "client_rate"}
NoError == "none"

\* Waits that an error's Retry-After can ask for.
RetryAfter == {0, MaxDelay + 1}

is_retryable_error(e) == e # "client"

\* base_delay * 2^attempt, capped.
calculate_backoff(attempt) ==
    LET delay == BaseDelay * 2 ^ attempt IN IF delay < MaxDelay THEN delay ELSE MaxDelay

\* Retry-After wins if it is there and not zero.
get_wait_time(after, attempt) == IF after # 0 THEN after ELSE calculate_backoff(attempt)

ChatStages == {"idle", "lookup", "purge", "calling", "waiting", "storing", "answered", "raised"}
Idle(r) == [stage |-> "idle", req |-> r, tools |-> FALSE, attempt |-> 0, error |-> NoError,
            wait |-> 0, advised |-> FALSE, answer |-> NoAnswer, due |-> 0]

LLMInit ==
    /\ answers = [k \in Keys |-> NoRow]
    /\ chat = [c \in Chats |-> Idle(CHOOSE r \in Requests : TRUE)]
    /\ chatNow = 0

---------------------------------------------------------------------------
(* chat                                                                    *)

\* With tools the cache is not asked.
ChatBegins(c, r, tools) ==
    /\ chat[c].stage = "idle"
    /\ chat' = [chat EXCEPT ![c] = [Idle(r) EXCEPT !.stage = IF tools THEN "calling" ELSE "lookup",
                                                   !.tools = tools]]
    /\ UNCHANGED <<answers, chatNow>>

\* Variant: the time is not looked at.
CacheHitsAnyRow(c) ==
    LET row == answers[KeyOf[chat[c].req]] IN
    /\ chat[c].stage = "lookup"
    /\ row # NoRow
    /\ chat' = [chat EXCEPT ![c].stage = "answered", ![c].answer = row.answer]
    /\ UNCHANGED <<answers, chatNow>>

\* llm_cache.get finds a row that has not expired.
CacheHits(c) ==
    LET row == answers[KeyOf[chat[c].req]] IN
    /\ chat[c].stage = "lookup"
    /\ row # NoRow /\ row.expires > chatNow
    /\ chat' = [chat EXCEPT ![c].stage = "answered", ![c].answer = row.answer]
    /\ UNCHANGED <<answers, chatNow>>

\* No row, an expired one that is about to be deleted, or a database error.
CacheMisses(c) ==
    /\ chat[c].stage = "lookup"
    /\ LET row == answers[KeyOf[chat[c].req]] IN
       \E next \in {"calling"} \cup IF row # NoRow /\ row.expires <= chatNow THEN {"purge"} ELSE {} :
         chat' = [chat EXCEPT ![c].stage = next]
    /\ UNCHANGED <<answers, chatNow>>

\* The expired row is deleted by its key: whatever row is there by now.
CachePurges(c) ==
    /\ chat[c].stage = "purge"
    /\ answers' = [answers EXCEPT ![KeyOf[chat[c].req]] = NoRow]
    /\ chat' = [chat EXCEPT ![c].stage = "calling"]
    /\ UNCHANGED chatNow

\* The provider answers; with no await in between, set computes the expiry.
ProviderAnswers(c) ==
    LET a == [req |-> chat[c].req, tools |-> chat[c].tools, born |-> chatNow] IN
    /\ chat[c].stage = "calling"
    /\ chat' = [chat EXCEPT ![c].stage = IF chat[c].tools THEN "answered" ELSE "storing",
                            ![c].answer = a, ![c].due = chatNow + AnswerTTL]
    /\ UNCHANGED <<answers, chatNow>>

\* The write lands, or the cache swallows its error (a row inserted or deleted since the SELECT).
CacheStores(c) ==
    LET row == [answer |-> chat[c].answer, expires |-> chat[c].due] IN
    /\ chat[c].stage = "storing"
    /\ answers' \in {answers, [answers EXCEPT ![KeyOf[chat[c].req]] = row]}
    /\ chat' = [chat EXCEPT ![c].stage = "answered"]
    /\ UNCHANGED chatNow

\* The provider fails: raise, or sleep and try again.
ProviderFails(c) ==
    /\ chat[c].stage = "calling"
    /\ \E e \in Errors, after \in RetryAfter :
         IF ~is_retryable_error(e) \/ chat[c].attempt >= MaxRetries
         THEN chat' = [chat EXCEPT ![c].stage = "raised", ![c].error = e]
         ELSE chat' = [chat EXCEPT ![c].stage = "waiting", ![c].error = e,
                         ![c].wait = get_wait_time(after, chat[c].attempt), ![c].advised = after # 0]
    /\ UNCHANGED <<answers, chatNow>>

\* Variant: a loop that does not count its attempts.
RetryBeginsUncounted(c) ==
    /\ chat[c].stage = "waiting"
    /\ chat' = [chat EXCEPT ![c].stage = "calling"]
    /\ UNCHANGED <<answers, chatNow>>

RetryBegins(c) ==
    /\ chat[c].stage = "waiting"
    /\ chat' = [chat EXCEPT ![c].stage = "calling", ![c].attempt = @ + 1]
    /\ UNCHANGED <<answers, chatNow>>

ChatTick == chatNow < MaxChatTime /\ chatNow' = chatNow + 1 /\ UNCHANGED <<answers, chat>>

ChatStep(c) ==
    \/ CacheHits(c) \/ CacheMisses(c) \/ CachePurges(c) \/ CacheStores(c)
    \/ ProviderAnswers(c) \/ ProviderFails(c) \/ RetryBegins(c)

LLMNext ==
    \/ \E c \in Chats : ChatStep(c) \/ \E r \in Requests, tools \in BOOLEAN : ChatBegins(c, r, tools)
    \/ ChatTick

\* The event loop runs what it can; a provider answers or fails.
LLMFairness == WF_llmVars(\E c \in Chats : ChatStep(c))

LLMSpec == LLMInit /\ [][LLMNext]_llmVars /\ LLMFairness

---------------------------------------------------------------------------
(* Properties                                                              *)

\* Every row and every call has its shape.
LLMTypeOK ==
    /\ answers \in [Keys -> [answer : Answer \cup {NoAnswer}, expires : Nat]]
    /\ chat \in [Chats -> [stage : ChatStages, req : Requests, tools : BOOLEAN, attempt : Nat,
                           error : Errors \cup {NoError}, wait : Nat, advised : BOOLEAN,
                           answer : Answer \cup {NoAnswer}, due : Nat]]
    /\ chatNow \in Nat

\* Every answer that chat returns was either given to this very request, or taken from the cache
\* for a request without tools whose first prompts are the same, itself without tools, and it was
\* less than the time to live old when it was taken - however the calls on the key interleave.
CachedAnswersFit ==
    [][\A c \in Chats :
         LET a == chat'[c].answer IN
         chat[c].stage = "lookup" /\ chat'[c].stage = "answered" =>
           /\ ~chat[c].tools /\ ~a.tools
           /\ KeyOf[a.req] = KeyOf[chat[c].req]
           /\ chatNow < a.born + AnswerTTL]_llmVars

\* Every time the provider is asked again it is counted, that is at most MaxRetries times, and unless
\* the provider asked for it the wait was within the cap.
RetryDiscipline ==
    [][\A c \in Chats :
         chat[c].stage # "calling" /\ chat'[c].stage = "calling" =>
           \/ chat[c].stage \in {"idle", "lookup", "purge"} /\ chat'[c].attempt = 0
           \/ /\ chat'[c].attempt = chat[c].attempt + 1 /\ chat'[c].attempt <= MaxRetries
              /\ chat[c].wait <= MaxDelay \/ chat[c].advised]_llmVars

\* What chat answers is fresh and fits the request (client.py:131 to 147), and it asks the provider
\* again no oftener and no later than the settings say (retry.py:128 to 149, client.py:219 to 253).
ChatDiscipline == CachedAnswersFit /\ RetryDiscipline

\* What is_retryable_error says of itself (retry.py:54 to 57): errors of authentication (401, 403), an
\* invalid request (400) and what is not found (404) are not tried again.
ClientErrorsNotRetried ==
    \A c \in Chats : chat[c].stage = "waiting" => chat[c].error \notin {"client", "client_rate"}

\* Every call of chat ends, with an answer or an error, whether it looks in the cache first or, with
\* tools, asks the provider at once.
ChatsEnd ==
    \A c \in Chats :
        chat[c].stage \in {"lookup", "calling"} ~> chat[c].stage \in {"answered", "raised"}
=============================================================================
