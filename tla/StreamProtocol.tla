--------------------------- MODULE StreamProtocol ---------------------------
(***************************************************************************)
(* A streamed answer on its way to a WebSocket client:                     *)
(* agent/core/chunk_builder.py makes OpenAI chunks of what the provider    *)
(* streams, gateway/websocket/protocol_converter.py makes messages of      *)
(* them and gathers the pieces of the tool calls.  One converter serves    *)
(* one answer after another and is reset in between, as its reset says.    *)
(*                                                                         *)
(* Text is a mark that it is there.  The arguments of a tool call are the  *)
(* sequence of the numbers of the chunks their pieces came in.             *)
(***************************************************************************)
EXTENDS Integers, Sequences, SequencesExt, FiniteSets

CONSTANTS
    ToolIndexes,    \* the indexes of the tool calls in one answer
    MaxChunksSent,  \* model bound: chunks of an answer
    MaxAnswers      \* model bound: answers the converter serves

ASSUME StreamAssumption == MaxChunksSent \in Nat /\ MaxAnswers \in Nat \ {0}

Reasons == {"stop", "tool_calls", "length", "content_filter"}
NoReason == "none"
Foreign == "other"      \* a reason the provider has and OpenAI has not

VARIABLES
    answerNo,       \* the answer that is streamed
    chunkNo,        \* chunks of the answer so far
    given,          \* [ToolIndexes -> the pieces of the call's arguments the provider sent]
    closing,        \* the finish reason the provider gave, or NoReason
    gathered,       \* _accumulated_tool_calls: [ToolIndexes -> [named, args]]
    listed,         \* what tools_ready said in this answer
    told,           \* the kinds of the messages sent for this answer, in order
    crowded         \* history: the chunk with the finish reason had a piece of a tool call too

streamVars == <<answerNo, chunkNo, given, closing, gathered, listed, told, crowded>>

NothingGathered == [i \in ToolIndexes |-> [named |-> FALSE, args |-> <<>>]]

StreamInit ==
    /\ answerNo = 1 /\ chunkNo = 0
    /\ given = [i \in ToolIndexes |-> <<>>] /\ closing = NoReason
    /\ gathered = NothingGathered /\ listed = NothingGathered
    /\ told = <<>> /\ crowded = FALSE

\* from_litellm_chunk: a reason OpenAI does not have is dropped; the rest is passed on.
FromProvider(chunk) == [chunk EXCEPT !.reason = IF @ \in Reasons THEN @ ELSE NoReason]

\* A variant of Gather in which every piece of a call replaces the one before.
GatherLast(have, opens) == [named |-> have.named \/ opens, args |-> <<chunkNo + 1>>]
\* _process_tool_calls_delta: an opening piece has the id and the name, every piece has arguments.
Gather(have, opens) == [named |-> have.named \/ opens, args |-> Append(have.args, chunkNo + 1)]

\* convert: text and "stop" make one message, and the reason is told before the pieces of the same chunk.
Converted(chunk) ==
    (IF chunk.text /\ chunk.reason # "stop" THEN <<"stream">> ELSE <<>>)
    \o (CASE chunk.reason = "stop" -> <<"done">>
          [] chunk.reason = "tool_calls" -> <<"tools_ready">>
          [] chunk.reason \in {"length", "content_filter"} -> <<"error">>
          [] OTHER -> <<>>)
    \o (IF DOMAIN chunk.opens = {} THEN <<>> ELSE <<"tool_call">>)
    \o (IF chunk.usage THEN <<"usage">> ELSE <<>>)

Send(chunk) ==
    /\ told' = told \o Converted(chunk)
    /\ listed' = IF chunk.reason = "tool_calls" THEN gathered ELSE listed
    /\ gathered' = [i \in ToolIndexes |->
         IF i \in DOMAIN chunk.opens THEN Gather(gathered[i], chunk.opens[i]) ELSE gathered[i]]

\* The provider: a call is opened with its id and name, and later pieces have arguments only: opens says
\* which it is, of each call the chunk has a piece of.  The last chunk has a reason and the usage, and may
\* have text and a piece as well.
ProviderSends(text, reason, indexes) ==
    LET opens == [i \in indexes |-> given[i] = <<>>] IN
    /\ closing = NoReason /\ chunkNo < MaxChunksSent
    /\ chunkNo' = chunkNo + 1
    /\ given' = [i \in ToolIndexes |-> IF i \in indexes THEN Append(given[i], chunkNo + 1) ELSE given[i]]
    /\ closing' = reason
    /\ crowded' = (reason # NoReason /\ indexes # {})
    /\ Send(FromProvider([text |-> text, reason |-> reason, opens |-> opens, usage |-> reason # NoReason]))
    /\ UNCHANGED answerNo

\* build_stop and build_error: nothing but a reason.
Cut(reason) == [text |-> FALSE, reason |-> reason, opens |-> <<>>, usage |-> FALSE]

\* check_interrupt and handle_stream_error end the answer with a chunk of their own, without usage.
BreaksOff(reason) ==
    /\ closing = NoReason
    /\ closing' = reason
    /\ Send(Cut(reason))
    /\ UNCHANGED <<answerNo, chunkNo, given, crowded>>

\* reset, and the next answer.
NextAnswer ==
    /\ closing # NoReason /\ answerNo < MaxAnswers
    /\ answerNo' = answerNo + 1 /\ chunkNo' = 0
    /\ given' = [i \in ToolIndexes |-> <<>>] /\ closing' = NoReason
    /\ gathered' = NothingGathered /\ listed' = NothingGathered
    /\ told' = <<>> /\ crowded' = FALSE

StreamNext ==
    \/ \E text \in BOOLEAN, reason \in Reasons \cup {NoReason, Foreign} :
        \E indexes \in {{}} \cup {{i} : i \in ToolIndexes} : ProviderSends(text, reason, indexes)
    \/ BreaksOff("stop") \/ BreaksOff("content_filter")
    \/ NextAnswer

StreamSpec == StreamInit /\ [][StreamNext]_streamVars

-----------------------------------------------------------------------------
StreamTypeOK ==
    /\ answerNo \in 1 .. MaxAnswers /\ chunkNo \in 0 .. MaxChunksSent
    /\ closing \in Reasons \cup {NoReason, Foreign} /\ crowded \in BOOLEAN
    /\ \A i \in ToolIndexes : gathered[i].named \in BOOLEAN /\ Len(gathered[i].args) <= chunkNo
    /\ ToSet(told) \subseteq {"stream", "done", "tools_ready", "error", "tool_call", "usage"}

\* tools_ready has every tool call the provider opened in this answer and none of an earlier one, with
\* its name and all pieces of its arguments in their order, unless the provider put a piece into the very
\* chunk that has the finish reason (protocol_converter.py:85 to 108: the reason is looked at first).
ReadyHasEverything ==
    "tools_ready" \in ToSet(told) /\ ~crowded =>
        \A i \in ToolIndexes : listed[i] = [named |-> given[i] # <<>>, args |-> given[i]]

Endings == {"done", "tools_ready", "error"}
\* The client is told the end of an answer exactly once, with the kind its reason has, and no text comes
\* after it; a reason OpenAI does not have leaves the client without an end (chunk_builder.py:317 to 320).
EndToldOnce ==
    LET ends == {n \in 1 .. Len(told) : told[n] \in Endings} IN
    /\ Cardinality(ends) = (IF closing \in Reasons THEN 1 ELSE 0)
    /\ \A n \in ends : \A m \in n + 1 .. Len(told) : told[m] # "stream"

ProtocolKept == ReadyHasEverything /\ EndToldOnce
=============================================================================
