------------------------------- MODULE Memory -------------------------------
(***************************************************************************)
(* The short-term memory of one conversation (agent/core/memory.py): a     *)
(* Redis list of messages, newest first, a summary under its own key, and  *)
(* the operations on them.  Each awaited Redis command is one step, so     *)
(* additions, clears and summaries interleave, and a crash of the process  *)
(* leaves whatever their commands have done so far.                        *)
(*                                                                         *)
(* A message is [n, imp, size]: its number (its timestamp), importance and *)
(* estimated tokens.                                                       *)
(***************************************************************************)
EXTENDS Integers, Sequences, FiniteSets, FiniteSetsExt, Ordering

CONSTANTS
    Adders, Clearers, Summarisers,  \* the calls of add_message, clear_session, generate_summary_if_needed
    Importances, Sizes,             \* the importances and sizes of messages
    Keep,                           \* LTRIM keeps this many messages (100)
    SummaryFrom,                    \* a summary is made from this many messages on (50)
    Budget,                         \* max_tokens of a context
    MaxCrashes                      \* model bound: crashes of the process

MemoryCalls == Adders \cup Clearers \cup Summarisers

ASSUME MemoryAssumption ==
    /\ IsFiniteSet(Adders)
    /\ Adders \cap Clearers = {} /\ Adders \cap Summarisers = {} /\ Clearers \cap Summarisers = {}
    /\ Sizes \subseteq Nat /\ Importances \subseteq Nat
    /\ {Keep, SummaryFrom} \subseteq Nat \ {0}
    /\ {Budget, MaxCrashes} \subseteq Nat

NoSummary == {}

VARIABLES
    conv,           \* the list memory:short:conv, newest first; <<>> is no key
    convExpires,    \* the list's key has a time to live
    summary,        \* memory:summary: the numbers of the messages it was made of
    doing,          \* [MemoryCalls -> the command a call does next]
    seen,           \* [Summarisers -> the message numbers its prompt was made of]
    clock,          \* messages added so far: the next timestamp
    crashed,        \* crashes so far
    erased,         \* history: the messages there were when a clear deleted the list
    cleared,        \* history: erased, once a clear has deleted the summary too
    overlapped      \* history: the summarisers that were at work when a clear began

clearing == <<erased, cleared, overlapped>>
memoryVars == <<conv, convExpires, summary, doing, seen, clock, crashed, clearing>>

Numbers(s) == {s[i].n : i \in DOMAIN s}
\* The key of an empty list does not exist, and has no time to live.
SetList(s, expires) == conv' = s /\ convExpires' = (expires /\ s # <<>>)
Goes(c, next) == doing' = [doing EXCEPT ![c] = next]

(***************************************************************************)
(* The contexts handed to the language model.  Both walk a sequence and    *)
(* stop at the first message that does not fit.                            *)
(***************************************************************************)
Chronological(s) == [i \in DOMAIN s |-> s[Len(s) + 1 - i]]
SizeOf(s) == LET sum[i \in 0 .. Len(s)] == IF i = 0 THEN 0 ELSE sum[i - 1] + s[i].size
             IN  sum[Len(s)]
Fitting(s) == LET fits == {k \in 0 .. Len(s) : SizeOf(SubSeq(s, 1, k)) <= Budget}
              IN  SubSeq(s, 1, Max(fits))

\* get_messages gives a context no more than LTRIM keeps, though an addition may be about to trim.
Recent == SubSeq(conv, 1, IF Len(conv) < Keep THEN Len(conv) ELSE Keep)

\* get_context_window: the messages in the order they were added, oldest first.
ContextWindow(s) == Fitting(Chronological(s))

\* sorted by (-importance, timestamp).
Matters(s) == {p \in (DOMAIN s) \X (DOMAIN s) :
                  \/ s[p[1]].imp > s[p[2]].imp
                  \/ s[p[1]].imp = s[p[2]].imp /\ s[p[1]].n < s[p[2]].n}
ByImportance(s) ==
    LET order == Enumerated(Matters(s), DOMAIN s) IN [k \in DOMAIN order |-> s[order[k]]]

\* get_context_for_subagent reverses what it took.
SubAgentContext(s) == Chronological(Fitting(ByImportance(s)))

-----------------------------------------------------------------------------
MemoryInit ==
    /\ conv = <<>> /\ convExpires = FALSE
    /\ summary = NoSummary
    /\ doing = [c \in MemoryCalls |-> "idle"]
    /\ seen = [c \in Summarisers |-> {}]
    /\ clock = 0 /\ crashed = 0
    /\ erased = {} /\ cleared = {} /\ overlapped = {}

\* add_message: LPUSH, LTRIM, EXPIRE.
Pushes(c) ==
    /\ doing[c] = "idle"
    /\ \E imp \in Importances, size \in Sizes :
          SetList(<<[n |-> clock + 1, imp |-> imp, size |-> size]>> \o conv, convExpires)
    /\ clock' = clock + 1
    /\ Goes(c, "trim")
    /\ UNCHANGED <<summary, seen, crashed, clearing>>

\* A variant of Trims: one message too many is kept.
TrimsOneLess(c) ==
    /\ doing[c] = "trim"
    /\ SetList(SubSeq(conv, 1, IF Len(conv) <= Keep THEN Len(conv) ELSE Keep + 1), convExpires)
    /\ Goes(c, "expire")
    /\ UNCHANGED <<summary, seen, clock, crashed, clearing>>

Trims(c) ==
    /\ doing[c] = "trim"
    /\ SetList(SubSeq(conv, 1, IF Len(conv) < Keep THEN Len(conv) ELSE Keep), convExpires)
    /\ Goes(c, "expire")
    /\ UNCHANGED <<summary, seen, clock, crashed, clearing>>

SetsExpiry(c) ==
    /\ doing[c] = "expire"
    /\ SetList(conv, TRUE)
    /\ Goes(c, "done")
    /\ UNCHANGED <<summary, seen, clock, crashed, clearing>>

\* clear: DEL of the list, of the state (not modelled), of the summary.
ClearsList(c) ==
    /\ doing[c] = "idle"
    /\ SetList(<<>>, FALSE)
    /\ erased' = 1 .. clock
    /\ overlapped' = overlapped \cup {s \in Summarisers : doing[s] \in {"check", "ask", "write"}}
    /\ Goes(c, "summary")
    /\ UNCHANGED <<summary, seen, clock, crashed, cleared>>

ClearsSummary(c) ==
    /\ doing[c] = "summary"
    /\ summary' = NoSummary
    /\ cleared' = erased
    /\ Goes(c, "done")
    /\ UNCHANGED <<conv, convExpires, seen, clock, crashed, erased, overlapped>>

\* generate_summary_if_needed: the messages, the summary there is, the model, SETEX.
ReadsMessages(c) ==
    /\ doing[c] = "idle"
    /\ IF Len(conv) < SummaryFrom
       THEN Goes(c, "done") /\ UNCHANGED seen
       ELSE Goes(c, "check") /\ seen' = [seen EXCEPT ![c] = Numbers(conv)]
    /\ UNCHANGED <<conv, convExpires, summary, clock, crashed, clearing>>

ReadsSummary(c) ==
    /\ doing[c] = "check"
    /\ Goes(c, IF summary # NoSummary THEN "done" ELSE "ask")
    /\ UNCHANGED <<conv, convExpires, summary, seen, clock, crashed, clearing>>

\* The model answers, or raises and the call ends.
Asks(c) ==
    /\ doing[c] = "ask"
    /\ \E next \in {"write", "done"} : Goes(c, next)
    /\ UNCHANGED <<conv, convExpires, summary, seen, clock, crashed, clearing>>

WritesSummary(c) ==
    /\ doing[c] = "write"
    /\ summary' = seen[c]
    /\ Goes(c, "done")
    /\ UNCHANGED <<conv, convExpires, seen, clock, crashed, clearing>>

\* The keys' times to live run out.
ListExpires ==
    /\ convExpires
    /\ SetList(<<>>, FALSE)
    /\ UNCHANGED <<summary, doing, seen, clock, crashed, clearing>>

SummaryExpires ==
    /\ summary # NoSummary
    /\ summary' = NoSummary
    /\ UNCHANGED <<conv, convExpires, doing, seen, clock, crashed, clearing>>

\* The process ends: its calls are gone, Redis keeps what they did.
MemoryCrash ==
    /\ crashed < MaxCrashes
    /\ crashed' = crashed + 1
    /\ doing' = [c \in MemoryCalls |-> IF doing[c] = "idle" THEN "idle" ELSE "done"]
    /\ UNCHANGED <<conv, convExpires, summary, seen, clock, clearing>>

MemoryNext ==
    \/ \E c \in Adders : Pushes(c) \/ Trims(c) \/ SetsExpiry(c)
    \/ \E c \in Clearers : ClearsList(c) \/ ClearsSummary(c)
    \/ \E c \in Summarisers : ReadsMessages(c) \/ ReadsSummary(c) \/ Asks(c) \/ WritesSummary(c)
    \/ ListExpires \/ SummaryExpires \/ MemoryCrash

MemorySpec == MemoryInit /\ [][MemoryNext]_memoryVars

-----------------------------------------------------------------------------
MemoryTypeOK ==
    /\ \A i \in DOMAIN conv : conv[i].n \in 1 .. clock
    /\ convExpires => conv # <<>>
    /\ summary = NoSummary \/ summary \subseteq 1 .. clock
    /\ doing \in [MemoryCalls -> {"idle", "trim", "expire", "summary", "check", "ask", "write", "done"}]

(***************************************************************************)
(* Three commands make one addition.  Until the last of them, and after a  *)
(* crash before it, the list may be over its limit or without a time to    *)
(* live; by at most the calls between the commands, and never otherwise.   *)
(***************************************************************************)
ListKept ==
    crashed = 0 =>
      /\ Len(conv) <= Keep + Cardinality({c \in Adders : doing[c] = "trim"})
      /\ conv # <<>> /\ ~convExpires => \E c \in Adders : doing[c] \in {"trim", "expire"}

(***************************************************************************)
(* "Clear session memory" (memory.py): after a clear, a summary of cleared *)
(* messages can be there only because a generation had read them before    *)
(* the clear and wrote its summary after it.                               *)
(***************************************************************************)
ClearedForgotten ==
    summary \cap cleared # {} => \E c \in overlapped : summary = seen[c]

\* A conversation's memory: the list is kept short and expires (memory.py:84 to 86), and what was
\* cleared is not told again (memory.py:196 to 202).
MemoryKept == ListKept /\ ClearedForgotten

(***************************************************************************)
(* The contexts fit the budget.  A sub-agent's keeps what matters: no      *)
(* message left out is more important than one handed out.  The plan       *)
(* agent's has no gap: it is the conversation's oldest messages.           *)
(***************************************************************************)
ContextsFit ==
    LET s == Recent
        given == SubAgentContext(s)
        window == ContextWindow(s)
    IN  /\ SizeOf(given) <= Budget /\ SizeOf(window) <= Budget
        /\ \A i, k \in DOMAIN s :
              s[i].n \notin Numbers(given) /\ s[k].n \in Numbers(given) => s[i].imp <= s[k].imp
        /\ \A i, k \in DOMAIN s :
              s[i].n < s[k].n /\ s[k].n \in Numbers(window) => s[i].n \in Numbers(window)

(***************************************************************************)
(* What get_context_for_subagent says of itself.  Of two messages that     *)
(* matter as much the recent one is given first (memory.py:123 "Priority:  *)
(* High importance > Recent messages"); and what is given is in the order  *)
(* of the conversation (memory.py:149 "Re-order chronologically").         *)
(***************************************************************************)
RecentPreferred ==
    LET s == Recent
        given == Numbers(SubAgentContext(s))
    IN  \A i, k \in DOMAIN s :
            s[i].imp = s[k].imp /\ s[i].n > s[k].n /\ s[k].n \in given => s[i].n \in given

ContextChronological ==
    LET given == SubAgentContext(Recent)
    IN  \A i, k \in DOMAIN given : i < k => given[i].n < given[k].n

\* Each comment implies this, so the violation refutes both: whatever the session holds, what
\* get_context_for_subagent gives keeps at least one of them (memory.py:123 and 149).
ContextAsCommented == RecentPreferred \/ ContextChronological
=============================================================================
