--------------------------- MODULE RuntimeProofs ----------------------------
(***************************************************************************)
(* Calls that run agents, for any agents, calls and changes of rows: what  *)
(* an execution's row tells, how long a former configuration is used, and  *)
(* that the clients of /chat/completions see a stream of EventStream; and  *)
(* how a streamed answer ends. Before them, facts about numbers and orders *)
(* that this module and the others use.                                    *)
(***************************************************************************)
EXTENDS AgentRuntime, StreamProtocol, Ordering, WellFoundedInduction, FunctionTheorems,
        FiniteSetTheorems, TLAPS

(* Least and greatest members; the order in which Enumerated lists a set.  *)

\* A set of naturals that is not empty has a least member: what stands for induction below.
LEMMA LeastMember ==
    ASSUME NEW T \in SUBSET Nat, T # {}
    PROVE  \E m \in T : \A n \in T : m <= n
<1> DEFINE R == {p \in Nat \X Nat : p[1] < p[2]}
<1>1. IsWellFoundedOn(OpToRel(<, Nat), Nat) BY NatLessThanWellFounded
<1>2. OpToRel(<, Nat) = R BY DEF OpToRel
<1>3. PICK m \in T : \A n \in T : ~ <<n, m>> \in R BY <1>1, <1>2, WFMin
<1>4. ASSUME NEW n \in T PROVE m <= n
  <2>1. n \in Nat /\ m \in Nat OBVIOUS
  <2>2. ~(n < m) BY <1>3, <2>1
  <2> QED BY <2>1, <2>2
<1> QED BY <1>4

\* And one that is bounded has a greatest.
LEMMA GreatestMember ==
    ASSUME NEW N \in Nat, NEW T \in SUBSET (0 .. N), T # {}
    PROVE  \E m \in T : \A n \in T : n <= m
<1> DEFINE S == {k \in Nat : N - k \in T}
<1>1. S \in SUBSET Nat OBVIOUS
<1>2. PICK t \in T : t \in 0 .. N OBVIOUS
<1>3. N - t \in S BY <1>2
<1>4. PICK k \in S : \A n \in S : k <= n BY <1>1, <1>3, LeastMember
<1>5. ASSUME NEW n \in T PROVE n <= N - k
  <2>1. n \in 0 .. N OBVIOUS
  <2>2. N - n \in S BY <2>1
  <2>3. k <= N - n BY <1>4, <2>2
  <2> QED BY <2>1, <2>3
<1> QED BY <1>4, <1>5

\* R orders K: no two members are equal in it.
Orders(R, K) ==
    /\ \A i \in K : <<i, i>> \notin R
    /\ \A i, j, k \in K : <<i, j>> \in R /\ <<j, k>> \in R => <<i, k>> \in R
    /\ \A i, j \in K : i = j \/ <<i, j>> \in R \/ <<j, i>> \in R

\* The rank of a member is its place in the order.
LEMMA RankGrows ==
    ASSUME NEW K, IsFiniteSet(K), NEW R, Orders(R, K), NEW i \in K, NEW j \in K
    PROVE  /\ RankIn(R, K, i) \in 0 .. Cardinality(K) - 1
           /\ <<i, j>> \in R <=> RankIn(R, K, i) < RankIn(R, K, j)
<1> DEFINE P(x) == {k \in K : <<k, x>> \in R}
<1>1. ASSUME NEW x \in K PROVE /\ IsFiniteSet(P(x)) /\ Cardinality(P(x)) \in Nat
                               /\ Cardinality(P(x)) < Cardinality(K) /\ Cardinality(K) \in Nat
  <2>1. P(x) \in SUBSET K /\ P(x) # K BY DEF Orders
  <2>2. IsFiniteSet(P(x)) BY <2>1, FS_Subset
  <2>3. Cardinality(P(x)) \in Nat /\ Cardinality(K) \in Nat BY <2>2, FS_CardinalityType
  <2>4. Cardinality(P(x)) <= Cardinality(K) /\ Cardinality(P(x)) # Cardinality(K) BY <2>1, FS_Subset
  <2> QED BY <2>2, <2>3, <2>4
<1>2. ASSUME NEW x \in K, NEW y \in K, <<x, y>> \in R PROVE Cardinality(P(x)) < Cardinality(P(y))
  <2>1. P(x) \in SUBSET P(y) /\ P(x) # P(y) BY <1>2 DEF Orders
  <2>2. Cardinality(P(x)) <= Cardinality(P(y)) /\ Cardinality(P(x)) # Cardinality(P(y))
    BY <1>1, <2>1, FS_Subset
  <2>3. Cardinality(P(x)) \in Nat /\ Cardinality(P(y)) \in Nat BY <1>1
  <2> HIDE DEF P
  <2> QED BY <2>2, <2>3
<1> HIDE DEF P
<1>3. RankIn(R, K, i) = Cardinality(P(i)) /\ RankIn(R, K, j) = Cardinality(P(j)) BY DEF RankIn, P
<1>4. Cardinality(P(i)) \in 0 .. Cardinality(K) - 1 BY <1>1
<1>5. <<i, j>> \in R => Cardinality(P(i)) < Cardinality(P(j)) BY <1>2
<1>6. ASSUME <<i, j>> \notin R PROVE ~(Cardinality(P(i)) < Cardinality(P(j)))
  <2>1. i = j \/ <<j, i>> \in R BY <1>6 DEF Orders
  <2>2. i = j \/ Cardinality(P(j)) < Cardinality(P(i)) BY <1>2, <2>1
  <2> QED BY <1>1, <2>2
<1> QED BY <1>3, <1>4, <1>5, <1>6

\* Every rank is some member's: of the members whose rank is n or more, the first has n.
LEMMA RankReached ==
    ASSUME NEW K, IsFiniteSet(K), NEW R, Orders(R, K), NEW n \in 0 .. Cardinality(K) - 1
    PROVE  \E i \in K : RankIn(R, K, i) = n
<1> DEFINE N == Cardinality(K)
           T == 0 .. N - 1
           f == [i \in K |-> RankIn(R, K, i)]
<1>1. N \in Nat BY FS_CardinalityType
<1>2. f \in [K -> T] BY RankGrows
<1>3. ASSUME NEW i \in K, NEW j \in K, f[i] = f[j] PROVE i = j
  <2>1. ~(f[i] < f[j]) /\ ~(f[j] < f[i]) BY <1>1, <1>2, <1>3
  <2>2. <<i, j>> \notin R /\ <<j, i>> \notin R BY <2>1, RankGrows
  <2> QED BY <2>2 DEF Orders
<1>4. f \in Injection(K, T) BY <1>2, <1>3 DEF Injection, IsInjective
<1>5. IsFiniteSet(T) /\ Cardinality(T) = N BY <1>1, FS_Interval
<1>6. f \in Surjection(K, T) BY <1>4, <1>5, FS_Injection
<1>7. \E i \in K : f[i] = n BY <1>6 DEF Surjection
<1> QED BY <1>7

\* Enumerated lists each member of an ordered set once, in order.
LEMMA EnumeratedInOrder ==
    ASSUME NEW K, IsFiniteSet(K), NEW R, Orders(R, K)
    PROVE  LET e == Enumerated(R, K)
               N == Cardinality(K)
           IN  /\ N \in Nat /\ e \in [1 .. N -> K]
               /\ \A i \in K : \E n \in 1 .. N : e[n] = i
               /\ \A m, n \in 1 .. N : <<e[m], e[n]>> \in R <=> m < n
               /\ \A m, n \in 1 .. N : e[m] = e[n] => m = n
<1> DEFINE e == Enumerated(R, K)
           N == Cardinality(K)
<1>1. N \in Nat BY FS_CardinalityType
<1>2. ASSUME NEW n \in 1 .. N PROVE e[n] \in K /\ RankIn(R, K, e[n]) = n - 1
  <2>1. n - 1 \in 0 .. N - 1 BY <1>1
  <2>2. \E i \in K : RankIn(R, K, i) = n - 1 BY <2>1, RankReached
  <2> QED BY <2>2 DEF Enumerated
<1>3. e = [n \in 1 .. N |-> e[n]] BY DEF Enumerated
<1> HIDE DEF e
<1>4. e \in [1 .. N -> K] BY <1>2, <1>3
<1>5. ASSUME NEW m \in 1 .. N, NEW n \in 1 .. N PROVE <<e[m], e[n]>> \in R <=> m < n
  <2>1. e[m] \in K /\ e[n] \in K BY <1>2
  <2>2. <<e[m], e[n]>> \in R <=> RankIn(R, K, e[m]) < RankIn(R, K, e[n]) BY <2>1, RankGrows
  <2>3. RankIn(R, K, e[m]) = m - 1 /\ RankIn(R, K, e[n]) = n - 1 BY <1>2
  <2> QED BY <2>2, <2>3
<1>6. ASSUME NEW i \in K PROVE \E n \in 1 .. N : e[n] = i
  <2> DEFINE n == RankIn(R, K, i) + 1
  <2>0. RankIn(R, K, i) \in 0 .. Cardinality(K) - 1 BY RankGrows
  <2>1. n \in 1 .. N /\ RankIn(R, K, i) = n - 1 BY <1>1, <2>0
  <2>2. e[n] \in K /\ RankIn(R, K, e[n]) = RankIn(R, K, i) BY <1>2, <2>1
  <2>3. <<e[n], i>> \notin R /\ <<i, e[n]>> \notin R
    <3>1. ~(RankIn(R, K, i) < RankIn(R, K, i)) BY <1>1, <2>0
    <3> QED BY <2>2, <3>1, RankGrows
  <2>4. e[n] = i BY <2>2, <2>3 DEF Orders
  <2> QED BY <2>1, <2>4
<1>7. ASSUME NEW m \in 1 .. N, NEW n \in 1 .. N, e[m] = e[n] PROVE m = n
  <2>1. RankIn(R, K, e[m]) = m - 1 /\ RankIn(R, K, e[n]) = n - 1 BY <1>2
  <2> QED BY <1>7, <2>1
<1> QED BY <1>1, <1>4, <1>5, <1>6, <1>7 DEF e

-----------------------------------------------------------------------------
(* The calls                                                               *)

Kinds == {"sse", "execution", "blocking", "pipeline"}
CallOutcomes == {"open", "whole", "failed", "left"}
LoadStages == {"lookup", "purge", "select", "selected", "store"}
Events == {"chunk", "finish", "error", "done"}
CallRecord ==
    [stage : CallStages, kind : Kinds, team : Seq(Seeded), row : Agent \cup {Absent}, due : Nat,
     outcome : CallOutcomes]

RuntimeTypeInv ==
    /\ CatalogTypeOK
    /\ call \in [Calls -> CallRecord]
    /\ \A c \in Calls : call[c].stage \in LoadStages => call[c].team # <<>>
    /\ sent \in [Calls -> Seq(Events)]
    /\ status \in [Calls -> {"none", "running", "completed"}]
    /\ overtaken \subseteq Agents

\* The outcome of a call follows its stage, and the row of an execution both.
OutcomeFits(c) ==
    /\ call[c].stage \in LoadStages \cup {"idle", "loaded"} => call[c].outcome = "open"
    /\ call[c].kind = "execution" =>
         /\ call[c].stage = "closing" => call[c].outcome = "whole"
         /\ call[c].stage = "raised" => call[c].outcome = "failed"
         /\ status[c] = IF call[c].stage = "ended" /\ call[c].outcome = "whole" THEN "completed" ELSE "running"

\* Nothing but chunks before the end of a stream begins, and no [DONE] before it is the last event.
SentFits(c) ==
    /\ call[c].stage \in LoadStages \cup {"idle", "loaded"} => sent[c] \in Seq({"chunk"})
    /\ call[c].stage = "closing" => sent[c] \in Seq(Events \ {"done"})
    /\ call[c].stage = "idle" => sent[c] = <<>>

\* No entry outlives the time to live.  A former row is in an entry that expires within it after the
\* change, or was overtaken on its way there; a load has the row that is committed, or was overtaken.
CacheFresh ==
    \A a \in Agents :
        /\ configs[a].expires <= agentNow + ConfigTTL
        /\ \/ configs[a] = NoEntry
           \/ configs[a].row = agents[a]
           \/ configs[a].expires <= changedAt[a] + ConfigTTL
           \/ a \in overtaken
LoadFresh(c) ==
    /\ call[c].stage \in {"selected", "store"} => call[c].row = agents[Loading(c)] \/ Loading(c) \in overtaken
    /\ call[c].stage = "store" => call[c].due <= agentNow + ConfigTTL

RuntimeInv ==
    /\ RuntimeTypeInv /\ CacheFresh
    /\ \A c \in Calls : OutcomeFits(c) /\ SentFits(c) /\ LoadFresh(c)

-----------------------------------------------------------------------------
(* Types                                                                   *)

\* A record of a call, field by field, and with other fields.
CallOf(stage, kind, team, row, due, outcome) ==
    [stage |-> stage, kind |-> kind, team |-> team, row |-> row, due |-> due, outcome |-> outcome]

\* What a step makes of a call; the others stay as they are.
Becomes(c, stage, kind, team, row, due, outcome) ==
    /\ call' \in [Calls -> CallRecord]
    /\ call'[c] = CallOf(stage, kind, team, row, due, outcome)
    /\ \A d \in Calls \ {c} : call'[d] = call[d]

\* Says(c, event): the client is given the event; the others are given none.
Says(c, event) ==
    /\ sent' \in [Calls -> Seq(Events)]
    /\ sent'[c] = Append(sent[c], event)
    /\ \A d \in Calls \ {c} : sent'[d] = sent[d]

LEMMA CallTyped ==
    ASSUME RuntimeTypeInv, NEW c \in Calls
    PROVE  /\ call[c] \in CallRecord /\ call[c].stage \in CallStages /\ call[c].kind \in Kinds
           /\ call[c].team \in Seq(Seeded) /\ call[c].row \in Agent \cup {Absent} /\ call[c].due \in Nat
           /\ call[c].outcome \in CallOutcomes /\ sent[c] \in Seq(Events)
           /\ call[c].stage \in LoadStages => Loading(c) \in Agents
<1>1. call[c] \in CallRecord /\ sent[c] \in Seq(Events)
    BY DEF RuntimeTypeInv
<1>2. call[c].team \in Seq(Seeded) /\ (call[c].stage \in LoadStages => call[c].team # <<>>)
    BY <1>1 DEF RuntimeTypeInv, CallRecord
<1>3. call[c].stage \in LoadStages => Loading(c) \in Agents
    BY <1>2, CatalogAssumption DEF CatalogAssumption, Loading
<1>. QED BY <1>1, <1>3 DEF CallRecord

LEMMA SayTyped ==
    ASSUME RuntimeTypeInv, NEW c \in Calls, NEW event \in Events, Say(c, event)
    PROVE  Says(c, event)
    BY DEF RuntimeTypeInv, Say, Says

\* A new record of one call (orchestrator.py keeps the state of a call in its coroutine).
LEMMA Put ==
    ASSUME RuntimeTypeInv, NEW c \in Calls,
           NEW stage \in CallStages, NEW kind \in Kinds, NEW team \in Seq(Seeded),
           NEW row \in Agent \cup {Absent}, NEW due \in Nat, NEW outcome \in CallOutcomes,
           call' = [call EXCEPT ![c] = CallOf(stage, kind, team, row, due, outcome)]
    PROVE  Becomes(c, stage, kind, team, row, due, outcome)
<1>1. call \in [Calls -> CallRecord]
    BY DEF RuntimeTypeInv
<1>2. CallOf(stage, kind, team, row, due, outcome) \in CallRecord
    BY <1>1 DEF CallRecord, CallOf
<1>. QED BY <1>1, <1>2 DEF Becomes

LEMMA StageWith ==
    ASSUME NEW q \in CallRecord, NEW s
    PROVE  [q EXCEPT !.stage = s] =
             CallOf(s, q.kind, q.team, q.row, q.due, q.outcome)
<1>1. PICK s0, k0, t0, r0, d0, o0 :
        s0 = q.stage /\ k0 = q.kind /\ t0 = q.team /\ r0 = q.row /\ d0 = q.due /\ o0 = q.outcome
    OBVIOUS
<1>2. q = CallOf(s0, k0, t0, r0, d0, o0)
    BY <1>1 DEF CallRecord, CallOf
<1>3. PICK u : u = [q EXCEPT !.stage = s]
    OBVIOUS
<1>4. u = CallOf(s, k0, t0, r0, d0, o0)
    BY <1>3, <1>2 DEF CallOf
<1>. QED BY <1>1, <1>3, <1>4

LEMMA OutcomeWith ==
    ASSUME NEW q \in CallRecord, NEW s, NEW o
    PROVE  [[q EXCEPT !.stage = s] EXCEPT !.outcome = o] =
             CallOf(s, q.kind, q.team, q.row, q.due, o)
<1>1. PICK s0, k0, t0, r0, d0, o0 :
        s0 = q.stage /\ k0 = q.kind /\ t0 = q.team /\ r0 = q.row /\ d0 = q.due /\ o0 = q.outcome
    OBVIOUS
<1>2. q = CallOf(s0, k0, t0, r0, d0, o0)
    BY <1>1 DEF CallRecord, CallOf
<1>3. PICK u : u = [q EXCEPT !.stage = s]
    OBVIOUS
<1>4. u = CallOf(s, k0, t0, r0, d0, o0)
    BY <1>3, <1>2 DEF CallOf
<1>5. PICK v : v = [u EXCEPT !.outcome = o]
    OBVIOUS
<1>6. v = CallOf(s, k0, t0, r0, d0, o)
    BY <1>5, <1>4 DEF CallOf
<1>. QED BY <1>1, <1>3, <1>5, <1>6

LEMMA RowWith ==
    ASSUME NEW q \in CallRecord, NEW s, NEW r
    PROVE  [[q EXCEPT !.stage = s] EXCEPT !.row = r] =
             CallOf(s, q.kind, q.team, r, q.due, q.outcome)
<1>1. PICK s0, k0, t0, r0, d0, o0 :
        s0 = q.stage /\ k0 = q.kind /\ t0 = q.team /\ r0 = q.row /\ d0 = q.due /\ o0 = q.outcome
    OBVIOUS
<1>2. q = CallOf(s0, k0, t0, r0, d0, o0)
    BY <1>1 DEF CallRecord, CallOf
<1>3. PICK u : u = [q EXCEPT !.stage = s]
    OBVIOUS
<1>4. u = CallOf(s, k0, t0, r0, d0, o0)
    BY <1>3, <1>2 DEF CallOf
<1>5. PICK v : v = [u EXCEPT !.row = r]
    OBVIOUS
<1>6. v = CallOf(s, k0, t0, r, d0, o0)
    BY <1>5, <1>4 DEF CallOf
<1>. QED BY <1>1, <1>3, <1>5, <1>6

LEMMA DueWith ==
    ASSUME NEW q \in CallRecord, NEW s, NEW d
    PROVE  [[q EXCEPT !.stage = s] EXCEPT !.due = d] =
             CallOf(s, q.kind, q.team, q.row, d, q.outcome)
<1>1. PICK s0, k0, t0, r0, d0, o0 :
        s0 = q.stage /\ k0 = q.kind /\ t0 = q.team /\ r0 = q.row /\ d0 = q.due /\ o0 = q.outcome
    OBVIOUS
<1>2. q = CallOf(s0, k0, t0, r0, d0, o0)
    BY <1>1 DEF CallRecord, CallOf
<1>3. PICK u : u = [q EXCEPT !.stage = s]
    OBVIOUS
<1>4. u = CallOf(s, k0, t0, r0, d0, o0)
    BY <1>3, <1>2 DEF CallOf
<1>5. PICK v : v = [u EXCEPT !.due = d]
    OBVIOUS
<1>6. v = CallOf(s, k0, t0, r0, d, o0)
    BY <1>5, <1>4 DEF CallOf
<1>. QED BY <1>1, <1>3, <1>5, <1>6

LEMMA TeamWith ==
    ASSUME NEW q \in CallRecord, NEW t, NEW s
    PROVE  [[q EXCEPT !.team = t] EXCEPT !.stage = s] =
             CallOf(s, q.kind, t, q.row, q.due, q.outcome)
<1>1. PICK s0, k0, t0, r0, d0, o0 :
        s0 = q.stage /\ k0 = q.kind /\ t0 = q.team /\ r0 = q.row /\ d0 = q.due /\ o0 = q.outcome
    OBVIOUS
<1>2. q = CallOf(s0, k0, t0, r0, d0, o0)
    BY <1>1 DEF CallRecord, CallOf
<1>3. PICK u : u = [q EXCEPT !.team = t]
    OBVIOUS
<1>4. u = CallOf(s0, k0, t, r0, d0, o0)
    BY <1>3, <1>2 DEF CallOf
<1>5. PICK v : v = [u EXCEPT !.stage = s]
    OBVIOUS
<1>6. v = CallOf(s, k0, t, r0, d0, o0)
    BY <1>5, <1>4 DEF CallOf
<1>. QED BY <1>1, <1>3, <1>5, <1>6

\* The record of a call that has stored what it loaded.
Stored(q, t, s) == [[[[q EXCEPT !.team = t] EXCEPT !.stage = s] EXCEPT !.row = Absent] EXCEPT !.due = 0]

LEMMA StoreWith ==
    ASSUME NEW q \in CallRecord, NEW t, NEW s
    PROVE  Stored(q, t, s) = CallOf(s, q.kind, t, Absent, 0, q.outcome)
<1>1. PICK s0, k0, t0, r0, d0, o0 :
        s0 = q.stage /\ k0 = q.kind /\ t0 = q.team /\ r0 = q.row /\ d0 = q.due /\ o0 = q.outcome
    OBVIOUS
<1>2. q = CallOf(s0, k0, t0, r0, d0, o0)
    BY <1>1 DEF CallRecord, CallOf
<1>3. PICK u : u = [q EXCEPT !.team = t]
    OBVIOUS
<1>4. u = CallOf(s0, k0, t, r0, d0, o0)
    BY <1>3, <1>2 DEF CallOf
<1>5. PICK v : v = [u EXCEPT !.stage = s]
    OBVIOUS
<1>6. v = CallOf(s, k0, t, r0, d0, o0)
    BY <1>5, <1>4 DEF CallOf
<1>7. PICK w : w = [v EXCEPT !.row = Absent]
    OBVIOUS
<1>8. w = CallOf(s, k0, t, Absent, d0, o0)
    BY <1>7, <1>6 DEF CallOf
<1>9. PICK x : x = [w EXCEPT !.due = 0]
    OBVIOUS
<1>10. x = CallOf(s, k0, t, Absent, 0, o0)
    BY <1>9, <1>8 DEF CallOf
<1>. QED BY <1>1, <1>3, <1>5, <1>7, <1>9, <1>10 DEF Stored

LEMMA StageGoes ==
    ASSUME RuntimeTypeInv, NEW c \in Calls, NEW stage \in CallStages,
           call' = [call EXCEPT ![c].stage = stage]
    PROVE  Becomes(c, stage, call[c].kind, call[c].team, call[c].row, call[c].due, call[c].outcome)
<1>1. [call[c] EXCEPT !.stage = stage] =
        CallOf(stage, call[c].kind, call[c].team, call[c].row, call[c].due, call[c].outcome)
    BY CallTyped, StageWith
<1>. QED BY <1>1, CallTyped, Put

LEMMA OutcomeGoes ==
    ASSUME RuntimeTypeInv, NEW c \in Calls, NEW stage \in CallStages, NEW outcome \in CallOutcomes,
           call' = [call EXCEPT ![c].stage = stage, ![c].outcome = outcome]
    PROVE  Becomes(c, stage, call[c].kind, call[c].team, call[c].row, call[c].due, outcome)
<1>1. [[call[c] EXCEPT !.stage = stage] EXCEPT !.outcome = outcome] =
        CallOf(stage, call[c].kind, call[c].team, call[c].row, call[c].due, outcome)
  <2>1. PICK q \in CallRecord : q = call[c]
      BY CallTyped
  <2>2. [[q EXCEPT !.stage = stage] EXCEPT !.outcome = outcome] = CallOf(stage, q.kind, q.team, q.row, q.due, outcome)
      BY OutcomeWith
  <2>. QED BY <2>1, <2>2, Zenon
<1>2. call' = [call EXCEPT ![c] = [[call[c] EXCEPT !.stage = stage] EXCEPT !.outcome = outcome]]
    BY DEF RuntimeTypeInv
<1>. QED BY <1>1, <1>2, CallTyped, Put

LEMMA TeamTyped ==
    ASSUME RuntimeTypeInv, NEW c \in Calls, call[c].stage \in LoadStages
    PROVE  /\ call[c].team # <<>> /\ Tail(call[c].team) \in Seq(Seeded)
           /\ Loaded(call[c].team) \in CallStages
           /\ Loaded(call[c].team) \in LoadStages => Tail(call[c].team) # <<>>
<1>1. call[c].team \in Seq(Seeded) /\ call[c].team # <<>>
    BY CallTyped DEF RuntimeTypeInv
<1>2. Tail(call[c].team) \in Seq(Seeded)
    BY <1>1
<1>. QED BY <1>1, <1>2 DEF Loaded, CallStages, LoadStages

LEMMA TeamGoes ==
    ASSUME RuntimeTypeInv, NEW c \in Calls, call[c].stage = "lookup",
           call' = [call EXCEPT ![c].team = Tail(@), ![c].stage = Loaded(call[c].team)]
    PROVE  Becomes(c, Loaded(call[c].team), call[c].kind, Tail(call[c].team), call[c].row, call[c].due, call[c].outcome)
<1>. DEFINE stage == Loaded(call[c].team)
           team == Tail(call[c].team)
<1>1. team \in Seq(Seeded) /\ stage \in CallStages
    BY TeamTyped DEF LoadStages
<1>2. call' = [call EXCEPT ![c] = [[call[c] EXCEPT !.team = team] EXCEPT !.stage = stage]]
    BY DEF RuntimeTypeInv
<1>. HIDE DEF stage, team
<1>3. [[call[c] EXCEPT !.team = team] EXCEPT !.stage = stage] =
        CallOf(stage, call[c].kind, team, call[c].row, call[c].due, call[c].outcome)
    BY CallTyped, TeamWith
<1>4. Becomes(c, stage, call[c].kind, team, call[c].row, call[c].due, call[c].outcome)
    BY <1>1, <1>2, <1>3, CallTyped, Put
<1>. QED BY <1>4 DEF stage, team

LEMMA SelectGoes ==
    ASSUME RuntimeTypeInv, NEW c \in Calls, NEW row \in Agent \cup {Absent},
           call' = [call EXCEPT ![c].stage = "selected", ![c].row = row]
    PROVE  Becomes(c, "selected", call[c].kind, call[c].team, row, call[c].due, call[c].outcome)
<1>1. [[call[c] EXCEPT !.stage = "selected"] EXCEPT !.row = row] =
        CallOf("selected", call[c].kind, call[c].team, row, call[c].due, call[c].outcome)
    BY CallTyped, RowWith
<1>2. call' = [call EXCEPT ![c] = [[call[c] EXCEPT !.stage = "selected"] EXCEPT !.row = row]]
    BY DEF RuntimeTypeInv
<1>3. "selected" \in CallStages
    BY DEF CallStages
<1>. QED BY <1>1, <1>2, <1>3, CallTyped, Put

LEMMA DueGoes ==
    ASSUME RuntimeTypeInv, NEW c \in Calls, NEW due \in Nat,
           call' = [call EXCEPT ![c].stage = "store", ![c].due = due]
    PROVE  Becomes(c, "store", call[c].kind, call[c].team, call[c].row, due, call[c].outcome)
<1>1. [[call[c] EXCEPT !.stage = "store"] EXCEPT !.due = due] =
        CallOf("store", call[c].kind, call[c].team, call[c].row, due, call[c].outcome)
    BY CallTyped, DueWith
<1>2. call' = [call EXCEPT ![c] = [[call[c] EXCEPT !.stage = "store"] EXCEPT !.due = due]]
    BY DEF RuntimeTypeInv
<1>3. "store" \in CallStages
    BY DEF CallStages
<1>. QED BY <1>1, <1>2, <1>3, CallTyped, Put

LEMMA StoreGoes ==
    ASSUME RuntimeTypeInv, NEW c \in Calls, call[c].stage = "store",
           call' = [call EXCEPT ![c].team = Tail(@), ![c].stage = Loaded(call[c].team),
                                ![c].row = Absent, ![c].due = 0]
    PROVE  Becomes(c, Loaded(call[c].team), call[c].kind, Tail(call[c].team), Absent, 0, call[c].outcome)
<1>. DEFINE stage == Loaded(call[c].team)
           team == Tail(call[c].team)
           r == Stored(call[c], team, stage)
<1>1. team \in Seq(Seeded) /\ stage \in CallStages
    BY TeamTyped DEF LoadStages
<1>2. call' = [call EXCEPT ![c] = r]
    BY DEF RuntimeTypeInv, Stored
<1>. HIDE DEF stage, team
<1>3. r = CallOf(stage, call[c].kind, team, Absent, 0, call[c].outcome)
    BY CallTyped, StoreWith
<1>. HIDE DEF r
<1>4. Becomes(c, stage, call[c].kind, team, Absent, 0, call[c].outcome)
    BY <1>1, <1>2, <1>3, CallTyped, Put
<1>. QED BY <1>4 DEF stage, team

LEMMA BeginGoes ==
    ASSUME RuntimeTypeInv, NEW c \in Calls, NEW kind \in Kinds, NEW team \in Seq(Seeded),
           call' = [call EXCEPT ![c] = NewCall(kind, team)]
    PROVE  Becomes(c, "lookup", kind, team, Absent, 0, "open")
<1>1. NewCall(kind, team) = CallOf("lookup", kind, team, Absent, 0, "open")
    BY DEF NewCall, CallOf
<1>2. "lookup" \in CallStages /\ "open" \in CallOutcomes /\ 0 \in Nat
    BY DEF CallStages, CallOutcomes
<1>. QED BY <1>1, <1>2, Put

-----------------------------------------------------------------------------
(* One call's step                                                         *)

\* A step of call c leaves the others as they are, and the cache for any load of theirs.
LEMMA CallKeeps ==
    ASSUME RuntimeInv, NEW c \in Calls, CatalogTypeOK',
           NEW stage, NEW kind, NEW team, NEW row, NEW due, NEW outcome,
           Becomes(c, stage, kind, team, row, due, outcome), stage \in LoadStages => team # <<>>,
           sent' = sent \/ \E event \in Events : Says(c, event),
           status' = status \/ \E to \in {"running", "completed"} : status' = [status EXCEPT ![c] = to],
           UNCHANGED <<agents, agentNow, overtaken>>,
           CacheFresh', OutcomeFits(c)', SentFits(c)', LoadFresh(c)'
    PROVE  RuntimeInv'
<1>1. RuntimeTypeInv /\ \A d \in Calls : OutcomeFits(d) /\ SentFits(d) /\ LoadFresh(d)
    BY DEF RuntimeInv
<1>2. \A d \in Calls \ {c} : call'[d] = call[d] /\ sent'[d] = sent[d] /\ status'[d] = status[d]
    BY <1>1 DEF Becomes, Says, RuntimeTypeInv
<1>3. \A d \in Calls \ {c} : OutcomeFits(d)' /\ SentFits(d)' /\ LoadFresh(d)'
    BY <1>1, <1>2 DEF OutcomeFits, SentFits, LoadFresh, Loading
<1>4. call'[c].stage = stage /\ call'[c].team = team
    BY DEF Becomes, CallOf
<1>5. \A d \in Calls : call'[d].stage \in LoadStages => call'[d].team # <<>>
    BY <1>1, <1>2, <1>4 DEF RuntimeTypeInv
<1>6. /\ sent' \in [Calls -> Seq(Events)] /\ call' \in [Calls -> CallRecord]
      /\ status' \in [Calls -> {"none", "running", "completed"}]
    BY <1>1 DEF RuntimeTypeInv, Says, Becomes
<1>7. RuntimeTypeInv'
    BY <1>1, <1>5, <1>6 DEF RuntimeTypeInv
<1>. QED BY <1>3, <1>7 DEF RuntimeInv
LEMMA CatalogKept ==
    ASSUME RuntimeInv, UNCHANGED catalogVars, UNCHANGED overtaken
    PROVE  CatalogTypeOK' /\ CacheFresh' /\ UNCHANGED <<agents, agentNow, overtaken>>
    BY DEF RuntimeInv, RuntimeTypeInv, catalogVars, rowVars, CatalogTypeOK, CacheFresh

\* A call that begins (chat_completions.py:39 to 120, execution.py:118 to 170, orchestrator.py).
LEMMA BeginKeeps ==
    ASSUME RuntimeInv, NEW c \in Calls, CallBegins(c)
    PROVE  RuntimeInv'
<1>1. /\ UNCHANGED <<catalogVars, overtaken, sent>> /\ call[c].stage = "idle"
      /\ \E kind \in Kinds, team \in Seq(Seeded) :
            /\ team # <<>> /\ call' = [call EXCEPT ![c] = NewCall(kind, team)]
            /\ kind = "execution" => status' = [status EXCEPT ![c] = "running"]
            /\ kind # "execution" => status' = status
  <2>1. PICK a \in Seeded, b \in Seeded :
          ChatCompletions(c, a) \/ ExecutionBegins(c, a) \/ ExecuteBegins(c, a) \/ PipelineBegins(c, a, b)
      BY DEF CallBegins
  <2>2. <<a>> \in Seq(Seeded) /\ <<a>> # <<>> /\ <<a, b>> \in Seq(Seeded) /\ <<a, b>> # <<>>
      OBVIOUS
  <2>3. CASE ChatCompletions(c, a)
      BY <2>2, <2>3 DEF ChatCompletions, Kinds
  <2>4. CASE ExecutionBegins(c, a)
      BY <2>2, <2>4 DEF ExecutionBegins, Kinds
  <2>5. CASE ExecuteBegins(c, a)
      BY <2>2, <2>5 DEF ExecuteBegins, Kinds
  <2>6. CASE PipelineBegins(c, a, b)
      BY <2>2, <2>6 DEF PipelineBegins, Kinds
  <2>. QED BY <2>1, <2>3, <2>4, <2>5, <2>6
<1>2. PICK kind \in Kinds, team \in Seq(Seeded) :
        /\ team # <<>> /\ call' = [call EXCEPT ![c] = NewCall(kind, team)]
        /\ kind = "execution" => status' = [status EXCEPT ![c] = "running"]
        /\ kind # "execution" => status' = status
    BY <1>1
<1>3. RuntimeTypeInv /\ SentFits(c)
    BY DEF RuntimeInv
<1>4. Becomes(c, "lookup", kind, team, Absent, 0, "open")
    BY <1>2, <1>3, BeginGoes
<1>5. call'[c].stage = "lookup" /\ call'[c].kind = kind /\ call'[c].outcome = "open"
    BY <1>4 DEF Becomes, CallOf
<1>6. OutcomeFits(c)'
    BY <1>2, <1>3, <1>5 DEF OutcomeFits, RuntimeTypeInv
<1>7. SentFits(c)' /\ LoadFresh(c)'
    BY <1>1, <1>3, <1>5 DEF SentFits, LoadFresh, LoadStages
<1>8. status' = status \/ status' = [status EXCEPT ![c] = "running"]
    BY <1>2
<1>. QED BY <1>1, <1>2, <1>4, <1>6, <1>7, <1>8, CatalogKept, CallKeeps

\* An exception while the configuration is loaded or the model answers (orchestrator.py).
LEMMA RaiseKeeps ==
    ASSUME RuntimeInv, NEW c \in Calls, call[c].stage \in {"selected", "loaded"}, Raise(c),
           UNCHANGED <<catalogVars, status, overtaken>>
    PROVE  RuntimeInv'
<1>1. RuntimeTypeInv /\ SentFits(c) /\ OutcomeFits(c)
    BY DEF RuntimeInv
<1>2. call[c].stage \in LoadStages \cup {"idle", "loaded"} /\ call[c].stage # "ended"
    BY DEF LoadStages
<1>3. CASE call[c].kind = "sse"
  <2>1. call' = [call EXCEPT ![c].stage = "closing", ![c].outcome = "failed"] /\ Say(c, "error")
      BY <1>3 DEF Raise
  <2>2. Becomes(c, "closing", call[c].kind, call[c].team, call[c].row, call[c].due, "failed")
      BY <1>1, <2>1, OutcomeGoes DEF CallStages, CallOutcomes
  <2>3. Says(c, "error") /\ "error" \in Events
      BY <1>1, <2>1, SayTyped DEF Events
  <2>4. call'[c].stage = "closing" /\ call'[c].kind = "sse"
      BY <1>3, <2>2 DEF Becomes, CallOf
  <2>5. sent'[c] \in Seq(Events \ {"done"})
      BY <1>1, <1>2, <2>3 DEF SentFits, Says, Events
  <2>6. SentFits(c)' /\ OutcomeFits(c)' /\ LoadFresh(c)'
      BY <2>4, <2>5 DEF SentFits, OutcomeFits, LoadFresh, LoadStages
  <2>7. "closing" \notin LoadStages
      BY DEF LoadStages
  <2>. QED BY <2>2, <2>3, <2>6, <2>7, CatalogKept, CallKeeps
<1>4. CASE call[c].kind # "sse"
  <2>1. call' = [call EXCEPT ![c].stage = "raised", ![c].outcome = "failed"] /\ sent' = sent
      BY <1>4 DEF Raise
  <2>2. Becomes(c, "raised", call[c].kind, call[c].team, call[c].row, call[c].due, "failed")
      BY <1>1, <2>1, OutcomeGoes DEF CallStages, CallOutcomes
  <2>3. call'[c].stage = "raised" /\ call'[c].kind = call[c].kind /\ call'[c].outcome = "failed"
      BY <2>2 DEF Becomes, CallOf
  <2>4. SentFits(c)' /\ OutcomeFits(c)' /\ LoadFresh(c)'
      BY <1>1, <1>2, <2>3 DEF SentFits, OutcomeFits, LoadFresh, LoadStages
  <2>5. "raised" \notin LoadStages
      BY DEF LoadStages
  <2>. QED BY <2>1, <2>2, <2>4, <2>5, CatalogKept, CallKeeps
<1>. QED BY <1>3, <1>4

\* The steps of a load that change nothing but the call (orchestrator.py, _load_agent_config).
LEMMA LoadKeeps ==
    ASSUME RuntimeInv, NEW c \in Calls,
           \/ LoadHits(c) \/ LoadMisses(c) \/ LoadSelects(c) \/ LoadFails(c) \/ LoadResumes(c)
    PROVE  RuntimeInv'
<1>1. RuntimeTypeInv /\ SentFits(c) /\ OutcomeFits(c) /\ LoadFresh(c)
    BY DEF RuntimeInv
<1>2. ASSUME NEW stage \in LoadStages \cup {"loaded"}, NEW team, NEW row, NEW due,
             Becomes(c, stage, call[c].kind, team, row, due, call[c].outcome),
             call[c].stage \in LoadStages, UNCHANGED <<catalogVars, sent, status, overtaken>>,
             stage \in LoadStages => team # <<>>,
             stage \in {"selected", "store"} => row = agents[Head(team)] \/ Head(team) \in overtaken,
             stage = "store" => due <= agentNow + ConfigTTL
      PROVE  RuntimeInv'
  <2>1. /\ call'[c].stage = stage /\ call'[c].kind = call[c].kind /\ call'[c].outcome = call[c].outcome
        /\ call'[c].team = team /\ call'[c].row = row /\ call'[c].due = due
      BY <1>2 DEF Becomes, CallOf
  <2>2. call[c].stage \notin {"closing", "raised", "ended"} /\ stage \notin {"closing", "raised", "ended", "idle"}
      BY <1>2 DEF LoadStages
  <2>3. UNCHANGED <<agents, agentNow, overtaken>>
      BY <1>2, CatalogKept
  <2>4. OutcomeFits(c)' /\ SentFits(c)'
      BY <1>1, <1>2, <2>1, <2>2 DEF OutcomeFits, SentFits
  <2>5. LoadFresh(c)'
      BY <1>2, <2>1, <2>3 DEF LoadFresh, Loading
  <2>. QED BY <1>2, <2>4, <2>5, CatalogKept, CallKeeps
<1>3. CASE LoadHits(c)
  <2>1. Becomes(c, Loaded(call[c].team), call[c].kind, Tail(call[c].team), call[c].row, call[c].due, call[c].outcome)
      BY <1>1, <1>3, TeamGoes DEF LoadHits
  <2>2. Loaded(call[c].team) \in {"lookup", "loaded"} /\ call[c].stage \in LoadStages
      BY <1>3 DEF Loaded, LoadHits, LoadStages
  <2>3. Loaded(call[c].team) \in LoadStages => Tail(call[c].team) # <<>>
      BY <1>1, <2>2, TeamTyped
  <2>4. Loaded(call[c].team) \in LoadStages \cup {"loaded"} /\ Loaded(call[c].team) \notin {"selected", "store"}
      BY <2>2 DEF LoadStages
  <2>5. UNCHANGED <<catalogVars, sent, status, overtaken>>
      BY <1>3 DEF LoadHits
  <2>6. PICK stage, team : stage = Loaded(call[c].team) /\ team = Tail(call[c].team)
      OBVIOUS
  <2>7. /\ Becomes(c, stage, call[c].kind, team, call[c].row, call[c].due, call[c].outcome)
        /\ stage \in LoadStages \cup {"loaded"} /\ stage \notin {"selected", "store"}
        /\ stage \in LoadStages => team # <<>>
      BY <2>1, <2>3, <2>4, <2>6
  <2>. QED BY <1>2, <2>2, <2>5, <2>7 DEF LoadStages
<1>4. CASE LoadMisses(c)
  <2>1. PICK next \in {"select", "purge"} : call' = [call EXCEPT ![c].stage = next]
      BY <1>4 DEF LoadMisses
  <2>2. Becomes(c, next, call[c].kind, call[c].team, call[c].row, call[c].due, call[c].outcome)
      BY <1>1, <2>1, StageGoes DEF CallStages
  <2>3. call[c].team # <<>> /\ call[c].stage \in LoadStages
      BY <1>1, <1>4 DEF LoadMisses, RuntimeTypeInv, LoadStages
  <2>. QED BY <1>2, <1>4, <2>2, <2>3 DEF LoadMisses, LoadStages
<1>5. CASE LoadSelects(c)
  <2>1. call[c].team # <<>> /\ call[c].stage \in LoadStages /\ Loading(c) \in Agents
      BY <1>1, <1>5, CallTyped DEF LoadSelects, RuntimeTypeInv, LoadStages
  <2>2. agents[Loading(c)] \in Agent \cup {Absent}
      BY <1>1, <2>1 DEF RuntimeTypeInv, CatalogTypeOK
  <2>3. Becomes(c, "selected", call[c].kind, call[c].team, agents[Loading(c)], call[c].due, call[c].outcome)
      BY <1>1, <1>5, <2>2, SelectGoes DEF LoadSelects
  <2>. QED BY <1>2, <1>5, <2>1, <2>3 DEF LoadSelects, LoadStages, Loading
<1>6. CASE LoadFails(c)
    BY <1>6, RaiseKeeps DEF LoadFails
<1>7. CASE LoadResumes(c)
  <2>1. agentNow + ConfigTTL \in Nat
      BY <1>1, CatalogAssumption DEF RuntimeTypeInv, CatalogTypeOK, CatalogAssumption
  <2>2. Becomes(c, "store", call[c].kind, call[c].team, call[c].row, agentNow + ConfigTTL, call[c].outcome)
      BY <1>1, <1>7, <2>1, DueGoes DEF LoadResumes
  <2>3. call[c].team # <<>> /\ call[c].stage \in LoadStages
      BY <1>1, <1>7 DEF LoadResumes, RuntimeTypeInv, LoadStages
  <2>4. call[c].row = agents[Head(call[c].team)] \/ Head(call[c].team) \in overtaken
      BY <1>1, <1>7 DEF LoadResumes, LoadFresh, Loading
  <2>. QED BY <1>2, <1>7, <2>1, <2>2, <2>3, <2>4 DEF LoadResumes, LoadStages
<1>. QED BY <1>3, <1>4, <1>5, <1>6, <1>7
\* The steps of a load that write the cache (agent_config_cache.py).
LEMMA CacheKeeps ==
    ASSUME RuntimeInv, NEW c \in Calls, LoadPurges(c) \/ LoadStores(c)
    PROVE  RuntimeInv'
<1>1. RuntimeTypeInv /\ CacheFresh /\ SentFits(c) /\ OutcomeFits(c) /\ LoadFresh(c)
    BY DEF RuntimeInv
<1>2. /\ UNCHANGED <<rowVars, agentNow, sent, status, overtaken>> /\ call[c].stage \in LoadStages
      /\ call[c].team # <<>> /\ Loading(c) \in Agents
    BY <1>1, CallTyped DEF LoadPurges, LoadStores, RuntimeTypeInv, LoadStages
<1>3. ASSUME NEW entry \in [row : Agent \cup {Absent}, expires : Nat],
             configs' = [configs EXCEPT ![Loading(c)] = entry] \/ configs' = configs,
             entry.expires <= agentNow + ConfigTTL,
             entry = NoEntry \/ entry.row = agents[Loading(c)] \/ Loading(c) \in overtaken
      PROVE  CatalogTypeOK' /\ CacheFresh'
  <2>1. CatalogTypeOK'
      BY <1>1, <1>2, <1>3, ZenonT(30) DEF RuntimeTypeInv, CatalogTypeOK, rowVars
  <2>2. configs'[Loading(c)] \in {entry, configs[Loading(c)]} /\ \A a \in Agents \ {Loading(c)} : configs'[a] = configs[a]
      BY <1>1, <1>2, <1>3 DEF RuntimeTypeInv, CatalogTypeOK
  <2>3. UNCHANGED <<agents, agentNow, changedAt, overtaken>>
      BY <1>2 DEF rowVars
  <2>4. CacheFresh'
      BY <1>1, <1>3, <2>2, <2>3 DEF CacheFresh
  <2>. QED BY <2>1, <2>4
<1>4. UNCHANGED <<agents, agentNow, overtaken>>
    BY <1>2 DEF rowVars
<1>5. CASE LoadPurges(c)
  <2>1. NoEntry \in [row : Agent \cup {Absent}, expires : Nat] /\ NoEntry.expires <= agentNow + ConfigTTL
      BY <1>1, CatalogAssumption DEF NoEntry, RuntimeTypeInv, CatalogTypeOK, CatalogAssumption
  <2>2. CatalogTypeOK' /\ CacheFresh'
      BY <1>3, <1>5, <2>1 DEF LoadPurges, ConfigPurged
  <2>3. Becomes(c, "select", call[c].kind, call[c].team, call[c].row, call[c].due, call[c].outcome)
      BY <1>1, <1>5, StageGoes DEF LoadPurges, CallStages
  <2>4. call'[c].stage = "select" /\ call'[c].kind = call[c].kind /\ call'[c].outcome = call[c].outcome
      BY <2>3 DEF Becomes, CallOf
  <2>5. OutcomeFits(c)' /\ SentFits(c)' /\ LoadFresh(c)'
      BY <1>1, <1>2, <2>4 DEF OutcomeFits, SentFits, LoadFresh, LoadStages
  <2>. QED BY <1>2, <1>4, <2>2, <2>3, <2>5, CallKeeps
<1>6. CASE LoadStores(c)
  <2>1. PICK entry : entry = [row |-> call[c].row, expires |-> call[c].due]
      OBVIOUS
  <2>2. /\ entry \in [row : Agent \cup {Absent}, expires : Nat] /\ entry.expires <= agentNow + ConfigTTL
        /\ entry.row = agents[Loading(c)] \/ Loading(c) \in overtaken
      BY <1>1, <1>6, <2>1, CallTyped DEF LoadStores, LoadFresh
  <2>3. CatalogTypeOK' /\ CacheFresh'
      BY <1>3, <1>6, <2>1, <2>2 DEF LoadStores, ConfigStored
  <2>4. PICK stage, team : stage = Loaded(call[c].team) /\ team = Tail(call[c].team)
      OBVIOUS
  <2>5. Becomes(c, stage, call[c].kind, team, Absent, 0, call[c].outcome)
      BY <1>1, <1>6, <2>4, StoreGoes DEF LoadStores
  <2>6. stage \in {"lookup", "loaded"} /\ (stage \in LoadStages => team # <<>>)
      BY <1>1, <1>2, <2>4, TeamTyped DEF Loaded
  <2>7. call'[c].stage = stage /\ call'[c].kind = call[c].kind /\ call'[c].outcome = call[c].outcome
      BY <2>5 DEF Becomes, CallOf
  <2>8. OutcomeFits(c)' /\ SentFits(c)' /\ LoadFresh(c)'
      BY <1>1, <1>2, <2>6, <2>7 DEF OutcomeFits, SentFits, LoadFresh, LoadStages
  <2>. QED BY <1>2, <1>4, <2>3, <2>5, <2>6, <2>8, CallKeeps
<1>. QED BY <1>5, <1>6

\* A call that ends, or whose stream closes, without another event (execution.py:190 to 215).
LEMMA EndKeeps ==
    ASSUME RuntimeInv, NEW c \in Calls, NEW stage \in {"closing", "ended"}, NEW outcome \in CallOutcomes,
           call' = [call EXCEPT ![c].stage = stage, ![c].outcome = outcome],
           UNCHANGED <<catalogVars, sent, status, overtaken>>,
           stage = "closing" => outcome = "whole" /\ call[c].stage = "loaded",
           call[c].kind = "execution" => call[c].stage # "ended" /\ (stage = "ended" => outcome # "whole")
    PROVE  RuntimeInv'
<1>1. RuntimeTypeInv /\ SentFits(c) /\ OutcomeFits(c)
    BY DEF RuntimeInv
<1>2. Becomes(c, stage, call[c].kind, call[c].team, call[c].row, call[c].due, outcome)
    BY <1>1, OutcomeGoes DEF CallStages
<1>3. call'[c].stage = stage /\ call'[c].kind = call[c].kind /\ call'[c].outcome = outcome
    BY <1>2 DEF Becomes, CallOf
<1>4. stage \notin LoadStages \cup {"idle", "loaded", "raised"}
    BY DEF LoadStages
<1>5. OutcomeFits(c)'
    BY <1>1, <1>3, <1>4 DEF OutcomeFits, RuntimeTypeInv
<1>6. sent[c] \in Seq({"chunk"}) => sent[c] \in Seq(Events \ {"done"})
    BY DEF Events
<1>7. SentFits(c)' /\ LoadFresh(c)'
    BY <1>1, <1>3, <1>4, <1>6 DEF SentFits, LoadFresh, LoadStages
<1>. QED BY <1>2, <1>4, <1>5, <1>7, CatalogKept, CallKeeps

\* The answer of the model, and the ends of a call.
LEMMA AnswerKeeps ==
    ASSUME RuntimeInv, NEW c \in Calls,
           \/ StreamChunk(c) \/ StreamFinishes(c) \/ StreamStops(c) \/ StreamFails(c) \/ StreamCloses(c)
           \/ ExecutionCompletes(c) \/ ExecutionFails(c) \/ ExecuteAnswers(c) \/ PipelineAnswers(c)
           \/ ClientLeaves(c)
    PROVE  RuntimeInv'
<1>1. RuntimeTypeInv /\ SentFits(c) /\ OutcomeFits(c) /\ LoadFresh(c)
    BY DEF RuntimeInv
<1>2. ASSUME NEW event \in {"chunk", "finish", "done"}, Say(c, event), NEW stage, NEW outcome,
             Becomes(c, stage, call[c].kind, call[c].team, call[c].row, call[c].due, outcome),
             \/ event = "chunk" /\ call[c].stage = "loaded" /\ stage = "loaded" /\ outcome = call[c].outcome
             \/ event = "finish" /\ call[c].stage = "loaded" /\ stage = "closing" /\ outcome = "whole"
             \/ event = "done" /\ stage = "ended" /\ call[c].kind = "sse",
             UNCHANGED <<catalogVars, status, overtaken>>
      PROVE  RuntimeInv'
  <2>1. call'[c].stage = stage /\ call'[c].kind = call[c].kind /\ call'[c].outcome = outcome
      BY <1>2 DEF Becomes, CallOf
  <2>2. Says(c, event) /\ event \in Events
      BY <1>1, <1>2, SayTyped DEF Events
  <2>3. stage \in {"loaded", "closing", "ended"} /\ stage \notin LoadStages
      BY <1>2 DEF LoadStages
  <2>4. OutcomeFits(c)' /\ LoadFresh(c)'
      BY <1>1, <1>2, <2>1, <2>3 DEF OutcomeFits, LoadFresh, LoadStages
  <2>5. /\ sent[c] \in Seq({"chunk"}) => Append(sent[c], "chunk") \in Seq({"chunk"})
        /\ sent[c] \in Seq({"chunk"}) => Append(sent[c], "finish") \in Seq(Events \ {"done"})
      BY DEF Events
  <2>6. SentFits(c)'
      BY <1>1, <1>2, <2>1, <2>2, <2>3, <2>5 DEF SentFits, Says, LoadStages
  <2>. QED BY <1>2, <2>2, <2>3, <2>4, <2>6, CatalogKept, CallKeeps
<1>3. CASE StreamChunk(c)
  <2>1. Becomes(c, "loaded", call[c].kind, call[c].team, call[c].row, call[c].due, call[c].outcome)
    <3>1. call \in [Calls -> CallRecord] /\ call[c] \in CallRecord /\ call' = call /\ call[c].stage = "loaded"
        BY <1>1, <1>3 DEF RuntimeTypeInv, StreamChunk
    <3>. QED BY <3>1 DEF Becomes, CallRecord, CallOf
  <2>. QED BY <1>2, <1>3, <2>1 DEF StreamChunk
<1>4. CASE StreamFinishes(c)
  <2>1. Becomes(c, "closing", call[c].kind, call[c].team, call[c].row, call[c].due, "whole")
      BY <1>1, <1>4, OutcomeGoes DEF StreamFinishes, CallStages, CallOutcomes
  <2>. QED BY <1>2, <1>4, <2>1 DEF StreamFinishes
<1>5. CASE StreamCloses(c)
  <2>1. Becomes(c, "ended", call[c].kind, call[c].team, call[c].row, call[c].due, call[c].outcome)
      BY <1>1, <1>5, StageGoes DEF StreamCloses, CallStages
  <2>. QED BY <1>2, <1>5, <2>1 DEF StreamCloses
<1>6. CASE StreamStops(c)
    BY <1>6, EndKeeps DEF StreamStops, CallOutcomes
<1>7. CASE StreamFails(c)
    BY <1>7, RaiseKeeps DEF StreamFails
<1>8. CASE ExecutionCompletes(c) \/ ExecutionFails(c)
  <2>1. call' = [call EXCEPT ![c].stage = "ended"] /\ UNCHANGED <<catalogVars, sent, overtaken>>
      BY <1>8 DEF ExecutionCompletes, ExecutionFails
  <2>2. Becomes(c, "ended", call[c].kind, call[c].team, call[c].row, call[c].due, call[c].outcome)
      BY <1>1, <2>1, StageGoes DEF CallStages
  <2>3. call'[c].stage = "ended" /\ call'[c].kind = call[c].kind /\ call'[c].outcome = call[c].outcome
      BY <2>2 DEF Becomes, CallOf
  <2>4. OutcomeFits(c)' /\ (status' = status \/ status' = [status EXCEPT ![c] = "completed"])
      BY <1>1, <1>8, <2>3 DEF OutcomeFits, ExecutionCompletes, ExecutionFails, RuntimeTypeInv, LoadStages
  <2>5. SentFits(c)' /\ LoadFresh(c)' /\ "ended" \notin LoadStages
      BY <2>3 DEF SentFits, LoadFresh, LoadStages
  <2>. QED BY <2>1, <2>2, <2>4, <2>5, CatalogKept, CallKeeps
<1>9. CASE ExecuteAnswers(c) \/ PipelineAnswers(c)
    BY <1>9, RaiseKeeps, EndKeeps DEF ExecuteAnswers, PipelineAnswers, CallOutcomes
<1>10. CASE ClientLeaves(c)
    BY <1>10, EndKeeps DEF ClientLeaves, CallOutcomes
<1>. QED BY <1>3, <1>4, <1>5, <1>6, <1>7, <1>8, <1>9, <1>10
-----------------------------------------------------------------------------
(* Changes of the agents' rows                                             *)

\* A change of rows is a commit of one row, or leaves the rows alone (agents.py, agent_service.py).
LEMMA RowsChange ==
    ASSUME CatalogTypeOK, CatalogStep
    PROVE  /\ CatalogTypeOK' /\ configs' = configs
           /\ \/ UNCHANGED <<agents, changedAt>> /\ agentNow' \in {agentNow, agentNow + 1}
              \/ \E a \in Agents, row \in Agent \cup {Absent} : Commit(a, row)
<1>1. \/ AgentTick
      \/ \E d \in Deletes : deleting' = [deleting EXCEPT ![d] = NoAgent] /\ agentNow' = agentNow
                               /\ UNCHANGED <<agents, edits, changedAt, configs>>
      \/ \E d \in Deletes, a \in Agents : DeleteChecks(d, a)
      \/ /\ \E a \in Agents, row \in Agent \cup {Absent} : Commit(a, row)
         /\ deleting' = deleting \/ \E d \in Deletes : deleting' = [deleting EXCEPT ![d] = NoAgent]
  <2>1. ASSUME NEW d \in Deletes, DeleteEnds(d)
        PROVE  /\ deleting' = [deleting EXCEPT ![d] = NoAgent] /\ deleting[d] \in Agents
               /\ \/ Commit(deleting[d], Absent)
                  \/ UNCHANGED <<agents, edits, changedAt, configs, agentNow>>
      BY <2>1 DEF DeleteEnds, CatalogTypeOK
  <2>2. ASSUME NEW a \in Agents, NEW statuses \in SUBSET AgentStatus, NEW config \in Nat,
               Rewrite(a, statuses, config)
        PROVE  (\E row \in Agent \cup {Absent} : Commit(a, row)) /\ deleting' = deleting
      BY <2>2 DEF Rewrite, Agent
  <2>3. \A a \in Agents : agents[a] # Absent => agents[a].status \in AgentStatus /\ agents[a].config \in Nat
      BY DEF CatalogTypeOK, Agent
  <2>4. edits + 1 \in Nat
      BY DEF CatalogTypeOK
  <2>5. NewStatuses \subseteq AgentStatus
      BY CatalogAssumption DEF CatalogAssumption, AgentStatus
  <2>6. ASSUME NEW a \in Agents,
               \/ CreateAgent(a) \/ UpdateAgent(a) \/ ActivateAgent(a) \/ PauseAgent(a)
               \/ UpdateCapabilities(a) \/ UpdateKnowledge(a) \/ \E b \in Agents : DuplicateAgent(a, b)
        PROVE  (\E b \in Agents, row \in Agent \cup {Absent} : Commit(b, row)) /\ deleting' = deleting
    <3>1. CASE CreateAgent(a)
        BY <2>4, <3>1 DEF CreateAgent, Agent, AgentStatus
    <3>2. CASE UpdateAgent(a)
      <4>1. agents[a] # Absent
          BY <3>2 DEF UpdateAgent, Rewrite
      <4>2. NewStatuses \cup {agents[a].status} \in SUBSET AgentStatus
          BY <2>3, <2>5, <4>1
      <4>. QED BY <2>2, <2>4, <3>2, <4>2 DEF UpdateAgent
    <3>3. CASE ActivateAgent(a) \/ PauseAgent(a) \/ UpdateCapabilities(a) \/ UpdateKnowledge(a)
      <4>1. agents[a] # Absent
          BY <3>3 DEF ActivateAgent, PauseAgent, UpdateCapabilities, UpdateKnowledge, Rewrite
      <4>2. {"active"} \in SUBSET AgentStatus /\ {"paused"} \in SUBSET AgentStatus /\ {agents[a].status} \in SUBSET AgentStatus
          BY <2>3, <4>1 DEF AgentStatus
      <4>. QED BY <2>2, <2>3, <2>4, <3>3, <4>1, <4>2 DEF ActivateAgent, PauseAgent, UpdateCapabilities, UpdateKnowledge
    <3>4. CASE \E b \in Agents : DuplicateAgent(a, b)
      <4>1. PICK b \in Agents : DuplicateAgent(a, b)
          BY <3>4
      <4>2. [status |-> "draft", config |-> agents[a].config] \in Agent
          BY <2>3, <4>1 DEF DuplicateAgent, Agent, AgentStatus
      <4>. QED BY <4>1, <4>2 DEF DuplicateAgent
    <3>. QED BY <2>6, <3>1, <3>2, <3>3, <3>4
  <2>. QED BY <2>1, <2>6 DEF CatalogStep
<1>2. CASE AgentTick
    BY <1>2 DEF AgentTick, CatalogTypeOK, rowVars
<1>3. CASE \/ \E d \in Deletes : deleting' = [deleting EXCEPT ![d] = NoAgent] /\ agentNow' = agentNow
                               /\ UNCHANGED <<agents, edits, changedAt, configs>>
           \/ \E d \in Deletes, a \in Agents : DeleteChecks(d, a)
    BY <1>3 DEF DeleteChecks, CatalogTypeOK
<1>4. ASSUME NEW a \in Agents, NEW row \in Agent \cup {Absent}, Commit(a, row),
             deleting' = deleting \/ \E d \in Deletes : deleting' = [deleting EXCEPT ![d] = NoAgent]
      PROVE  CatalogTypeOK' /\ configs' = configs
    BY <1>4 DEF Commit, CatalogTypeOK
<1>. QED BY <1>1, <1>2, <1>3, <1>4

LEMMA RowsKeep ==
    ASSUME RuntimeInv, CatalogStep,
           overtaken' = overtaken \cup {a \in BeingLoaded : agents'[a] # agents[a]},
           UNCHANGED <<call, sent, status>>
    PROVE  RuntimeInv'
<1>1. RuntimeTypeInv /\ CatalogTypeOK /\ CacheFresh /\ \A c \in Calls : OutcomeFits(c) /\ SentFits(c) /\ LoadFresh(c)
    BY DEF RuntimeInv, RuntimeTypeInv
<1>2. /\ CatalogTypeOK' /\ configs' = configs
      /\ \/ UNCHANGED <<agents, changedAt>> /\ agentNow' \in {agentNow, agentNow + 1}
         \/ \E a \in Agents, row \in Agent \cup {Absent} : Commit(a, row)
    BY <1>1, RowsChange
<1>3. /\ agentNow \in Nat /\ agentNow' \in Nat /\ agentNow <= agentNow' /\ ConfigTTL \in Nat
      /\ \A a \in Agents : configs[a].expires \in Nat
      /\ \A a \in Agents : (agents'[a] = agents[a] /\ changedAt'[a] = changedAt[a]) \/ changedAt'[a] = agentNow
    BY <1>1, <1>2, CatalogAssumption DEF CatalogTypeOK, CatalogAssumption, Commit
<1>4. CacheFresh'
    BY <1>1, <1>2, <1>3 DEF CacheFresh
<1>5. ASSUME NEW c \in Calls PROVE OutcomeFits(c)' /\ SentFits(c)' /\ LoadFresh(c)'
  <2>1. OutcomeFits(c)' /\ SentFits(c)'
      BY <1>1 DEF OutcomeFits, SentFits
  <2>2. call[c].stage \in {"selected", "store"} => Loading(c) \in BeingLoaded
      BY DEF BeingLoaded
  <2>3. call[c].due \in Nat /\ Loading(c)' = Loading(c)
      BY <1>1, CallTyped DEF Loading
  <2>4. LoadFresh(c)'
      BY <1>1, <1>3, <2>2, <2>3 DEF LoadFresh
  <2>. QED BY <2>1, <2>4
<1>6. BeingLoaded \subseteq Agents
    BY <1>1, CallTyped DEF BeingLoaded, LoadStages
<1>7. RuntimeTypeInv'
    BY <1>1, <1>2, <1>6 DEF RuntimeTypeInv
<1>. QED BY <1>4, <1>5, <1>7 DEF RuntimeInv

-----------------------------------------------------------------------------
(* The theorems                                                            *)

LEMMA RuntimeStep == RuntimeInv /\ [RuntimeNext]_runtimeVars => RuntimeInv'
<1>. SUFFICES ASSUME RuntimeInv, [RuntimeNext]_runtimeVars PROVE RuntimeInv'
    OBVIOUS
<1>1. CASE UNCHANGED runtimeVars
    BY <1>1 DEF runtimeVars, catalogVars, rowVars, RuntimeInv, RuntimeTypeInv, CatalogTypeOK, CacheFresh,
                OutcomeFits, SentFits, LoadFresh, Loading
<1>2. CASE RuntimeNext
    BY <1>2, BeginKeeps, LoadKeeps, CacheKeeps, AnswerKeeps, RowsKeep DEF RuntimeNext, CallStep
<1>. QED BY <1>1, <1>2

LEMMA RuntimeStart == RuntimeInit => RuntimeInv
<1>. SUFFICES ASSUME RuntimeInit PROVE RuntimeInv
    OBVIOUS
<1>1. CatalogTypeOK
    BY DEF RuntimeInit, CatalogInit, CatalogTypeOK, Agent, AgentStatus, Absent, NoEntry
<1>2. NoCall = CallOf("idle", "sse", <<>>, Absent, 0, "open")
    BY DEF NoCall, NewCall, CallOf
<1>3. NoCall \in CallRecord /\ NoCall.stage = "idle" /\ NoCall.kind = "sse" /\ NoCall.outcome = "open"
    BY <1>2 DEF CallRecord, CallOf, CallStages, Kinds, CallOutcomes
<1>4. /\ call = [c \in Calls |-> NoCall] /\ sent = [c \in Calls |-> <<>>]
      /\ status = [c \in Calls |-> "none"] /\ overtaken = {}
    BY DEF RuntimeInit
<1>5. RuntimeTypeInv
    BY <1>1, <1>3, <1>4 DEF RuntimeTypeInv, LoadStages
<1>6. CacheFresh
  <2>1. NoEntry.expires = 0 /\ 0 <= 0 + ConfigTTL
      BY CatalogAssumption DEF NoEntry, CatalogAssumption
  <2>2. agentNow = 0 /\ \A a \in Agents : configs[a] = NoEntry
      BY DEF RuntimeInit, CatalogInit
  <2>. QED BY <2>1, <2>2 DEF CacheFresh
<1>7. \A c \in Calls : OutcomeFits(c) /\ SentFits(c) /\ LoadFresh(c)
    BY <1>3, <1>4 DEF OutcomeFits, SentFits, LoadFresh
<1>. QED BY <1>5, <1>6, <1>7 DEF RuntimeInv

LEMMA RuntimeInvariant == RuntimeSpec => []RuntimeInv
    BY RuntimeStart, RuntimeStep, PTL DEF RuntimeSpec

\* Whatever fails, and whenever clients leave: the row of an execution that has ended says COMPLETED
\* exactly when its stream ran to its end, and RUNNING otherwise (execution.py:190 to 215).
THEOREM OutcomeTold == RuntimeSpec => []StatusTellsOutcome
<1>1. RuntimeInv => StatusTellsOutcome
    BY DEF RuntimeInv, OutcomeFits, StatusTellsOutcome
<1>. QED BY <1>1, RuntimeInvariant, PTL
\* A cached configuration that is used is the agent's row, or was so until less than the time to live ago,
\* or was overtaken by a change between its load's SELECT and its write (agent_config_cache.py).
LEMMA HitIsFresh ==
    ASSUME RuntimeInv, NEW c \in Calls, LoadHits(c)
    PROVE  LET a == Loading(c) IN
             \/ configs[a].row = agents[a] \/ agentNow < changedAt[a] + ConfigTTL \/ a \in overtaken
<1>1. RuntimeTypeInv /\ CacheFresh /\ CatalogTypeOK
    BY DEF RuntimeInv, RuntimeTypeInv
<1>2. PICK a \in Agents : a = Loading(c)
    BY <1>1, CallTyped DEF LoadHits, LoadStages
<1>3. configs[a] # NoEntry /\ configs[a].expires > agentNow
    BY <1>2 DEF LoadHits, ConfigCached
<1>4. configs[a].expires \in Nat /\ agentNow \in Nat /\ changedAt[a] \in Nat /\ ConfigTTL \in Nat
    BY <1>1, CatalogAssumption DEF CatalogTypeOK, CatalogAssumption
<1>. QED BY <1>1, <1>2, <1>3, <1>4 DEF CacheFresh

\* Only a hit goes on without a SELECT.
LEMMA OthersLook ==
    ASSUME RuntimeInv, NEW c \in Calls, NEW d \in Calls, call[c].stage = "lookup",
           CallBegins(d) \/ CallStep(d) \/ StreamChunk(d) \/ ClientLeaves(d),
           call'[c].stage \in {"lookup", "loaded"}, call'[c] # call[c]
    PROVE  LoadHits(c)
<1>1. call \in [Calls -> CallRecord]
    BY DEF RuntimeInv, RuntimeTypeInv
<1>2. c = d
    BY <1>1 DEF CallBegins, ChatCompletions, ExecutionBegins, ExecuteBegins, PipelineBegins, CallStep, LoadHits,
                LoadMisses, LoadPurges, LoadSelects, LoadFails, LoadResumes, LoadStores, StreamFinishes,
                StreamStops, StreamFails, StreamCloses, ExecutionCompletes, ExecutionFails, ExecuteAnswers,
                PipelineAnswers, StreamChunk, ClientLeaves, Raise
<1>3. \/ LoadHits(c) \/ LoadMisses(c) \/ ClientLeaves(c)
    BY <1>2 DEF CallBegins, ChatCompletions, ExecutionBegins, ExecuteBegins, PipelineBegins, CallStep,
                LoadPurges, LoadSelects, LoadFails, LoadResumes, LoadStores, StreamFinishes,
                StreamStops, StreamFails, StreamCloses, ExecutionCompletes, ExecutionFails, ExecuteAnswers,
                PipelineAnswers, StreamChunk
<1>4. ASSUME LoadMisses(c) \/ ClientLeaves(c) PROVE call'[c].stage \in {"select", "purge", "ended"}
  <2>1. CASE LoadMisses(c)
    <3>1. PICK next \in {"select", "purge"} : call' = [call EXCEPT ![c].stage = next]
        BY <2>1 DEF LoadMisses
    <3>. QED BY <1>1, <3>1 DEF CallRecord
  <2>2. CASE ClientLeaves(c)
      BY <1>1, <2>2 DEF ClientLeaves, CallRecord
  <2>. QED BY <1>4, <2>1, <2>2
<1>. QED BY <1>3, <1>4

\* However loads, purges and stores of several calls interleave: a former configuration is used for at
\* most the time to live, unless a change overtook the load that stored it.
THEOREM StalenessBounded == RuntimeSpec => StaleForTTL
<1>1. RuntimeInv /\ [RuntimeNext]_runtimeVars =>
        [\A c \in Calls :
           LET a == Loading(c) IN
           call[c].stage = "lookup" /\ call'[c].stage \in {"lookup", "loaded"} /\ call'[c] # call[c] =>
             \/ configs[a].row = agents[a]
             \/ agentNow < changedAt[a] + ConfigTTL
             \/ a \in overtaken]_runtimeVars
  <2>. SUFFICES ASSUME RuntimeInv, RuntimeNext, NEW c \in Calls,
                       call[c].stage = "lookup", call'[c].stage \in {"lookup", "loaded"}, call'[c] # call[c]
               PROVE  LET a == Loading(c) IN
                        \/ configs[a].row = agents[a] \/ agentNow < changedAt[a] + ConfigTTL \/ a \in overtaken
      OBVIOUS
  <2>1. PICK d \in Calls : CallBegins(d) \/ CallStep(d) \/ StreamChunk(d) \/ ClientLeaves(d)
      BY DEF RuntimeNext
  <2>2. LoadHits(c)
      BY <2>1, OthersLook
  <2>. QED BY <2>2, HitIsFresh
<1>. QED BY <1>1, RuntimeInvariant, PTL DEF RuntimeSpec, StaleForTTL

-----------------------------------------------------------------------------
(* What the clients of /chat/completions see                               *)

\* A call keeps its kind once it has begun.
LEMMA KindKept ==
    ASSUME RuntimeInv, NEW c \in Calls, CallStep(c) \/ StreamChunk(c) \/ ClientLeaves(c)
    PROVE  \A d \in Calls : call'[d].kind = call[d].kind
<1>1. call \in [Calls -> CallRecord]
    BY DEF RuntimeInv, RuntimeTypeInv
<1>2. CASE LoadMisses(c) \/ LoadPurges(c) \/ LoadSelects(c) \/ LoadResumes(c)
  <2>1. CASE LoadMisses(c) \/ LoadPurges(c)
    <3>1. PICK stage \in {"select", "purge"} : call' = [call EXCEPT ![c].stage = stage]
        BY <2>1 DEF LoadMisses, LoadPurges
    <3>. QED BY <1>1, <3>1 DEF CallRecord
  <2>2. CASE LoadSelects(c)
      BY <1>1, <2>2 DEF CallRecord, LoadSelects
  <2>3. CASE LoadResumes(c)
      BY <1>1, <2>3 DEF CallRecord, LoadResumes
  <2>. QED BY <1>2, <2>1, <2>2, <2>3
<1>3. CASE \/ StreamFinishes(c) \/ StreamStops(c) \/ StreamCloses(c) \/ ExecutionCompletes(c)
           \/ ExecutionFails(c) \/ StreamChunk(c) \/ ClientLeaves(c)
    BY <1>1, <1>3 DEF CallRecord, StreamFinishes, StreamStops, StreamCloses, ExecutionCompletes,
                      ExecutionFails, StreamChunk, ClientLeaves
<1>4. ASSUME NEW stage, NEW team, NEW row, NEW due, NEW outcome,
             Becomes(c, stage, call[c].kind, team, row, due, outcome)
      PROVE  \A d \in Calls : call'[d].kind = call[d].kind
    BY <1>4 DEF Becomes, CallOf
<1>5. CASE LoadHits(c) \/ LoadStores(c)
  <2>1. RuntimeTypeInv
      BY DEF RuntimeInv
  <2>2. CASE LoadHits(c)
      BY <1>4, <2>1, <2>2, TeamGoes DEF LoadHits
  <2>3. CASE LoadStores(c)
      BY <1>4, <2>1, <2>3, StoreGoes DEF LoadStores
  <2>. QED BY <1>5, <2>2, <2>3
<1>6. ASSUME Raise(c) PROVE \A d \in Calls : call'[d].kind = call[d].kind
  <2>1. PICK stage \in {"closing", "raised"} : call' = [call EXCEPT ![c].stage = stage, ![c].outcome = "failed"]
      BY <1>6 DEF Raise
  <2>. QED BY <1>4, <2>1, OutcomeGoes DEF RuntimeInv, CallStages, CallOutcomes
<1>7. CASE LoadFails(c) \/ StreamFails(c)
    BY <1>6, <1>7 DEF LoadFails, StreamFails
<1>8. CASE ExecuteAnswers(c) \/ PipelineAnswers(c)
  <2>1. CASE Raise(c)
      BY <1>6, <2>1
  <2>2. CASE call' = [call EXCEPT ![c].stage = "ended", ![c].outcome = "whole"]
      BY <1>4, <2>2, OutcomeGoes, ZenonT(30) DEF RuntimeInv, CallStages, CallOutcomes
  <2>. QED BY <1>8, <2>1, <2>2 DEF ExecuteAnswers, PipelineAnswers
<1>. QED BY <1>2, <1>3, <1>5, <1>7, <1>8 DEF CallStep

\* An event said to a client, before the end of the stream and at it.
LEMMA SayAllowed ==
    ASSUME RuntimeInv, NEW c \in Calls, NEW event \in Events, Say(c, event),
           \A d \in Calls : call'[d].kind = call[d].kind,
           \/ call[c].stage \in LoadStages \cup {"loaded"} /\ event # "done"
           \/ call[c].stage = "closing" /\ event = "done"
    PROVE  Grammar!Next \/ UNCHANGED ClientSees
<1>1. RuntimeTypeInv /\ SentFits(c) /\ sent \in [Calls -> Seq(Events)]
    BY DEF RuntimeInv, RuntimeTypeInv
<1>2. \A d \in Calls \ {c} : sent'[d] = sent[d] /\ sent'[c] = Append(sent[c], event)
    BY <1>1 DEF Say
<1>3. CASE call[c].kind # "sse"
    BY <1>2, <1>3 DEF ClientSees
<1>4. CASE call[c].kind = "sse"
  <2>1. ClientSees' = [ClientSees EXCEPT ![c] = Append(@, event)] /\ ClientSees[c] = sent[c]
      BY <1>1, <1>4 DEF Say, ClientSees
  <2>2. CASE event # "done"
    <3>1. sent[c] \in Seq({"chunk"})
        BY <1>1, <2>2 DEF SentFits
    <3>2. ~Grammar!LastIsIn(ClientSees[c], {"finish", "error", "done"})
        BY <2>1, <3>1 DEF Grammar!LastIsIn
    <3>. QED BY <2>1, <2>2, <3>2 DEF Grammar!Next, Grammar!Chunk, Grammar!Finish, Grammar!Fail, Grammar!Send, Events
  <2>3. CASE event = "done"
    <3>1. sent[c] \in Seq(Events \ {"done"})
        BY <1>1, <2>3 DEF SentFits
    <3>2. ~Grammar!LastIsIn(ClientSees[c], {"done"})
        BY <2>1, <3>1 DEF Grammar!LastIsIn
    <3>. QED BY <2>1, <2>3, <3>2 DEF Grammar!Next, Grammar!Close, Grammar!Send
  <2>. QED BY <2>2, <2>3
<1>. QED BY <1>3, <1>4

LEMMA GrammarStep == RuntimeInv /\ [RuntimeNext]_runtimeVars => [Grammar!Next]_ClientSees
<1>. SUFFICES ASSUME RuntimeInv, RuntimeNext \/ UNCHANGED runtimeVars
             PROVE  Grammar!Next \/ UNCHANGED ClientSees
    OBVIOUS
<1>1. CASE UNCHANGED runtimeVars
    BY <1>1 DEF runtimeVars, ClientSees
<1>2. ASSUME NEW c \in Calls, CallBegins(c) PROVE UNCHANGED ClientSees
  <2>1. call[c].stage = "idle" /\ sent' = sent /\ \A d \in Calls \ {c} : call'[d] = call[d]
      BY <1>2 DEF CallBegins, ChatCompletions, ExecutionBegins, ExecuteBegins, PipelineBegins,
                  RuntimeInv, RuntimeTypeInv
  <2>2. sent[c] = <<>>
      BY <2>1 DEF RuntimeInv, SentFits
  <2>. QED BY <2>1, <2>2 DEF ClientSees
<1>3. ASSUME NEW c \in Calls, CallStep(c) \/ StreamChunk(c) \/ ClientLeaves(c)
      PROVE  Grammar!Next \/ UNCHANGED ClientSees
  <2>1. \A d \in Calls : call'[d].kind = call[d].kind
      BY <1>3, KindKept
  <2>2. CASE sent' = sent
      BY <2>1, <2>2 DEF ClientSees
  <2>3. CASE sent' # sent
    <3>1. \/ StreamChunk(c) \/ StreamFinishes(c) \/ StreamCloses(c)
          \/ (LoadFails(c) \/ StreamFails(c) \/ ExecuteAnswers(c) \/ PipelineAnswers(c)) /\ Raise(c)
        BY <1>3, <2>3 DEF CallStep, LoadHits, LoadMisses, LoadPurges, LoadSelects, LoadResumes, LoadStores,
                          LoadFails, StreamStops, StreamFails, ExecutionCompletes, ExecutionFails,
                          ExecuteAnswers, PipelineAnswers, ClientLeaves
    <3>2. \/ Say(c, "chunk") /\ call[c].stage = "loaded"
          \/ Say(c, "finish") /\ call[c].stage = "loaded"
          \/ Say(c, "error") /\ call[c].stage \in LoadStages \cup {"loaded"}
          \/ Say(c, "done") /\ call[c].stage = "closing"
        BY <2>3, <3>1 DEF StreamChunk, StreamFinishes, StreamCloses, LoadFails, StreamFails, ExecuteAnswers,
                          PipelineAnswers, Raise, LoadStages
    <3>. QED BY <2>1, <3>2, SayAllowed DEF Events
  <2>. QED BY <2>2, <2>3
<1>4. CASE UNCHANGED <<call, sent>>
    BY <1>4 DEF ClientSees
<1>. QED BY <1>1, <1>2, <1>3, <1>4 DEF RuntimeNext

\* However calls fail, are cut off or overlap: what each client of /chat/completions sees is a stream of
\* EventStream: chunks, at most one finish or error, and [DONE] once and last (chat_completions.py).
THEOREM GrammarImplemented == RuntimeSpec => ImplementsEventStream
<1>1. RuntimeInit => Grammar!Init
  <2>. SUFFICES ASSUME RuntimeInit PROVE Grammar!Init
      OBVIOUS
  <2>. QED BY DEF RuntimeInit, Grammar!Init, ClientSees
<1>. QED BY <1>1, RuntimeInvariant, GrammarStep, PTL DEF RuntimeSpec, ImplementsEventStream, Grammar!Spec

-----------------------------------------------------------------------------
(* The messages of a streamed answer: a module of its own, with variables  *)
(* of its own.                                                             *)

Said == {"stream", "done", "tools_ready", "error", "tool_call", "usage"}
Going == {"stream", "tool_call"}

\* While an answer is open nothing but text and pieces was told, and what is gathered is what was given.
AnswerOpen ==
    closing = NoReason =>
        /\ told \in Seq(Going)
        /\ \A i \in ToolIndexes : gathered[i] = [named |-> given[i] # <<>>, args |-> given[i]]

StreamInv ==
    /\ closing \in Reasons \cup {NoReason, Foreign}
    /\ told \in Seq(Said) /\ chunkNo \in Nat
    /\ given \in [ToolIndexes -> Seq(Nat)]
    /\ AnswerOpen /\ ProtocolKept

\* A sequence with no ending in it.
LEMMA NoEnding ==
    ASSUME NEW s \in Seq(Said \ Endings)
    PROVE  {n \in 1 .. Len(s) : s[n] \in Endings} = {} /\ s \in Seq(Said) /\ \A k \in Endings : k \notin ToSet(s)
<1>1. \A n \in 1 .. Len(s) : s[n] \in Said \ Endings OBVIOUS
<1>2. s \in Seq(Said) OBVIOUS
<1> QED BY <1>1, <1>2 DEF ToSet

\* One ending, after text and pieces, before pieces and the usage.
LEMMA OneEnding ==
    ASSUME NEW t \in Seq(Going), NEW a \in Seq({"stream"}), NEW e \in Endings,
           NEW b \in Seq({"tool_call"}), NEW u \in Seq({"usage"})
    PROVE  LET s == t \o (((a \o <<e>>) \o b) \o u)
               n == Len(t) + Len(a) + 1 IN
           /\ s \in Seq(Said)
           /\ {k \in 1 .. Len(s) : s[k] \in Endings} = {n}
           /\ n \in Nat /\ s[n] = e
           /\ \A m \in n + 1 .. Len(s) : s[m] # "stream"
<1> DEFINE s == t \o (((a \o <<e>>) \o b) \o u)
           n == Len(t) + Len(a) + 1
<1>1. s \in Seq(Said) BY DEF Said, Going, Endings
<1>2. n \in Nat /\ Len(s) = n + Len(b) + Len(u) OBVIOUS
<1>3. \A k \in 1 .. Len(t) : s[k] \in Going OBVIOUS
<1>4. \A k \in Len(t) + 1 .. Len(t) + Len(a) : s[k] = "stream" OBVIOUS
<1>5. s[n] = e OBVIOUS
<1>6. \A k \in n + 1 .. Len(s) : s[k] \in {"tool_call", "usage"} OBVIOUS
<1>7. \A k \in 1 .. Len(s) : s[k] \in Endings => k = n
  <2> SUFFICES ASSUME NEW k \in 1 .. Len(s), k # n PROVE s[k] \notin Endings OBVIOUS
  <2>1. CASE k \in 1 .. Len(t) BY <2>1, <1>3 DEF Going, Endings
  <2>2. CASE k \in Len(t) + 1 .. Len(t) + Len(a) BY <2>2, <1>4 DEF Endings
  <2>3. CASE k \in n + 1 .. Len(s) BY <2>3, <1>6 DEF Endings
  <2>4. Len(t) \in Nat /\ Len(a) \in Nat /\ Len(s) \in Nat BY <1>2
  <2>5. k \in 1 .. Len(t) \/ k \in Len(t) + 1 .. Len(t) + Len(a) \/ k \in n + 1 .. Len(s)
    <3>1. \A x, y, z \in Nat : \A j \in 1 .. z :
            j # x + y + 1 => j \in 1 .. x \/ j \in x + 1 .. x + y \/ j \in x + y + 1 + 1 .. z
      OBVIOUS
    <3> HIDE DEF s
    <3> QED BY <3>1, <2>4, ZenonT(30)
  <2> QED BY <2>1, <2>2, <2>3, <2>5
<1>8. n \in 1 .. Len(s) BY <1>2
<1> HIDE DEF s, n
<1>9. {k \in 1 .. Len(s) : s[k] \in Endings} = {n} BY <1>7, <1>8, <1>5
<1>10. \A m \in n + 1 .. Len(s) : s[m] # "stream" BY <1>6
<1> QED BY <1>1, <1>2, <1>5, <1>9, <1>10 DEF s, n

LEMMA ClosedOnce ==
    ASSUME NEW e \in Endings, NEW a \in Seq({"stream"}), NEW b \in Seq({"tool_call"}), NEW u \in Seq({"usage"}),
           told \in Seq(Going), closing' \in Reasons,
           told' = told \o (((a \o <<e>>) \o b) \o u)
    PROVE  /\ told' \in Seq(Said) /\ EndToldOnce'
           /\ e # "tools_ready" => "tools_ready" \notin ToSet(told')
<1> DEFINE n == Len(told) + Len(a) + 1
<1>1. /\ told' \in Seq(Said) /\ n \in Nat /\ told'[n] = e
      /\ {k \in 1 .. Len(told') : told'[k] \in Endings} = {n}
      /\ \A m \in n + 1 .. Len(told') : told'[m] # "stream"
  BY OneEnding, SMTT(30)
<1> HIDE DEF n
<1>2. Cardinality({n}) = 1 BY FS_Singleton
<1>3. EndToldOnce' BY <1>1, <1>2 DEF EndToldOnce
<1>4. ASSUME "tools_ready" \in ToSet(told') PROVE e = "tools_ready"
  <2>1. PICK k \in DOMAIN told' : told'[k] = "tools_ready" BY <1>4 DEF ToSet
  <2>2. k \in 1 .. Len(told') BY <1>1
  <2>3. k = n BY <1>1, <2>1, <2>2 DEF Endings
  <2> QED BY <1>1, <2>1, <2>3
<1> QED BY <1>1, <1>3, <1>4

\* An answer that goes on has no ending, and so has one that ends with a reason OpenAI has not.
LEMMA NotEnded ==
    ASSUME told' \in Seq(Said \ Endings), closing' \notin Reasons
    PROVE  told' \in Seq(Said) /\ ProtocolKept'
<1>1. told' \in Seq(Said) /\ {n \in 1 .. Len(told') : told'[n] \in Endings} = {} /\ "tools_ready" \notin ToSet(told')
  BY NoEnding DEF Endings
<1>2. Cardinality({}) = 0 BY FS_EmptySet
<1>3. EndToldOnce' BY <1>1, <1>2 DEF EndToldOnce
<1>4. ReadyHasEverything' BY <1>1 DEF ReadyHasEverything
<1> QED BY <1>1, <1>3, <1>4 DEF ProtocolKept

\* A sequence with one more number.
LEMMA PieceGiven == \A s \in Seq(Nat) : \A n \in Nat : Append(s, n) \in Seq(Nat) /\ Append(s, n) # <<>>
<1> SUFFICES ASSUME NEW s \in Seq(Nat), NEW n \in Nat PROVE Append(s, n) \in Seq(Nat) /\ Append(s, n) # <<>> OBVIOUS
<1>1. Len(Append(s, n)) = Len(s) + 1 /\ Len(s) \in Nat /\ Len(<<>>) = 0 OBVIOUS
<1> QED BY <1>1

\* The first piece of a call names it, and it stays named.
LEMMA GatherIs ==
    ASSUME NEW s
    PROVE  Gather([named |-> s # <<>>, args |-> s], s = <<>>) = [named |-> TRUE, args |-> Append(s, chunkNo + 1)]
<1>1. ((s # <<>>) \/ (s = <<>>)) = TRUE OBVIOUS
<1>2. CASE s = <<>> BY <1>1, <1>2 DEF Gather
<1>3. CASE s # <<>> BY <1>1, <1>3 DEF Gather
<1> QED BY <1>2, <1>3

LEMMA GatheredGrows ==
    ASSUME StreamInv, NEW indexes \in SUBSET ToolIndexes, closing = NoReason,
           chunkNo' = chunkNo + 1,
           given' = [i \in ToolIndexes |-> IF i \in indexes THEN Append(given[i], chunkNo + 1) ELSE given[i]],
           gathered' = [i \in ToolIndexes |->
               IF i \in indexes THEN Gather(gathered[i], given[i] = <<>>) ELSE gathered[i]]
    PROVE  /\ chunkNo' \in Nat /\ given' \in [ToolIndexes -> Seq(Nat)]
           /\ \A i \in ToolIndexes : gathered'[i] = [named |-> given'[i] # <<>>, args |-> given'[i]]
<1>1. given \in [ToolIndexes -> Seq(Nat)] /\ chunkNo \in Nat /\ chunkNo' \in Nat BY DEF StreamInv
<1>2. \A i \in ToolIndexes : given[i] \in Seq(Nat) /\ Append(given[i], chunkNo + 1) \in Seq(Nat) BY <1>1
<1>3. given' \in [ToolIndexes -> Seq(Nat)] BY <1>1, <1>2
<1>4. ASSUME NEW i \in ToolIndexes PROVE gathered'[i] = [named |-> given'[i] # <<>>, args |-> given'[i]]
  <2>1. gathered[i] = [named |-> given[i] # <<>>, args |-> given[i]] BY DEF StreamInv, AnswerOpen
  <2>2. CASE i \notin indexes BY <2>1, <2>2
  <2>3. CASE i \in indexes
    <3>1. given'[i] = Append(given[i], chunkNo + 1) /\ gathered'[i] = Gather(gathered[i], given[i] = <<>>) BY <2>3
    <3>2. given'[i] # <<>> BY <3>1, <1>1, PieceGiven
    <3>3. gathered'[i] = [named |-> TRUE, args |-> Append(given[i], chunkNo + 1)] BY <3>1, <2>1, GatherIs
    <3> QED BY <3>1, <3>2, <3>3
  <2> QED BY <2>2, <2>3
<1> QED BY <1>1, <1>3, <1>4

\* What is told of a chunk: its text, its reason, its pieces and the usage.
TextOf(text, reason) == IF text /\ reason # "stop" THEN <<"stream">> ELSE <<>>
EndingOf(reason) == CASE reason = "stop" -> "done" [] reason = "tool_calls" -> "tools_ready" [] OTHER -> "error"
PiecesOf(opens) == IF DOMAIN opens = {} THEN <<>> ELSE <<"tool_call">>
UsageOf(usage) == IF usage THEN <<"usage">> ELSE <<>>

LEMMA PartsTyped ==
    ASSUME NEW text, NEW reason, NEW opens, NEW usage
    PROVE  /\ TextOf(text, reason) \in Seq({"stream"})
           /\ PiecesOf(opens) \in Seq({"tool_call"})
           /\ UsageOf(usage) \in Seq({"usage"})
<1>1. \A k : <<>> \in Seq({k}) /\ <<k>> \in Seq({k}) OBVIOUS
<1> QED BY <1>1, Zenon DEF TextOf, PiecesOf, UsageOf

LEMMA EndingIs ==
    ASSUME NEW chunk, chunk.reason \in Reasons
    PROVE  LET a == TextOf(chunk.text, chunk.reason)
               e == EndingOf(chunk.reason)
               b == PiecesOf(chunk.opens)
               u == UsageOf(chunk.usage) IN
           /\ Converted(chunk) = ((a \o <<e>>) \o b) \o u
           /\ e \in Endings /\ (e = "tools_ready" => chunk.reason = "tool_calls")
           /\ a \in Seq({"stream"}) /\ b \in Seq({"tool_call"}) /\ u \in Seq({"usage"})
<1> DEFINE reason == chunk.reason
<1>1. reason \in {"stop", "tool_calls", "length", "content_filter"} BY DEF Reasons
<1>2. /\ EndingOf(reason) \in Endings
      /\ EndingOf(reason) = "tools_ready" => reason = "tool_calls"
  BY DEF EndingOf, Endings
<1>3. (CASE reason = "stop" -> <<"done">>
         [] reason = "tool_calls" -> <<"tools_ready">>
         [] reason \in {"length", "content_filter"} -> <<"error">>
         [] OTHER -> <<>>) = <<EndingOf(reason)>>
  <2>1. CASE reason = "stop" BY <2>1 DEF EndingOf
  <2>2. CASE reason = "tool_calls" BY <2>2 DEF EndingOf
  <2>3. CASE reason \in {"length", "content_filter"} BY <2>3 DEF EndingOf
  <2> QED BY <1>1, <2>1, <2>2, <2>3
<1>4. Converted(chunk) =
        ((TextOf(chunk.text, reason) \o <<EndingOf(reason)>>) \o PiecesOf(chunk.opens)) \o UsageOf(chunk.usage)
  BY <1>3 DEF Converted, TextOf, PiecesOf, UsageOf
<1> QED BY <1>2, <1>4, PartsTyped

LEMMA NoEndingIs ==
    ASSUME NEW text, NEW opens, NEW usage
    PROVE  LET w == Converted([text |-> text, reason |-> NoReason, opens |-> opens, usage |-> usage]) IN
           w \in Seq(Said \ Endings) /\ (~usage => w \in Seq(Going))
<1> DEFINE a == TextOf(text, NoReason)
           b == PiecesOf(opens)
           u == UsageOf(usage)
           w == ((a \o <<>>) \o b) \o u
<1>1. Converted([text |-> text, reason |-> NoReason, opens |-> opens, usage |-> usage]) = w
  BY DEF Converted, TextOf, PiecesOf, UsageOf, NoReason
<1>2. a \in Seq({"stream"}) /\ b \in Seq({"tool_call"}) /\ u \in Seq({"usage"}) BY PartsTyped
<1>3. ~usage => u = <<>> BY DEF UsageOf
<1> HIDE DEF a, b, u
<1>4. w \in Seq(Said \ Endings) BY <1>2 DEF Said, Endings
<1>5. ~usage => w \in Seq(Going) BY <1>2, <1>3 DEF Going
<1> QED BY <1>1, <1>4, <1>5

\* A chunk of the provider.
LEMMA ProviderKeeps ==
    ASSUME StreamInv, NEW text \in BOOLEAN, NEW reason \in Reasons \cup {NoReason, Foreign},
           NEW indexes \in SUBSET ToolIndexes, ProviderSends(text, reason, indexes)
    PROVE  StreamInv'
<1> DEFINE opens == [i \in indexes |-> given[i] = <<>>]
           r == IF reason \in Reasons THEN reason ELSE NoReason
<1>1. PICK usage \in BOOLEAN : usage = (reason # NoReason) OBVIOUS
<1> DEFINE chunk == [text |-> text, reason |-> r, opens |-> opens, usage |-> usage]
<1>2. FromProvider([text |-> text, reason |-> reason, opens |-> opens, usage |-> reason # NoReason]) = chunk
  <2> HIDE DEF opens
  <2> QED BY <1>1 DEF FromProvider
<1>3. /\ closing = NoReason /\ closing' = reason /\ chunkNo' = chunkNo + 1
      /\ crowded' = (reason # NoReason /\ indexes # {})
      /\ given' = [i \in ToolIndexes |-> IF i \in indexes THEN Append(given[i], chunkNo + 1) ELSE given[i]]
      /\ Send(chunk)
  BY <1>2 DEF ProviderSends
<1>4. /\ told' = told \o Converted(chunk)
      /\ listed' = IF r = "tool_calls" THEN gathered ELSE listed
      /\ gathered' = [i \in ToolIndexes |->
             IF i \in indexes THEN Gather(gathered[i], given[i] = <<>>) ELSE gathered[i]]
  <2>1. chunk.opens = opens /\ DOMAIN opens = indexes /\ chunk.reason = r OBVIOUS
  <2>2. \A i \in indexes : opens[i] = (given[i] = <<>>) OBVIOUS
  <2> HIDE DEF chunk, opens, r
  <2> QED BY <1>3, <2>1, <2>2 DEF Send
<1>5. /\ chunkNo' \in Nat /\ given' \in [ToolIndexes -> Seq(Nat)]
      /\ \A i \in ToolIndexes : gathered'[i] = [named |-> given'[i] # <<>>, args |-> given'[i]]
  BY <1>3, <1>4, GatheredGrows
<1>6. told \in Seq(Going) /\ told \in Seq(Said \ Endings)
  <2>1. told \in Seq(Going) BY <1>3 DEF StreamInv, AnswerOpen
  <2>2. Going \subseteq Said \ Endings BY DEF Going, Said, Endings
  <2> QED BY <2>1, <2>2
<1>7. CASE reason \notin Reasons
  <2>1. r = NoReason BY <1>7
  <2> DEFINE w == Converted([text |-> text, reason |-> NoReason, opens |-> opens, usage |-> usage])
  <2>2. Converted(chunk) = w /\ w \in Seq(Said \ Endings) /\ (reason = NoReason => w \in Seq(Going))
    <3>1. ~usage <=> reason = NoReason BY <1>1
    <3> HIDE DEF opens
    <3> QED BY <2>1, <3>1, NoEndingIs
  <2>3. told' \in Seq(Said \ Endings) BY <1>4, <1>6, <2>2
  <2>4. told' \in Seq(Said) /\ ProtocolKept' BY <1>3, <1>7, <2>3, NotEnded
  <2>5. closing' = NoReason => told' \in Seq(Going)
    <3> SUFFICES ASSUME reason = NoReason PROVE told' \in Seq(Going) BY <1>3
    <3> HIDE DEF w
    <3> QED BY <1>4, <1>6, <2>2
  <2> QED BY <1>3, <1>5, <2>4, <2>5 DEF StreamInv, AnswerOpen
<1>8. CASE reason \in Reasons
  <2>1. r = reason /\ reason # NoReason BY <1>8 DEF Reasons, NoReason
  <2> DEFINE e == EndingOf(chunk.reason)
           a == TextOf(chunk.text, chunk.reason)
           b == PiecesOf(chunk.opens)
           u == UsageOf(chunk.usage)
  <2>2. /\ Converted(chunk) = ((a \o <<e>>) \o b) \o u
        /\ e \in Endings /\ (e = "tools_ready" => reason = "tool_calls")
        /\ a \in Seq({"stream"}) /\ b \in Seq({"tool_call"}) /\ u \in Seq({"usage"})
    <3>1. chunk.reason = reason BY <2>1
    <3> HIDE DEF chunk
    <3> QED BY <1>8, <3>1, EndingIs
  <2> HIDE DEF e, a, b, u
  <2>3. told' = told \o (((a \o <<e>>) \o b) \o u) BY <1>4, <2>2
  <2>4. told' \in Seq(Said) /\ EndToldOnce' /\ (e # "tools_ready" => "tools_ready" \notin ToSet(told'))
    BY <1>3, <1>6, <1>8, <2>2, <2>3, ClosedOnce
  <2>5. ReadyHasEverything'
    <3> SUFFICES ASSUME "tools_ready" \in ToSet(told'), ~crowded', NEW i \in ToolIndexes
                 PROVE  listed'[i] = [named |-> given'[i] # <<>>, args |-> given'[i]]
      BY DEF ReadyHasEverything
    <3>1. reason = "tool_calls" /\ listed' = gathered BY <1>4, <2>1, <2>2, <2>4
    <3>2. indexes = {} BY <1>3, <2>1
    <3>3. given'[i] = given[i] BY <1>3, <3>2
    <3>4. gathered[i] = [named |-> given[i] # <<>>, args |-> given[i]] BY <1>3 DEF StreamInv, AnswerOpen
    <3> QED BY <3>1, <3>3, <3>4
  <2> QED BY <1>3, <1>5, <1>8, <2>1, <2>4, <2>5 DEF StreamInv, AnswerOpen, ProtocolKept
<1> QED BY <1>7, <1>8

\* An end of the service's own.
LEMMA BreakKeeps ==
    ASSUME StreamInv, NEW reason \in {"stop", "content_filter"}, BreaksOff(reason)
    PROVE  StreamInv'
<1>0. PICK no, none : no = FALSE /\ none = <<>> OBVIOUS
<1> DEFINE chunk == [text |-> no, reason |-> reason, opens |-> none, usage |-> no]
<1>1. reason \in Reasons /\ reason # NoReason BY DEF Reasons, NoReason
<1>2. closing = NoReason /\ closing' = reason /\ Send(chunk) /\ UNCHANGED <<chunkNo, given, crowded>>
  BY <1>0 DEF BreaksOff, Cut
<1>3. told' = told \o Converted(chunk) BY <1>2 DEF Send
<1> DEFINE e == EndingOf(chunk.reason)
           a == TextOf(chunk.text, chunk.reason)
           b == PiecesOf(chunk.opens)
           u == UsageOf(chunk.usage)
<1>4. /\ Converted(chunk) = ((a \o <<e>>) \o b) \o u
      /\ e \in Endings /\ (e = "tools_ready" => reason = "tool_calls")
      /\ a \in Seq({"stream"}) /\ b \in Seq({"tool_call"}) /\ u \in Seq({"usage"})
  <2>1. chunk.reason = reason OBVIOUS
  <2> HIDE DEF chunk
  <2> QED BY <1>1, <2>1, EndingIs
<1> HIDE DEF e, a, b, u
<1>5. told \in Seq(Going) BY <1>2 DEF StreamInv, AnswerOpen
<1>6. told' = told \o (((a \o <<e>>) \o b) \o u) BY <1>3, <1>4
<1>7. told' \in Seq(Said) /\ EndToldOnce' /\ (e # "tools_ready" => "tools_ready" \notin ToSet(told'))
  BY <1>1, <1>2, <1>4, <1>5, <1>6, ClosedOnce
<1>8. e # "tools_ready" BY <1>4
<1>9. ReadyHasEverything' BY <1>7, <1>8 DEF ReadyHasEverything
<1> QED BY <1>1, <1>2, <1>7, <1>9 DEF StreamInv, AnswerOpen, ProtocolKept

\* The first answer and every next one.
LEMMA AnswerStarts ==
    ASSUME told' = <<>>, closing' = NoReason, chunkNo' = 0, given' = [i \in ToolIndexes |-> <<>>],
           gathered' = NothingGathered
    PROVE  StreamInv'
<1>1. NoReason \notin Reasons BY DEF Reasons, NoReason
<1>2. \A S : told' \in Seq(S) OBVIOUS
<1>3. told' \in Seq(Said) /\ ProtocolKept' BY <1>1, <1>2, NotEnded
<1>4. \A i \in ToolIndexes : gathered'[i] = [named |-> given'[i] # <<>>, args |-> given'[i]]
  BY DEF NothingGathered
<1>5. given' \in [ToolIndexes -> Seq(Nat)] OBVIOUS
<1> QED BY <1>2, <1>3, <1>4, <1>5 DEF StreamInv, AnswerOpen

LEMMA StreamStart == StreamInit => StreamInv
<1> SUFFICES ASSUME StreamInit PROVE StreamInv OBVIOUS
<1>1. told = <<>> /\ closing = NoReason /\ chunkNo = 0 /\ given = [i \in ToolIndexes |-> <<>>]
      /\ gathered = NothingGathered /\ NoReason \notin Reasons
  BY DEF StreamInit, Reasons, NoReason
<1>2. told \in Seq(Said) /\ told \in Seq(Going) /\ given \in [ToolIndexes -> Seq(Nat)] BY <1>1
<1>3. \A i \in ToolIndexes : gathered[i] = [named |-> given[i] # <<>>, args |-> given[i]]
  BY <1>1 DEF NothingGathered
<1>4. {n \in 1 .. Len(told) : told[n] \in Endings} = {} /\ "tools_ready" \notin ToSet(told) BY <1>1 DEF ToSet
<1>5. Cardinality({}) = 0 BY FS_EmptySet
<1>6. ProtocolKept BY <1>1, <1>4, <1>5 DEF ProtocolKept, EndToldOnce, ReadyHasEverything
<1> QED BY <1>1, <1>2, <1>3, <1>6 DEF StreamInv, AnswerOpen

LEMMA StreamStep == StreamInv /\ [StreamNext]_streamVars => StreamInv'
<1> SUFFICES ASSUME StreamInv, [StreamNext]_streamVars PROVE StreamInv' OBVIOUS
<1>1. ASSUME NEW text \in BOOLEAN, NEW reason \in Reasons \cup {NoReason, Foreign},
             NEW indexes \in {{}} \cup {{i} : i \in ToolIndexes}, ProviderSends(text, reason, indexes)
      PROVE  StreamInv'
  <2>1. indexes \in SUBSET ToolIndexes OBVIOUS
  <2> QED BY <1>1, <2>1, ProviderKeeps
<1>2. CASE BreaksOff("stop") BY <1>2, BreakKeeps
<1>3. CASE BreaksOff("content_filter") BY <1>3, BreakKeeps
<1>4. CASE NextAnswer BY <1>4, AnswerStarts DEF NextAnswer
<1>5. CASE UNCHANGED streamVars
  BY <1>5 DEF streamVars, StreamInv, AnswerOpen, ProtocolKept, ReadyHasEverything, EndToldOnce
<1> QED BY <1>1, <1>2, <1>3, <1>4, <1>5 DEF StreamNext

\* tools_ready lists every tool call of this answer with all pieces in order, and every answer that ends
\* for a reason OpenAI has is ended for the client exactly once, with no text after it.
THEOREM EndingsKept == StreamSpec => []ProtocolKept
<1>1. StreamInv => ProtocolKept BY DEF StreamInv
<1> QED BY <1>1, StreamStart, StreamStep, PTL DEF StreamSpec
=============================================================================
