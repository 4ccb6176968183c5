--------------------------- MODULE ServiceProofs ----------------------------
(***************************************************************************)
(* The services behind the REST API and the streams, for any plugins,      *)
(* tenants, apps, conversations, messages, pages and calls: the count of a *)
(* plugin is the number of its installations as long as no two installs or *)
(* uninstalls of it were under way together; a message added after another *)
(* was answered has the larger number; what belongs to a deleted           *)
(* application is deleted with it; a conversation's short-term memory is   *)
(* kept within its limit and forgets what was cleared; contexts fit their  *)
(* budget; and the searches of a page reach every component.               *)
(***************************************************************************)
EXTENDS MCServices, RuntimeProofs

PluginRows == [Publishes -> [status : PluginStatuses \cup {"absent"}, install_count : Nat]]

MarketTypeInv ==
    /\ plugins \in PluginRows
    /\ installed \subseteq Installs /\ IsFiniteSet(installed)
    /\ countRead \in [PluginCalls -> Nat]
    /\ rowRead \in [Uninstalls -> Installs \cup {NoInstall}]
    /\ phase \in [PluginCalls -> {"idle", "inserting", "checking", "reading", "committing", "answered", "refused"}]
    /\ \A c \in Installs : phase[c] \notin {"inserting", "reading"}
    /\ \A c \in Uninstalls : phase[c] \notin {"inserting", "checking"}

\* An installation is there from the commit of the call that makes it.
InstalledAnswered == \A i \in installed : phase[i] = "answered"

\* An uninstall has found an installation of its own plugin.
FoundOwn ==
    \A c \in Uninstalls : phase[c] \in {"reading", "committing"} =>
        rowRead[c] \in Installs /\ OfPlugin[rowRead[c]] = OfPlugin[c]

\* What a call under way has read of plugin p is still so.
ReadFits(c, p) ==
    /\ c \in Installs => countRead[c] = plugins[p].install_count
    /\ c \in Installs /\ phase[c] = "committing" => Rows(p, OfTenant[c]) = {}
    /\ c \in Uninstalls => rowRead[c] \in RowsOf(p)
    /\ c \in Uninstalls /\ phase[c] = "committing" => countRead[c] = plugins[p].install_count

CountFits(p) ==
    /\ plugins[p].install_count = Cardinality(RowsOf(p))
    /\ \A i, j \in RowsOf(p) : OfTenant[i] = OfTenant[j] => i = j

\* A plugin that is not committed yet has no count, no installations and no calls; on one without
\* overlap a call works alone, and so what it has read stays true.
PluginOK(p) ==
    /\ phase[p] \in {"idle", "inserting"} => ~Published(p)
    /\ ~Published(p) => plugins[p].install_count = 0 /\ RowsOf(p) = {} /\ Working(p) = {}
    /\ p \notin together =>
        /\ \A c, d \in Working(p) : c = d
        /\ \A c \in Working(p) : ReadFits(c, p)
        /\ CountFits(p)

MarketInv == MarketTypeInv /\ InstalledAnswered /\ FoundOwn /\ \A p \in Publishes : PluginOK(p)

\* What scalar_one_or_none finds is there (plugins.py:234 to 249).
LEMMA OneIsThere == ASSUME NEW S, Cardinality(S) = 1 PROVE (CHOOSE x \in S : TRUE) \in S
<1>1. S # {}
    BY FS_EmptySet
<1>. QED BY <1>1

LEMMA Neighbours == \A n \in Nat : n + 1 \in Nat /\ (n # 0 => n - 1 \in Nat)
OBVIOUS

\* Writing a count (plugins.py:211 to 214, 253 to 256).
LEMMA CountWritten ==
    ASSUME plugins \in PluginRows, NEW p \in Publishes, NEW n \in Nat, SetCount(p, n)
    PROVE  /\ plugins' \in PluginRows
           /\ \A q \in Publishes : plugins'[q].status = plugins[q].status
           /\ \A q \in Publishes \ {p} : plugins'[q] = plugins[q]
           /\ plugins'[p].install_count = n
BY DEF SetCount, PluginRows

\* Every step keeps the types of the tables and of what a call has read.
LEMMA MarketTypes == MarketTypeInv /\ [MarketNext]_marketVars => MarketTypeInv'
<1>. SUFFICES ASSUME MarketTypeInv, [MarketNext]_marketVars PROVE MarketTypeInv'
    OBVIOUS
<1>. USE MarketAssumption DEF MarketAssumption, MarketTypeInv, PluginCalls, Turns, SetCount, Joins
<1>1. CASE UNCHANGED marketVars
    BY <1>1 DEF marketVars
<1>2. ASSUME NEW p \in Publishes, PublishChecks(p) PROVE MarketTypeInv'
    BY <1>2 DEF PublishChecks
<1>3. ASSUME NEW p \in Publishes, PublishInserts(p) PROVE MarketTypeInv'
    BY <1>3 DEF PublishInserts, PluginRows, PluginStatuses
<1>4. ASSUME NEW p \in Publishes, NEW to \in PluginStatuses, StatusChanges(p, to) PROVE MarketTypeInv'
    BY <1>4 DEF StatusChanges, PluginRows, PluginStatuses
<1>5. ASSUME NEW c \in Installs, InstallReads(c) PROVE MarketTypeInv'
    BY <1>5 DEF InstallReads, PluginRows
<1>6. ASSUME NEW c \in Installs, InstallChecks(c) PROVE MarketTypeInv'
    BY <1>6 DEF InstallChecks
<1>7. ASSUME NEW c \in Installs, InstallCommits(c) PROVE MarketTypeInv'
  <2>1. IsFiniteSet(installed') /\ installed' \subseteq Installs
      BY <1>7, FS_AddElement DEF InstallCommits
  <2>2. plugins' \in PluginRows
    <3>1. OfPlugin[c] \in Publishes
        OBVIOUS
    <3>3. c \in PluginCalls /\ countRead[c] \in Nat
        OBVIOUS
    <3>2. SetCount(OfPlugin[c], countRead[c] + 1)
        BY <1>7 DEF InstallCommits
    <3>4. countRead[c] + 1 \in Nat
        BY <3>3, Neighbours, Zenon
    <3>5. plugins \in PluginRows
        OBVIOUS
    <3>. QED BY <3>1, <3>2, <3>4, <3>5, CountWritten
  <2>3. phase' = [phase EXCEPT ![c] = "answered"] /\ UNCHANGED <<countRead, rowRead>>
      BY <1>7 DEF InstallCommits
  <2>. QED BY <2>1, <2>2, <2>3
<1>8. ASSUME NEW c \in Uninstalls, UninstallFinds(c) PROVE MarketTypeInv'
  <2>. DEFINE rows == Rows(OfPlugin[c], OfTenant[c])
             r == IF Cardinality(rows) = 1 THEN CHOOSE i \in rows : TRUE ELSE NoInstall
             to == IF Cardinality(rows) = 1 THEN "reading" ELSE "refused"
  <2>1. r \in Installs \cup {NoInstall}
    <3>1. rows \subseteq Installs
        BY DEF Rows
    <3>. HIDE DEF rows
    <3>. QED BY <3>1, OneIsThere
  <2>2. to \in {"reading", "refused"}
      OBVIOUS
  <2>3. /\ rowRead' = [rowRead EXCEPT ![c] = r]
        /\ phase' = [phase EXCEPT ![c] = to]
        /\ UNCHANGED <<plugins, installed, countRead>>
      BY <1>8 DEF UninstallFinds
  <2>. HIDE DEF r, to
  <2>. QED BY <2>1, <2>2, <2>3
<1>9. ASSUME NEW c \in Uninstalls, UninstallReads(c) PROVE MarketTypeInv'
    BY <1>9 DEF UninstallReads, PluginRows
<1>10. ASSUME NEW c \in Uninstalls, UninstallCommits(c) PROVE MarketTypeInv'
  <2>1. IsFiniteSet(installed') /\ installed' \subseteq Installs
      BY <1>10, FS_RemoveElement DEF UninstallCommits
  <2>2. plugins' \in PluginRows
    <3>1. countRead[c] \in Nat
        OBVIOUS
    <3>2. CASE countRead[c] = 0
        BY <1>10, <3>2 DEF UninstallCommits
    <3>3. CASE countRead[c] # 0
      <4>1. countRead[c] - 1 \in Nat
          BY <3>1, <3>3, Neighbours, Zenon
      <4>3. OfPlugin[c] \in Publishes
          OBVIOUS
      <4>2. SetCount(OfPlugin[c], countRead[c] - 1)
          BY <1>10, <3>3 DEF UninstallCommits
      <4>. QED BY <4>1, <4>2, <4>3, CountWritten
    <3>. QED BY <3>2, <3>3
  <2>3. phase' = [phase EXCEPT ![c] = "answered"] /\ UNCHANGED <<countRead, rowRead>>
      BY <1>10 DEF UninstallCommits
  <2>. QED BY <2>1, <2>2, <2>3
<1>. QED BY <1>1, <1>2, <1>3, <1>4, <1>5, <1>6, <1>7, <1>8, <1>9, <1>10 DEF MarketNext

\* A plugin no step touches stays as it was.
Untouched(q) ==
    /\ plugins'[q] = plugins[q] /\ phase'[q] = phase[q] /\ RowsOf(q)' = RowsOf(q)
    /\ q \in together => q \in together'
    /\ \A c \in Installs \cup Uninstalls : OfPlugin[c] = q =>
        phase'[c] = phase[c] /\ countRead'[c] = countRead[c]
    /\ \A c \in Uninstalls : OfPlugin[c] = q => rowRead'[c] = rowRead[c]

LEMMA RowsByTenant == \A p, tenant : Rows(p, tenant) = {i \in RowsOf(p) : OfTenant[i] = tenant}
BY DEF Rows, RowsOf

LEMMA UntouchedKeeps ==
    ASSUME NEW q \in Publishes, PluginOK(q), Untouched(q)
    PROVE  PluginOK(q)'
<1>1. Working(q)' = Working(q)
    BY DEF Untouched, Working
<1>2. \A tenant : Rows(q, tenant)' = Rows(q, tenant)
    BY RowsByTenant DEF Untouched, Rows, RowsOf
<1>3. Published(q)' <=> Published(q)
    BY DEF Untouched, Published
<1>4. CountFits(q)' <=> CountFits(q)
    BY DEF Untouched, CountFits
<1>5. \A c \in Working(q) : ReadFits(c, q)' <=> ReadFits(c, q)
    BY <1>2 DEF Untouched, ReadFits, Working
<1>. QED BY <1>1, <1>2, <1>3, <1>4, <1>5 DEF PluginOK, Untouched

\* A step of one call touches the plugin of the call only.
LEMMA OneCall ==
    ASSUME MarketTypeInv, NEW c \in Installs \cup Uninstalls, NEW p \in Publishes, p = OfPlugin[c],
           \A q \in Publishes \ {p} : plugins'[q] = plugins[q],
           \A d \in PluginCalls \ {c} : phase'[d] = phase[d] /\ countRead'[d] = countRead[d],
           \A d \in Uninstalls \ {c} : rowRead'[d] = rowRead[d],
           together \subseteq together',
           \A i : OfPlugin[i] # p => (i \in installed' <=> i \in installed)
    PROVE  \A q \in Publishes \ {p} : Untouched(q)
<1>. SUFFICES ASSUME NEW q \in Publishes, q # p PROVE Untouched(q)
    OBVIOUS
<1>1. RowsOf(q)' = RowsOf(q)
    BY DEF RowsOf
<1>2. q # c /\ q \in PluginCalls
    BY MarketAssumption DEF MarketAssumption, PluginCalls
<1>3. \A d \in Installs \cup Uninstalls : OfPlugin[d] = q => d # c /\ d \in PluginCalls
    BY DEF PluginCalls
<1>. QED BY <1>1, <1>2, <1>3 DEF Untouched

\* A call that starts on a plugin finds it without others, or the plugin counts as shared.
LEMMA JoinsAlone ==
    ASSUME NEW c \in Installs \cup Uninstalls, NEW p \in Publishes, p = OfPlugin[c], Joins(c)
    PROVE  together \subseteq together' /\ (p \notin together' => p \notin together /\ Working(p) = {})
BY DEF Joins

\* The calls on a plugin after a step of one of them.
LEMMA WorkingMoves ==
    ASSUME MarketTypeInv, NEW c \in Installs \cup Uninstalls, NEW p \in Publishes, NEW to, Turns(c, to)
    PROVE  /\ Working(p)' \subseteq Working(p) \cup {c}
           /\ to = "refused" \/ to = "answered" => Working(p)' = Working(p) \ {c}
           /\ \A d \in PluginCalls \ {c} : phase'[d] = phase[d]
           /\ phase'[c] = to /\ phase'[p] = phase[p]
<1>1. c \in PluginCalls /\ p \in PluginCalls /\ p # c
    BY MarketAssumption DEF MarketAssumption, PluginCalls
<1>2. phase'[c] = to /\ \A d \in PluginCalls \ {c} : phase'[d] = phase[d]
    BY <1>1 DEF Turns, MarketTypeInv
<1>3. \A d \in Installs \cup Uninstalls : d \in PluginCalls
    BY DEF PluginCalls
<1>4. Working(p)' = {d \in Installs \cup Uninstalls : OfPlugin[d] = p /\ phase'[d] \notin {"idle", "answered", "refused"}}
    BY DEF Working
<1>5. Working(p)' \subseteq Working(p) \cup {c}
    BY <1>2, <1>3, <1>4 DEF Working
<1>6. to = "refused" \/ to = "answered" => Working(p)' = Working(p) \ {c}
    BY <1>2, <1>3, <1>4 DEF Working
<1>. QED BY <1>1, <1>2, <1>5, <1>6

\* Installing and uninstalling keep what the invariant says of their own plugin.
LEMMA InstallReadsKeeps ==
    ASSUME MarketInv, NEW c \in Installs, InstallReads(c)
    PROVE  \A p \in Publishes : PluginOK(p)'
<1>. DEFINE p == OfPlugin[c]
           to == IF plugins[p].status = "published" THEN "checking" ELSE "refused"
<1>1. p \in Publishes /\ c \in PluginCalls /\ c \notin Uninstalls
    BY MarketAssumption DEF MarketAssumption, PluginCalls
<1>2. MarketTypeInv /\ \A q \in Publishes : PluginOK(q)
    BY DEF MarketInv
<1>3. /\ phase[c] = "idle" /\ Published(p) /\ Turns(c, to) /\ Joins(c)
      /\ UNCHANGED <<plugins, installed, rowRead>>
      /\ countRead' = [countRead EXCEPT ![c] = plugins[p].install_count]
    BY DEF InstallReads
<1>4. /\ Working(p)' \subseteq Working(p) \cup {c}
      /\ \A d \in PluginCalls \ {c} : phase'[d] = phase[d]
      /\ phase'[c] = to /\ phase'[p] = phase[p] /\ to \in {"checking", "refused"}
    BY <1>1, <1>2, <1>3, WorkingMoves
<1>5. countRead'[c] = plugins[p].install_count /\ \A d \in PluginCalls \ {c} : countRead'[d] = countRead[d]
    BY <1>1, <1>2, <1>3 DEF MarketTypeInv
<1>6. together \subseteq together' /\ (p \notin together' => p \notin together /\ Working(p) = {})
    BY <1>1, <1>3, JoinsAlone
<1>. HIDE DEF p, to
<1>7. \A q \in Publishes \ {p} : PluginOK(q)'
  <2>1. \A q \in Publishes \ {p} : Untouched(q)
      BY <1>1, <1>2, <1>3, <1>4, <1>5, <1>6, OneCall DEF p
  <2>. QED BY <1>2, <2>1, UntouchedKeeps
<1>8. PluginOK(p)'
  <2>1. CountFits(p)' <=> CountFits(p)
      BY <1>3 DEF CountFits, RowsOf
  <2>2. ReadFits(c, p)'
      BY <1>1, <1>3, <1>4, <1>5 DEF ReadFits
  <2>3. PluginOK(p) /\ Published(p) /\ Published(p)'
      BY <1>1, <1>2, <1>3 DEF Published
  <2>. QED BY <1>4, <1>6, <2>1, <2>2, <2>3 DEF PluginOK
<1>. QED BY <1>7, <1>8

LEMMA InstallChecksKeeps ==
    ASSUME MarketInv, NEW c \in Installs, InstallChecks(c)
    PROVE  \A p \in Publishes : PluginOK(p)'
<1>. DEFINE p == OfPlugin[c]
           to == IF Rows(OfPlugin[c], OfTenant[c]) = {} THEN "committing" ELSE "refused"
<1>1. p \in Publishes /\ c \in PluginCalls /\ c \notin Uninstalls
    BY MarketAssumption DEF MarketAssumption, PluginCalls
<1>2. MarketTypeInv /\ \A q \in Publishes : PluginOK(q)
    BY DEF MarketInv
<1>3. /\ phase[c] = "checking" /\ Turns(c, to)
      /\ UNCHANGED <<plugins, installed, countRead, rowRead, together>>
    BY DEF InstallChecks
<1>4. /\ Working(p)' \subseteq Working(p) \cup {c}
      /\ \A d \in PluginCalls \ {c} : phase'[d] = phase[d]
      /\ phase'[c] = to /\ phase'[p] = phase[p]
    BY <1>1, <1>2, <1>3, WorkingMoves
<1>5. c \in Working(p)
    BY <1>3 DEF Working
<1>6. to = "committing" => Rows(p, OfTenant[c]) = {}
    OBVIOUS
<1>. HIDE DEF to
<1>7. \A q \in Publishes \ {p} : PluginOK(q)'
  <2>1. \A q \in Publishes \ {p} : Untouched(q)
      BY <1>1, <1>2, <1>3, <1>4, OneCall
  <2>. QED BY <1>2, <2>1, UntouchedKeeps
<1>8. PluginOK(p)'
  <2>1. CountFits(p)' <=> CountFits(p)
      BY <1>3 DEF CountFits, RowsOf
  <2>2. \A tenant : Rows(p, tenant)' = Rows(p, tenant)
      BY <1>3 DEF Rows
  <2>3. ReadFits(c, p) => ReadFits(c, p)'
      BY <1>1, <1>3, <1>4, <1>6, <2>2 DEF ReadFits
  <2>4. \A d \in Working(p) \ {c} : d \in PluginCalls
      BY DEF Working, PluginCalls
  <2>5. \A d \in Working(p) \ {c} : ReadFits(d, p) => ReadFits(d, p)'
      BY <1>3, <1>4, <2>2, <2>4 DEF ReadFits, RowsOf
  <2>6. PluginOK(p) /\ Published(p) /\ Published(p)'
      BY <1>1, <1>2, <1>3, <1>5 DEF Published, PluginOK
  <2>. QED BY <1>3, <1>4, <1>5, <2>1, <2>3, <2>5, <2>6 DEF PluginOK
<1>. QED BY <1>7, <1>8

LEMMA InstallCommitsKeeps ==
    ASSUME MarketInv, NEW c \in Installs, InstallCommits(c)
    PROVE  \A p \in Publishes : PluginOK(p)'
<1>. DEFINE p == OfPlugin[c]
<1>1. p \in Publishes /\ c \in PluginCalls /\ c \notin Uninstalls
    BY MarketAssumption DEF MarketAssumption, PluginCalls
<1>2. MarketTypeInv /\ (\A q \in Publishes : PluginOK(q)) /\ InstalledAnswered
    BY DEF MarketInv
<1>3. /\ phase[c] = "committing" /\ Turns(c, "answered") /\ SetCount(p, countRead[c] + 1)
      /\ installed' = installed \cup {c}
      /\ UNCHANGED <<countRead, rowRead, together>>
    BY DEF InstallCommits
<1>4. /\ Working(p)' = Working(p) \ {c}
      /\ \A d \in PluginCalls \ {c} : phase'[d] = phase[d]
      /\ phase'[c] = "answered" /\ phase'[p] = phase[p]
    BY <1>1, <1>2, <1>3, WorkingMoves
<1>5. countRead[c] \in Nat /\ countRead[c] + 1 \in Nat
    BY <1>1, <1>2, Neighbours, Zenon DEF MarketTypeInv
<1>6. /\ \A q \in Publishes : plugins'[q].status = plugins[q].status
      /\ \A q \in Publishes \ {p} : plugins'[q] = plugins[q]
      /\ plugins'[p].install_count = countRead[c] + 1
    BY <1>1, <1>2, <1>3, <1>5, CountWritten DEF MarketTypeInv
<1>7. c \in Working(p) /\ c \notin installed
    BY <1>2, <1>3 DEF Working, InstalledAnswered
<1>8. RowsOf(p)' = RowsOf(p) \cup {c} /\ c \notin RowsOf(p)
    BY <1>3, <1>7 DEF RowsOf
<1>9. \A q \in Publishes \ {p} : PluginOK(q)'
  <2>1. \A q \in Publishes \ {p} : Untouched(q)
      BY <1>1, <1>2, <1>3, <1>4, <1>6, OneCall
  <2>. QED BY <1>2, <2>1, UntouchedKeeps
<1>10. PluginOK(p)'
  <2>1. PluginOK(p) /\ Published(p) /\ Published(p)'
      BY <1>1, <1>2, <1>6, <1>7 DEF Published, PluginOK
  <2>2. ASSUME p \notin together PROVE Working(p)' = {} /\ CountFits(p)'
    <3>1. Working(p) = {c} /\ ReadFits(c, p) /\ CountFits(p)
        BY <1>7, <2>1, <2>2 DEF PluginOK
    <3>2. countRead[c] = Cardinality(RowsOf(p)) /\ \A i \in RowsOf(p) : OfTenant[i] # OfTenant[c]
        BY <1>3, <3>1 DEF ReadFits, CountFits, Rows, RowsOf
    <3>3. IsFiniteSet(RowsOf(p))
        BY <1>2, FS_Subset DEF MarketTypeInv, RowsOf
    <3>4. Cardinality(RowsOf(p) \cup {c}) = Cardinality(RowsOf(p)) + 1
        BY <1>8, <3>3, FS_AddElement
    <3>5. \A i, j \in RowsOf(p) \cup {c} : OfTenant[i] = OfTenant[j] => i = j
        BY <3>1, <3>2 DEF CountFits
    <3>. QED BY <1>4, <1>6, <1>8, <3>1, <3>2, <3>4, <3>5 DEF CountFits
  <2>. QED BY <1>3, <1>4, <2>1, <2>2 DEF PluginOK
<1>. QED BY <1>9, <1>10

LEMMA UninstallFindsKeeps ==
    ASSUME MarketInv, NEW c \in Uninstalls, UninstallFinds(c)
    PROVE  (\A p \in Publishes : PluginOK(p)') /\ FoundOwn'
<1>. DEFINE p == OfPlugin[c]
           found == Rows(OfPlugin[c], OfTenant[c])
           to == IF Cardinality(found) = 1 THEN "reading" ELSE "refused"
           row == IF Cardinality(found) = 1 THEN CHOOSE i \in found : TRUE ELSE NoInstall
<1>1. p \in Publishes /\ c \in PluginCalls /\ c \notin Installs
    BY MarketAssumption DEF MarketAssumption, PluginCalls
<1>2. MarketTypeInv /\ (\A q \in Publishes : PluginOK(q)) /\ FoundOwn
    BY DEF MarketInv
<1>3. /\ phase[c] = "idle" /\ Published(p) /\ Turns(c, to) /\ Joins(c)
      /\ rowRead' = [rowRead EXCEPT ![c] = row]
      /\ UNCHANGED <<plugins, installed, countRead>>
    BY DEF UninstallFinds
<1>4. to = "refused" \/ (to = "reading" /\ row \in found)
    BY OneIsThere
<1>5. found \subseteq RowsOf(p) /\ RowsOf(p) \subseteq Installs
    BY <1>2 DEF Rows, RowsOf, MarketTypeInv
<1>. HIDE DEF to, row, found
<1>6. /\ Working(p)' \subseteq Working(p) \cup {c}
      /\ to = "refused" => Working(p)' = Working(p) \ {c}
      /\ \A d \in PluginCalls \ {c} : phase'[d] = phase[d]
      /\ phase'[c] = to /\ phase'[p] = phase[p]
    BY <1>1, <1>2, <1>3, WorkingMoves
<1>7. rowRead'[c] = row /\ \A d \in Uninstalls \ {c} : rowRead'[d] = rowRead[d]
    BY <1>2, <1>3 DEF MarketTypeInv
<1>8. together \subseteq together' /\ (p \notin together' => p \notin together /\ Working(p) = {})
    BY <1>1, <1>3, JoinsAlone
<1>9. \A q \in Publishes \ {p} : PluginOK(q)'
  <2>1. \A q \in Publishes \ {p} : Untouched(q)
      BY <1>1, <1>2, <1>3, <1>6, <1>7, <1>8, OneCall
  <2>. QED BY <1>2, <2>1, UntouchedKeeps
<1>10. PluginOK(p)'
  <2>1. CountFits(p)' <=> CountFits(p)
      BY <1>3 DEF CountFits, RowsOf
  <2>2. to = "reading" => ReadFits(c, p)'
      BY <1>1, <1>3, <1>4, <1>5, <1>6, <1>7 DEF ReadFits, RowsOf
  <2>3. PluginOK(p) /\ Published(p) /\ Published(p)'
      BY <1>1, <1>2, <1>3 DEF Published
  <2>. QED BY <1>4, <1>6, <1>8, <2>1, <2>2, <2>3 DEF PluginOK
<1>11. FoundOwn'
  <2>1. ASSUME NEW d \in Uninstalls, phase'[d] \in {"reading", "committing"}
        PROVE  rowRead'[d] \in Installs /\ OfPlugin[rowRead'[d]] = OfPlugin[d]
    <3>1. CASE d = c
        BY <1>4, <1>5, <1>6, <1>7, <2>1, <3>1 DEF RowsOf
    <3>2. CASE d # c
        BY <1>2, <1>6, <1>7, <2>1, <3>2 DEF FoundOwn, PluginCalls
    <3>. QED BY <3>1, <3>2
  <2>. QED BY <2>1 DEF FoundOwn
<1>. QED BY <1>9, <1>10, <1>11

LEMMA UninstallReadsKeeps ==
    ASSUME MarketInv, NEW c \in Uninstalls, UninstallReads(c)
    PROVE  \A p \in Publishes : PluginOK(p)'
<1>. DEFINE p == OfPlugin[c]
<1>1. p \in Publishes /\ c \in PluginCalls /\ c \notin Installs
    BY MarketAssumption DEF MarketAssumption, PluginCalls
<1>2. MarketTypeInv /\ \A q \in Publishes : PluginOK(q)
    BY DEF MarketInv
<1>3. /\ phase[c] = "reading" /\ Turns(c, "committing")
      /\ countRead' = [countRead EXCEPT ![c] = plugins[p].install_count]
      /\ UNCHANGED <<plugins, installed, rowRead, together>>
    BY DEF UninstallReads
<1>4. /\ Working(p)' \subseteq Working(p) \cup {c}
      /\ \A d \in PluginCalls \ {c} : phase'[d] = phase[d]
      /\ phase'[c] = "committing" /\ phase'[p] = phase[p]
    BY <1>1, <1>2, <1>3, WorkingMoves
<1>5. countRead'[c] = plugins[p].install_count /\ \A d \in PluginCalls \ {c} : countRead'[d] = countRead[d]
    BY <1>1, <1>2, <1>3 DEF MarketTypeInv
<1>6. c \in Working(p)
    BY <1>3 DEF Working
<1>7. \A q \in Publishes \ {p} : PluginOK(q)'
  <2>1. \A q \in Publishes \ {p} : Untouched(q)
      BY <1>1, <1>2, <1>3, <1>4, <1>5, OneCall
  <2>. QED BY <1>2, <2>1, UntouchedKeeps
<1>8. PluginOK(p)'
  <2>1. CountFits(p)' <=> CountFits(p)
      BY <1>3 DEF CountFits, RowsOf
  <2>2. ReadFits(c, p) => ReadFits(c, p)'
      BY <1>1, <1>3, <1>4, <1>5 DEF ReadFits, RowsOf
  <2>3. PluginOK(p) /\ Published(p) /\ Published(p)'
      BY <1>1, <1>2, <1>3, <1>6 DEF Published, PluginOK
  <2>. QED BY <1>3, <1>4, <1>6, <2>1, <2>2, <2>3 DEF PluginOK
<1>. QED BY <1>7, <1>8

LEMMA UninstallCommitsKeeps ==
    ASSUME MarketInv, NEW c \in Uninstalls, UninstallCommits(c)
    PROVE  \A p \in Publishes : PluginOK(p)'
<1>. DEFINE p == OfPlugin[c]
           row == rowRead[c]
<1>1. p \in Publishes /\ c \in PluginCalls /\ c \notin Installs
    BY MarketAssumption DEF MarketAssumption, PluginCalls
<1>2. MarketTypeInv /\ (\A q \in Publishes : PluginOK(q)) /\ FoundOwn
    BY DEF MarketInv
<1>3. /\ phase[c] = "committing" /\ Turns(c, "answered")
      /\ countRead[c] = 0 => plugins' = plugins
      /\ countRead[c] # 0 => SetCount(p, countRead[c] - 1)
      /\ installed' = installed \ {row}
      /\ UNCHANGED <<countRead, rowRead, together>>
    BY DEF UninstallCommits
<1>4. /\ Working(p)' = Working(p) \ {c}
      /\ \A d \in PluginCalls \ {c} : phase'[d] = phase[d]
      /\ phase'[c] = "answered" /\ phase'[p] = phase[p]
    BY <1>1, <1>2, <1>3, WorkingMoves
<1>5. countRead[c] \in Nat /\ (countRead[c] # 0 => countRead[c] - 1 \in Nat)
    BY <1>1, <1>2, Neighbours, Zenon DEF MarketTypeInv
<1>6. /\ \A q \in Publishes : plugins'[q].status = plugins[q].status
      /\ \A q \in Publishes \ {p} : plugins'[q] = plugins[q]
      /\ countRead[c] # 0 => plugins'[p].install_count = countRead[c] - 1
    BY <1>1, <1>2, <1>3, <1>5, CountWritten DEF MarketTypeInv
<1>7. c \in Working(p) /\ OfPlugin[row] = p
    BY <1>2, <1>3 DEF Working, FoundOwn
<1>8. RowsOf(p)' = RowsOf(p) \ {row}
    BY <1>3 DEF RowsOf
<1>9. \A q \in Publishes \ {p} : PluginOK(q)'
  <2>1. \A q \in Publishes \ {p} : Untouched(q)
      BY <1>1, <1>2, <1>3, <1>4, <1>6, <1>7, OneCall
  <2>. QED BY <1>2, <2>1, UntouchedKeeps
<1>10. PluginOK(p)'
  <2>1. PluginOK(p) /\ Published(p) /\ Published(p)'
      BY <1>1, <1>2, <1>6, <1>7 DEF Published, PluginOK
  <2>2. ASSUME p \notin together PROVE Working(p)' = {} /\ CountFits(p)'
    <3>1. Working(p) = {c} /\ ReadFits(c, p) /\ CountFits(p)
        BY <1>7, <2>1, <2>2 DEF PluginOK
    <3>2. countRead[c] = Cardinality(RowsOf(p)) /\ row \in RowsOf(p)
        BY <1>3, <3>1 DEF ReadFits, CountFits
    <3>3. IsFiniteSet(RowsOf(p))
        BY <1>2, FS_Subset DEF MarketTypeInv, RowsOf
    <3>4. Cardinality(RowsOf(p) \ {row}) = Cardinality(RowsOf(p)) - 1
        BY <3>2, <3>3, FS_RemoveElement
    <3>5. countRead[c] # 0
        BY <3>2, <3>3, FS_EmptySet
    <3>6. \A i, j \in RowsOf(p) \ {row} : OfTenant[i] = OfTenant[j] => i = j
        BY <3>1 DEF CountFits
    <3>. HIDE DEF row
    <3>. QED BY <1>4, <1>6, <1>8, <3>1, <3>2, <3>4, <3>5, <3>6 DEF CountFits
  <2>. QED BY <1>3, <1>4, <2>1, <2>2 DEF PluginOK
<1>. QED BY <1>9, <1>10

\* Publishing and editing a plugin keep its count and its installations.
LEMMA PublishingKeeps ==
    ASSUME MarketInv, NEW p \in Publishes,
           \/ PublishChecks(p) \/ PublishInserts(p)
           \/ \E to \in PluginStatuses : StatusChanges(p, to)
    PROVE  \A q \in Publishes : PluginOK(q)'
<1>1. MarketTypeInv /\ (\A q \in Publishes : PluginOK(q)) /\ p \in PluginCalls
    BY DEF MarketInv, PluginCalls
<1>2. UNCHANGED <<installed, countRead, rowRead, together>>
    BY DEF PublishChecks, PublishInserts, StatusChanges
<1>3. \A d \in PluginCalls \ {p} : phase'[d] = phase[d]
    BY <1>1 DEF PublishChecks, PublishInserts, StatusChanges, Turns, MarketTypeInv
<1>4. \A q \in Publishes \ {p} : plugins'[q] = plugins[q]
    BY <1>1 DEF PublishChecks, PublishInserts, StatusChanges, MarketTypeInv, PluginRows
<1>5. \A d \in Installs \cup Uninstalls : phase'[d] = phase[d]
    BY <1>3, MarketAssumption DEF MarketAssumption, PluginCalls
<1>6. \A q \in Publishes \ {p} : PluginOK(q)'
  <2>1. \A q \in Publishes \ {p} : Untouched(q)
      BY <1>2, <1>3, <1>4, <1>5 DEF Untouched, RowsOf, PluginCalls
  <2>. QED BY <1>1, <2>1, UntouchedKeeps
<1>7. plugins'[p].install_count = plugins[p].install_count => (PluginOK(p) =>
         /\ CountFits(p)' <=> CountFits(p)
         /\ Working(p)' = Working(p) /\ RowsOf(p)' = RowsOf(p)
         /\ \A c \in Working(p) : ReadFits(c, p)' <=> ReadFits(c, p))
    BY <1>2, <1>5 DEF CountFits, Working, RowsOf, Rows, ReadFits
<1>8. PluginOK(p)'
  <2>1. CASE PublishChecks(p)
    <3>1. plugins' = plugins /\ phase[p] = "idle"
        BY <2>1 DEF PublishChecks
    <3>. QED BY <1>1, <1>2, <1>7, <3>1 DEF PluginOK, Published
  <2>2. CASE PublishInserts(p)
    <3>1. /\ phase[p] = "inserting" /\ phase'[p] = "answered"
          /\ plugins'[p].status = "published" /\ plugins'[p].install_count = 0
        BY <1>1, <2>2 DEF PublishInserts, Turns, MarketTypeInv, PluginRows
    <3>2. plugins[p].install_count = 0
        BY <1>1, <3>1 DEF PluginOK
    <3>. QED BY <1>1, <1>2, <1>7, <3>1, <3>2 DEF PluginOK, Published
  <2>3. CASE \E to \in PluginStatuses : StatusChanges(p, to)
    <3>1. /\ phase' = phase /\ Published(p) /\ plugins'[p].install_count = plugins[p].install_count
          /\ plugins'[p].status \in PluginStatuses
        BY <1>1, <2>3 DEF StatusChanges, MarketTypeInv, PluginRows
    <3>2. Published(p)'
        BY <3>1 DEF Published, PluginStatuses
    <3>. QED BY <1>1, <1>2, <1>7, <3>1, <3>2 DEF PluginOK
  <2>. QED BY <2>1, <2>2, <2>3
<1>. QED BY <1>6, <1>8

LEMMA MarketStep == MarketInv /\ [MarketNext]_marketVars => MarketInv'
<1>. SUFFICES ASSUME MarketInv, [MarketNext]_marketVars
             PROVE  InstalledAnswered' /\ FoundOwn' /\ \A p \in Publishes : PluginOK(p)'
    BY MarketTypes DEF MarketInv
<1>1. MarketTypeInv /\ InstalledAnswered /\ FoundOwn /\ \A p \in Publishes : PluginOK(p)
    BY DEF MarketInv
<1>2. CASE UNCHANGED marketVars
  <2>1. \A p \in Publishes : Untouched(p)
      BY <1>2 DEF marketVars, Untouched, RowsOf
  <2>2. InstalledAnswered' /\ FoundOwn'
      BY <1>1, <1>2 DEF marketVars, InstalledAnswered, FoundOwn
  <2>. QED BY <1>1, <2>1, <2>2, UntouchedKeeps
<1>3. ASSUME NEW p \in Publishes,
             \/ PublishChecks(p) \/ PublishInserts(p)
             \/ \E to \in PluginStatuses : StatusChanges(p, to)
      PROVE  InstalledAnswered' /\ FoundOwn' /\ \A q \in Publishes : PluginOK(q)'
  <2>0. p \in PluginCalls /\ \A d \in Installs \cup Uninstalls : d # p /\ d \in PluginCalls
      BY <1>3, MarketAssumption DEF MarketAssumption, PluginCalls
  <2>0a. UNCHANGED <<installed, rowRead>> /\ (phase' = phase \/ \E to : phase' = [phase EXCEPT ![p] = to])
      BY <1>3 DEF PublishChecks, PublishInserts, StatusChanges, Turns
  <2>1. UNCHANGED <<installed, rowRead>> /\ \A d \in Installs \cup Uninstalls : phase'[d] = phase[d]
      BY <1>1, <2>0, <2>0a DEF MarketTypeInv
  <2>2. InstalledAnswered' /\ FoundOwn'
      BY <1>1, <2>1 DEF InstalledAnswered, FoundOwn, MarketTypeInv
  <2>. QED BY <1>3, <2>2, PublishingKeeps
<1>4. ASSUME NEW c \in Installs, InstallReads(c) \/ InstallChecks(c) \/ InstallCommits(c)
      PROVE  InstalledAnswered' /\ FoundOwn' /\ \A q \in Publishes : PluginOK(q)'
  <2>1. /\ phase[c] # "answered" /\ c \notin Uninstalls /\ c \in PluginCalls
        /\ rowRead' = rowRead /\ \A d \in PluginCalls \ {c} : phase'[d] = phase[d]
      BY <1>1, <1>4, MarketAssumption
         DEF InstallReads, InstallChecks, InstallCommits, Turns, MarketTypeInv, MarketAssumption, PluginCalls
  <2>2. FoundOwn'
      BY <1>1, <2>1 DEF FoundOwn, PluginCalls
  <2>3. \A i \in installed : i # c /\ i \in PluginCalls
      BY <1>1, <2>1 DEF InstalledAnswered, MarketTypeInv, PluginCalls
  <2>4. installed' = installed \/ (installed' = installed \cup {c} /\ phase'[c] = "answered")
      BY <1>1, <1>4, <2>1 DEF InstallReads, InstallChecks, InstallCommits, Turns, MarketTypeInv
  <2>5. InstalledAnswered'
      BY <1>1, <2>1, <2>3, <2>4 DEF InstalledAnswered
  <2>. QED BY <1>4, <2>2, <2>5, InstallReadsKeeps, InstallChecksKeeps, InstallCommitsKeeps
<1>5. ASSUME NEW c \in Uninstalls, UninstallFinds(c) \/ UninstallReads(c) \/ UninstallCommits(c)
      PROVE  InstalledAnswered' /\ FoundOwn' /\ \A q \in Publishes : PluginOK(q)'
  <2>1. /\ phase[c] # "answered" /\ c \in PluginCalls
        /\ installed' \subseteq installed /\ \A d \in PluginCalls \ {c} : phase'[d] = phase[d]
      BY <1>1, <1>5 DEF UninstallFinds, UninstallReads, UninstallCommits, Turns, MarketTypeInv, PluginCalls
  <2>2. InstalledAnswered'
      BY <1>1, <2>1 DEF InstalledAnswered, MarketTypeInv, PluginCalls
  <2>3. UninstallReads(c) \/ UninstallCommits(c) =>
          rowRead' = rowRead /\ phase[c] \in {"reading", "committing"}
      BY DEF UninstallReads, UninstallCommits
  <2>4. UninstallReads(c) \/ UninstallCommits(c) => FoundOwn'
      BY <1>1, <2>1, <2>3 DEF FoundOwn, PluginCalls
  <2>. QED BY <1>5, <2>2, <2>4, UninstallFindsKeeps, UninstallReadsKeeps, UninstallCommitsKeeps
<1>. QED BY <1>2, <1>3, <1>4, <1>5 DEF MarketNext

LEMMA MarketStart == MarketInit => MarketInv
<1>. SUFFICES ASSUME MarketInit PROVE MarketInv
    OBVIOUS
<1>1. MarketTypeInv
    BY FS_EmptySet DEF MarketInit, MarketTypeInv, PluginRows, PluginStatuses, PluginCalls
<1>2. \A c \in PluginCalls : phase[c] = "idle"
    BY DEF MarketInit
<1>3. \A p \in Publishes : ~Published(p) /\ plugins[p].install_count = 0
    BY DEF MarketInit, Published
<1>4. \A p \in Publishes : Working(p) = {} /\ RowsOf(p) = {}
    BY <1>2 DEF MarketInit, Working, RowsOf, PluginCalls
<1>5. Cardinality({}) = 0
    BY FS_EmptySet
<1>6. \A p \in Publishes : PluginOK(p)
    BY <1>3, <1>4, <1>5 DEF PluginOK, CountFits
<1>7. InstalledAnswered /\ FoundOwn
    BY <1>2 DEF MarketInit, InstalledAnswered, FoundOwn, PluginCalls
<1>. QED BY <1>1, <1>6, <1>7 DEF MarketInv

\* However many tenants install, uninstall, publish and edit: on a plugin whose installs and uninstalls
\* never overlapped, install_count is the number of installations and no tenant has two.
THEOREM CountCorrect == MarketSpec => []CountsInstallations
<1>1. MarketInv => CountsInstallations
    BY DEF MarketInv, PluginOK, CountFits, CountsInstallations
<1>. QED BY <1>1, MarketStart, MarketStep, PTL DEF MarketSpec

-----------------------------------------------------------------------------
(* Workspace: messages and applications                                    *)

\* What an add has written, once it has.
MessageOf(d) ==
    [by |-> d, conv |-> adding[d].conv, sequence_number |-> adding[d].seq, after |-> adding[d].after]
Authors(v) == {m.by : m \in MessagesOf(v)}
Counting == {d \in Adds : adding[d].stage # "idle"}

\* A message is what its add has counted.
MessagesWritten == \A m \in messages : adding[m.by].stage = "ended" /\ m = MessageOf(m.by)

\* An add has counted every message there was, and what those had counted; none of them goes before
\* the conversation does, and an id is not used again.
CountedAll ==
    \A d \in Counting :
        /\ adding[d].conv \in Convs /\ convs[adding[d].conv].state # "unused"
        /\ IsFiniteSet(adding[d].after) /\ adding[d].seq = Cardinality(adding[d].after)
        /\ Exists(adding[d].conv) => adding[d].after \subseteq Authors(adding[d].conv)
        /\ \A e \in adding[d].after :
             /\ adding[e].stage = "ended" /\ adding[e].conv = adding[d].conv
             /\ adding[e].after \subseteq adding[d].after /\ e \notin adding[e].after

MessagesInv == WorkspaceTypeOK /\ IsFiniteSet(messages) /\ MessagesWritten /\ CountedAll

\* A conversation still refers to the application it was created for, or that was deleted meanwhile;
\* one whose application is gone was opened late.
RefersOrLost ==
    \A v \in Convs : Exists(v) =>
        /\ \/ convs[v].app = convs[v].from
           \/ convs[v].app = NoApp /\ apps[convs[v].from] = "absent"
        /\ convs[v].from # NoApp /\ apps[convs[v].from] = "absent" =>
             convs[v].late /\ (enforced => convs[v].app = NoApp)

\* A message whose conversation is gone was added late.
OrphansLate == \A m \in messages : ~Exists(m.conv) => ~enforced /\ adding[m.by].late

\* The messages a removal has loaded are of conversations it has.
ReadLoaded(x) == \A m \in removing[x].read : m.conv \in removing[x].loaded

\* What a removal under way has not loaded came after it.
LoadedOrLater ==
    \A x \in Removals : removing[x].stage = "loaded" =>
        /\ \A v \in Convs : Exists(v) /\ removing[x].app # NoApp /\ convs[v].app = removing[x].app =>
              v \in removing[x].loaded \/ convs[v].late
        /\ \A m \in messages : m.conv \in removing[x].loaded =>
              m \in removing[x].read \/ adding[m.by].late
        /\ ReadLoaded(x)

ReferencesInv == RefersOrLost /\ OrphansLate /\ LoadedOrLater
WorkspaceInv == MessagesInv /\ ReferencesInv

\* Fields of the records of the tables and the requests.
LEMMA WorkspaceFields ==
    ASSUME WorkspaceTypeOK
    PROVE  /\ \A v \in Convs : /\ convs[v].state \in {"unused", "active", "archived", "deleted"}
                               /\ convs[v].app \in Apps \cup {NoApp} /\ convs[v].from \in Apps \cup {NoApp}
                               /\ convs[v].late \in BOOLEAN
           /\ \A m \in messages : m.by \in Adds /\ m.conv \in Convs
           /\ \A d \in Adds : /\ adding[d].stage \in {"idle", "counted", "ended"}
                              /\ adding[d].after \subseteq Adds
    BY DEF WorkspaceTypeOK, Conversation, Message

\* A state of a conversation changed, a conversation opened.
LEMMA StateSet ==
    ASSUME WorkspaceTypeOK, NEW v \in Convs, NEW state \in {"active", "archived", "deleted"},
           convs' = [convs EXCEPT ![v].state = state]
    PROVE  /\ convs' \in [Convs -> Conversation]
           /\ convs'[v].state = state /\ convs'[v].app = convs[v].app
           /\ convs'[v].from = convs[v].from /\ convs'[v].late = convs[v].late
           /\ \A w \in Convs \ {v} : convs'[w] = convs[w]
<1>1. convs \in [Convs -> Conversation]
    BY DEF WorkspaceTypeOK
<1>2. \A r \in Conversation : LET q == [r EXCEPT !.state = state] IN
        /\ q \in Conversation
        /\ q.state = state /\ q.app = r.app /\ q.from = r.from /\ q.late = r.late
    BY DEF Conversation
<1>3. convs' = [convs EXCEPT ![v] = [convs[v] EXCEPT !.state = state]]
    OBVIOUS
<1>. QED BY <1>1, <1>2, <1>3

LEMMA Opened ==
    ASSUME WorkspaceTypeOK, NEW v \in Convs, NEW a \in Apps \cup {NoApp}, Open(v, a)
    PROVE  /\ convs' \in [Convs -> Conversation]
           /\ convs[v].state = "unused" /\ convs'[v].state = "active"
           /\ convs'[v].app = a /\ convs'[v].from = a
           /\ convs'[v].late = (a \in Apps /\ (apps[a] = "absent" \/ Leaving(a)))
           /\ enforced /\ a \in Apps => apps[a] # "absent"
           /\ \A w \in Convs \ {v} : convs'[w] = convs[w]
<1>. DEFINE late == a \in Apps /\ (apps[a] = "absent" \/ Leaving(a))
             r == [state |-> "active", app |-> a, from |-> a, late |-> late]
<1>0. late \in BOOLEAN
    OBVIOUS
<1>1. convs \in [Convs -> Conversation] /\ convs[v] = Unused /\ convs' = [convs EXCEPT ![v] = r]
    BY DEF WorkspaceTypeOK, Open
<1>2. /\ r \in Conversation /\ r.state = "active" /\ r.app = a /\ r.from = a
      /\ r.late = late
  <2>. HIDE DEF late
  <2>. QED BY <1>0 DEF Conversation
<1>3. Unused.state = "unused"
    BY DEF Unused
<1>4. enforced /\ a \in Apps => apps[a] # "absent"
    BY DEF Open
<1>5. late = (a \in Apps /\ (apps[a] = "absent" \/ Leaving(a)))
    OBVIOUS
<1>. HIDE DEF r, late
<1>6. convs'[v] = r /\ \A w \in Convs \ {v} : convs'[w] = convs[w]
    BY <1>1, <1>2
<1>7. convs' \in [Convs -> Conversation]
    BY <1>1, <1>2
<1>. QED BY <1>1, <1>2, <1>3, <1>4, <1>5, <1>6, <1>7

\* What a removal's commit does to each conversation.
LEMMA AppRemoved ==
    ASSUME WorkspaceTypeOK, NEW x \in Removals, DeleteApplication(x) \/ DeleteConversation(x)
    PROVE  /\ convs' \in [Convs -> Conversation]
           /\ \A v \in Convs :
                /\ convs'[v].from = convs[v].from /\ convs'[v].late = convs[v].late
                /\ v \in removing[x].loaded => convs'[v].state = "deleted" /\ convs'[v].app = convs[v].app
                /\ v \notin removing[x].loaded =>
                     /\ convs'[v].state = convs[v].state
                     /\ convs'[v].app = IF enforced /\ removing[x].app # NoApp /\ convs[v].app = removing[x].app
                                        THEN NoApp ELSE convs[v].app
<1>1. \A v \in Convs : convs[v] \in Conversation
    BY DEF WorkspaceTypeOK
<1>2. \A r \in Conversation :
        /\ [r EXCEPT !.state = "deleted"] \in Conversation
        /\ [r EXCEPT !.app = NoApp] \in Conversation
        /\ LET q == [r EXCEPT !.state = "deleted"] IN
             q.state = "deleted" /\ q.app = r.app /\ q.from = r.from /\ q.late = r.late
        /\ LET q == [r EXCEPT !.app = NoApp] IN
             q.state = r.state /\ q.app = NoApp /\ q.from = r.from /\ q.late = r.late
    BY DEF Conversation
<1>3. CASE DeleteApplication(x)
  <2>1. /\ removing[x].app # NoApp
        /\ convs' = [v \in Convs |->
             IF v \in removing[x].loaded THEN [convs[v] EXCEPT !.state = "deleted"]
             ELSE IF enforced /\ convs[v].app = removing[x].app
                  THEN [convs[v] EXCEPT !.app = NoApp] ELSE convs[v]]
      BY <1>3 DEF DeleteApplication
  <2>. QED BY <1>1, <1>2, <2>1
<1>4. CASE DeleteConversation(x)
  <2>1. /\ removing[x].app = NoApp
        /\ convs' = [v \in Convs |->
             IF v \in removing[x].loaded THEN [convs[v] EXCEPT !.state = "deleted"] ELSE convs[v]]
      BY <1>4 DEF DeleteConversation
  <2>. QED BY <1>1, <1>2, <2>1
<1>. QED BY <1>3, <1>4

\* Steps of conversations: those of D are deleted with their messages, others opened or archived.
LEMMA ConvsMove ==
    ASSUME MessagesInv, NEW D \in SUBSET Convs, adding' = adding,
           messages' \subseteq messages, \A m \in messages : m.conv \notin D => m \in messages',
           \A v \in Convs :
               /\ Exists(v) /\ v \notin D => Exists(v)'
               /\ Exists(v)' => v \notin D /\ (Exists(v) \/ convs[v].state = "unused")
               /\ convs'[v].state = "unused" => convs[v].state = "unused"
    PROVE  IsFiniteSet(messages)' /\ MessagesWritten' /\ CountedAll'
<1>1. WorkspaceTypeOK /\ IsFiniteSet(messages) /\ MessagesWritten /\ CountedAll
    BY DEF MessagesInv
<1>2. messages' \subseteq messages /\ IsFiniteSet(messages')
    BY <1>1, FS_Subset
<1>3. \A m \in messages : m.conv \in Convs /\ MessageOf(m.by)' = MessageOf(m.by)
    BY <1>1, WorkspaceFields DEF MessageOf
<1>4. MessagesWritten'
    BY <1>1, <1>2, <1>3 DEF MessagesWritten
<1>5. \A v \in Convs \ D : Authors(v)' = Authors(v)
    BY DEF Authors, MessagesOf
<1>6. CountedAll'
  <2>1. \A d \in Counting : Exists(adding[d].conv)' => adding[d].after \subseteq Authors(adding[d].conv)'
      BY <1>1, <1>5 DEF CountedAll
  <2>2. \A d \in Counting : convs'[adding[d].conv].state # "unused"
      BY <1>1 DEF CountedAll
  <2>3. Counting' = Counting
      BY DEF Counting
  <2>. QED BY <1>1, <2>1, <2>2, <2>3 DEF CountedAll, Exists, Authors, MessagesOf
<1>. QED BY <1>2, <1>4, <1>6

\* The authors of a conversation's messages are as many as the messages (conversations.py:334 to 338).
LEMMA AuthorsCounted ==
    ASSUME MessagesInv, NEW v \in Convs
    PROVE  IsFiniteSet(Authors(v)) /\ Cardinality(MessagesOf(v)) = Cardinality(Authors(v))
<1>. DEFINE f == [m \in MessagesOf(v) |-> m.by]
<1>1. IsFiniteSet(MessagesOf(v)) /\ \A m \in MessagesOf(v) : m = MessageOf(m.by)
    BY FS_Subset DEF MessagesInv, MessagesWritten, MessagesOf
<1>2. f \in Surjection(MessagesOf(v), Authors(v))
    BY DEF Surjection, Authors
<1>3. f \in Injection(MessagesOf(v), Authors(v))
    BY <1>1, <1>2 DEF Injection, IsInjective, Surjection
<1>4. f \in Bijection(MessagesOf(v), Authors(v))
    BY <1>2, <1>3 DEF Bijection
<1>. QED BY <1>1, <1>4, FS_Bijection DEF ExistsBijection

LEMMA CountsKeeps ==
    ASSUME MessagesInv, NEW d \in Adds, NEW v \in Convs, AddCounts(d, v), UNCHANGED enforced
    PROVE  MessagesInv'
<1>1. /\ WorkspaceTypeOK /\ IsFiniteSet(messages) /\ MessagesWritten /\ CountedAll
      /\ adding[d].stage = "idle" /\ Exists(v)
      /\ UNCHANGED <<enforced, apps, convs, messages, running, removing>>
    BY DEF MessagesInv, AddCounts
<1>2. IsFiniteSet(Authors(v)) /\ Cardinality(MessagesOf(v)) = Cardinality(Authors(v))
      /\ Cardinality(MessagesOf(v)) \in Nat
    BY AuthorsCounted, FS_CardinalityType
<1>3. Authors(v) \subseteq Adds
    BY <1>1, WorkspaceFields DEF Authors, MessagesOf
<1>4. /\ adding' \in [Adds -> [stage : {"idle", "counted", "ended"}, conv : Convs \cup {NoConv},
                               seq : Nat, after : SUBSET Adds, late : BOOLEAN]]
      /\ adding'[d] = [stage |-> "counted", conv |-> v, seq |-> Cardinality(Authors(v)), after |-> Authors(v), late |-> FALSE]
      /\ \A e \in Adds \ {d} : adding'[e] = adding[e]
    BY <1>1, <1>2, <1>3 DEF AddCounts, Authors, WorkspaceTypeOK
<1>5. WorkspaceTypeOK'
    BY <1>1, <1>4 DEF WorkspaceTypeOK
<1>6. \A m \in messages : m.by \in Adds \ {d}
    BY <1>1, WorkspaceFields DEF MessagesWritten
<1>7. MessagesWritten'
    BY <1>1, <1>4, <1>6 DEF MessagesWritten, MessageOf, Exists
<1>8. CountedAll'
  <2>1. \A w : Authors(w)' = Authors(w) /\ (Exists(w)' <=> Exists(w))
      BY <1>1 DEF Authors, MessagesOf, Exists
  <2>2. \A e \in Authors(v) :
          /\ e \in Adds \ {d} /\ adding[e].stage = "ended" /\ adding[e].conv = v
          /\ adding[e].after \subseteq Authors(v) /\ e \notin adding[e].after
    <3>. SUFFICES ASSUME NEW e \in Authors(v)
                 PROVE  /\ e \in Adds \ {d} /\ adding[e].stage = "ended" /\ adding[e].conv = v
                        /\ adding[e].after \subseteq Authors(v) /\ e \notin adding[e].after
        OBVIOUS
    <3>1. PICK m \in MessagesOf(v) : e = m.by
        BY DEF Authors
    <3>2. m \in messages /\ m.conv = v /\ m = MessageOf(e) /\ adding[e].stage = "ended" /\ e \in Adds \ {d}
        BY <1>1, <1>6, <3>1 DEF MessagesOf, MessagesWritten
    <3>3. adding[e].conv = v
        BY <3>2 DEF MessageOf
    <3>4. e \in Counting
        BY <3>2 DEF Counting
    <3>. QED BY <1>1, <3>2, <3>3, <3>4 DEF CountedAll
  <2>3. Counting' = Counting \cup {d}
      BY <1>4 DEF Counting
  <2>. SUFFICES ASSUME NEW c \in Counting \cup {d}
               PROVE  /\ adding'[c].conv \in Convs /\ convs[adding'[c].conv].state # "unused"
                      /\ IsFiniteSet(adding'[c].after) /\ adding'[c].seq = Cardinality(adding'[c].after)
                      /\ Exists(adding'[c].conv) => adding'[c].after \subseteq Authors(adding'[c].conv)
                      /\ \A e \in adding'[c].after :
                           /\ adding'[e].stage = "ended" /\ adding'[e].conv = adding'[c].conv
                           /\ adding'[e].after \subseteq adding'[c].after /\ e \notin adding'[e].after
      BY <1>1, <2>1, <2>3 DEF CountedAll, Exists, Authors, MessagesOf
  <2>4. CASE c = d
      BY <1>1, <1>2, <1>4, <2>2, <2>4 DEF Exists
  <2>5. CASE c # d
    <3>1. adding'[c] = adding[c] /\ c \in Counting
        BY <1>4, <2>5 DEF Counting
    <3>2. \A e \in adding[c].after : e \in Adds \ {d} /\ adding'[e] = adding[e]
        BY <1>1, <1>4, <3>1, WorkspaceFields DEF CountedAll, Counting
    <3>. QED BY <1>1, <3>1, <3>2 DEF CountedAll
  <2>. QED BY <2>4, <2>5
<1>. QED BY <1>1, <1>5, <1>7, <1>8 DEF MessagesInv

LEMMA InsertsKeeps ==
    ASSUME MessagesInv, NEW d \in Adds, AddInserts(d), UNCHANGED enforced
    PROVE  MessagesInv'
<1>1. /\ WorkspaceTypeOK /\ IsFiniteSet(messages) /\ MessagesWritten /\ CountedAll
      /\ adding[d].stage = "counted" /\ d \in Counting
      /\ messages' = messages \cup {m \in {MessageOf(d)} : Exists(adding[d].conv)}
      /\ UNCHANGED <<enforced, apps, convs, running, removing>>
    BY DEF MessagesInv, AddInserts, Counting, MessageOf
<1>2. /\ adding' \in [Adds -> [stage : {"idle", "counted", "ended"}, conv : Convs \cup {NoConv},
                               seq : Nat, after : SUBSET Adds, late : BOOLEAN]]
      /\ \A e \in Adds : /\ adding'[e].conv = adding[e].conv /\ adding'[e].seq = adding[e].seq
                         /\ adding'[e].after = adding[e].after
                         /\ adding'[e].stage = IF e = d THEN "ended" ELSE adding[e].stage
  <2>0. Closing(adding[d].conv) \in BOOLEAN
      BY DEF Closing
  <2>1. PICK late \in BOOLEAN : adding' = [adding EXCEPT ![d].stage = "ended", ![d].late = late]
    <3>1. adding' = [adding EXCEPT ![d].stage = "ended", ![d].late = Closing(adding[d].conv)]
        BY DEF AddInserts
    <3>. QED BY <2>0, <3>1, Zenon
  <2>. DEFINE R == [stage : {"idle", "counted", "ended"}, conv : Convs \cup {NoConv},
                    seq : Nat, after : SUBSET Adds, late : BOOLEAN]
              q == [adding[d] EXCEPT !.stage = "ended", !.late = late]
  <2>2. adding \in [Adds -> R] /\ adding' = [adding EXCEPT ![d] = q]
      BY <1>1, <2>1 DEF WorkspaceTypeOK
  <2>3. \A r \in R : LET p == [r EXCEPT !.stage = "ended", !.late = late] IN
          p \in R /\ p.conv = r.conv /\ p.seq = r.seq /\ p.after = r.after /\ p.stage = "ended"
      OBVIOUS
  <2>4. q \in R /\ q.conv = adding[d].conv /\ q.seq = adding[d].seq /\ q.after = adding[d].after /\ q.stage = "ended"
      BY <2>2, <2>3
  <2>. HIDE DEF R, q
  <2>5. adding' \in [Adds -> R] /\ \A e \in Adds : adding'[e] = IF e = d THEN q ELSE adding[e]
      BY <2>2, <2>4
  <2>. QED BY <2>4, <2>5 DEF R
<1>3. \A e \in Adds : MessageOf(e)' = MessageOf(e)
    BY <1>2 DEF MessageOf
<1>4. MessageOf(d) \in Message /\ MessageOf(d).by = d /\ MessageOf(d).conv = adding[d].conv
    BY <1>1 DEF MessageOf, Message, CountedAll, WorkspaceTypeOK
<1>5. WorkspaceTypeOK'
    BY <1>1, <1>2, <1>4 DEF WorkspaceTypeOK
<1>6. IsFiniteSet(messages)'
  <2>1. IsFiniteSet(messages \cup {MessageOf(d)})
      BY <1>1, FS_AddElement
  <2>2. messages' \in SUBSET (messages \cup {MessageOf(d)})
      BY <1>1
  <2>. QED BY <2>1, <2>2, FS_Subset
<1>7. \A w : (Exists(w)' <=> Exists(w)) /\ Authors(w) \subseteq Authors(w)'
    BY <1>1 DEF Exists, Authors, MessagesOf
<1>8. MessagesWritten'
  <2>. SUFFICES ASSUME NEW m \in messages'
               PROVE  adding'[m.by].stage = "ended" /\ m = MessageOf(m.by)'
      BY <1>7 DEF MessagesWritten, MessageOf
  <2>1. CASE m \in messages
    <3>1. m.by \in Adds /\ adding[m.by].stage = "ended" /\ m = MessageOf(m.by)
        BY <1>1, <2>1, WorkspaceFields DEF MessagesWritten
    <3>2. MessageOf(m.by)' = MessageOf(m.by)
        BY <1>2, <3>1 DEF MessageOf
    <3>. QED BY <1>2, <3>1, <3>2
  <2>2. CASE m \notin messages
    <3>1. m = MessageOf(d) /\ Exists(adding[d].conv) /\ m.by = d /\ m.conv = adding[d].conv
        BY <1>1, <1>4, <2>2
    <3>2. MessageOf(m.by)' = MessageOf(d)
        BY <1>2, <3>1 DEF MessageOf
    <3>. QED BY <1>2, <3>1, <3>2
  <2>. QED BY <2>1, <2>2
<1>9. CountedAll'
  <2>1. Counting' = Counting
      BY <1>1, <1>2 DEF Counting
  <2>2. ASSUME NEW c \in Counting, NEW w, w = adding[c].conv
        PROVE  /\ adding'[c].conv = w /\ w \in Convs /\ convs[w].state # "unused"
               /\ IsFiniteSet(adding'[c].after) /\ adding'[c].seq = Cardinality(adding'[c].after)
               /\ Exists(w) => adding'[c].after \subseteq Authors(w)'
               /\ \A e \in adding'[c].after :
                    /\ adding'[e].stage = "ended" /\ adding'[e].conv = adding'[c].conv
                    /\ adding'[e].after \subseteq adding'[c].after /\ e \notin adding'[e].after
    <3>1. c \in Adds /\ \A e \in adding[c].after : e \in Adds
        BY <1>1, WorkspaceFields DEF Counting
    <3>2. w \in Convs /\ (Exists(w) => adding[c].after \subseteq Authors(w))
        BY <1>1, <2>2 DEF CountedAll
    <3>3. Authors(w) \subseteq Authors(w)'
        BY <1>7
    <3>. QED BY <1>1, <1>2, <2>2, <3>1, <3>2, <3>3 DEF CountedAll
  <2>3. \A c \in Counting :
          Exists(adding[c].conv)' => Exists(adding[c].conv) /\ adding'[c].after \subseteq Authors(adding[c].conv)'
    <3>. SUFFICES ASSUME NEW c \in Counting
                 PROVE  Exists(adding[c].conv)' => Exists(adding[c].conv)
                          /\ adding'[c].after \subseteq Authors(adding[c].conv)'
        OBVIOUS
    <3>1. PICK w : w = adding[c].conv
        OBVIOUS
    <3>2. /\ adding'[c].conv = w
          /\ Exists(w) => adding'[c].after \subseteq Authors(w)'
        BY <2>2, <3>1
    <3>. QED BY <1>1, <3>1, <3>2 DEF Exists, Authors, MessagesOf
  <2>. QED BY <1>1, <2>1, <2>2, <2>3 DEF CountedAll
<1>. QED BY <1>5, <1>6, <1>8, <1>9 DEF MessagesInv

\* Each action's effect on what the messages do not hold.
LEMMA WorkspaceOthers ==
    ASSUME WorkspaceTypeOK, WorkspaceNext
    PROVE  /\ enforced' \in BOOLEAN
           /\ apps' \in [Apps -> AppStatus \cup {"absent"}]
           /\ running' \in [Runs -> [stage : {"idle", "checked", "opened", "error"}, app : Apps \cup {NoApp}]]
           /\ removing' \in [Removals -> [stage : {"idle", "loaded", "ended"}, app : Apps \cup {NoApp},
                                         loaded : SUBSET Convs, read : SUBSET Message]]
<1>1. apps' \in [Apps -> AppStatus \cup {"absent"}]
    BY DEF WorkspaceNext, WorkspaceTypeOK, CreateConversation, UpdateConversation, ArchiveConversation,
           RestoreConversation, SetArchived, DeleteConversation, AddCounts, RunOpens, AddInserts, RunEnds,
           DeleteApplication, UpdateApplication, PublishApplication, DeleteLoads, DeleteFinds, RunChecks, AppStatus
<1>2. running' \in [Runs -> [stage : {"idle", "checked", "opened", "error"}, app : Apps \cup {NoApp}]]
  <2>1. CASE \E r \in Runs : \/ RunEnds(r) \/ \E a \in Apps : RunChecks(r, a)
                             \/ \E v \in Convs : RunOpens(r, v)
      BY <2>1 DEF WorkspaceTypeOK, RunEnds, RunChecks, RunOpens
  <2>2. CASE running' = running
      BY <2>2 DEF WorkspaceTypeOK
  <2>. QED BY <2>1, <2>2
           DEF WorkspaceNext, CreateConversation, UpdateConversation, ArchiveConversation, RestoreConversation,
               SetArchived, DeleteConversation, AddCounts, AddInserts, DeleteApplication, UpdateApplication,
               PublishApplication, DeleteLoads, DeleteFinds
<1>3. removing' \in [Removals -> [stage : {"idle", "loaded", "ended"}, app : Apps \cup {NoApp},
                                 loaded : SUBSET Convs, read : SUBSET Message]]
  <2>1. CASE \E x \in Removals : \/ DeleteConversation(x) \/ DeleteApplication(x)
                                 \/ \E v \in Convs : DeleteFinds(x, v)
                                 \/ \E a \in Apps : DeleteLoads(x, a)
      BY <2>1 DEF WorkspaceTypeOK, DeleteConversation, DeleteApplication, DeleteFinds, DeleteLoads, MessagesOf
  <2>2. CASE removing' = removing
      BY <2>2 DEF WorkspaceTypeOK
  <2>. QED BY <2>1, <2>2
           DEF WorkspaceNext, CreateConversation, UpdateConversation, ArchiveConversation, RestoreConversation,
               SetArchived, AddCounts, AddInserts, UpdateApplication, PublishApplication, RunOpens, RunEnds,
               RunChecks
<1>4. enforced' \in BOOLEAN
    BY DEF WorkspaceTypeOK, WorkspaceNext
<1>. QED BY <1>1, <1>2, <1>3, <1>4

\* The application of a conversation that is opened, if any.
LEMMA OpensFor ==
    ASSUME WorkspaceTypeOK, NEW v \in Convs,
           CreateConversation(v) \/ \E r \in Runs : RunOpens(r, v)
    PROVE  /\ UNCHANGED <<apps, messages, adding, removing>>
           /\ \E a \in Apps \cup {NoApp} : Open(v, a)
    BY DEF CreateConversation, RunOpens, WorkspaceTypeOK

LEMMA MessagesStep == WorkspaceInv /\ [WorkspaceNext]_workspaceVars => MessagesInv'
<1>. SUFFICES ASSUME WorkspaceInv, [WorkspaceNext]_workspaceVars PROVE MessagesInv'
    OBVIOUS
<1>0. MessagesInv /\ \A x \in Removals : removing[x].stage = "loaded" => ReadLoaded(x)
    BY DEF WorkspaceInv, ReferencesInv, LoadedOrLater
<1>1. WorkspaceTypeOK /\ IsFiniteSet(messages) /\ MessagesWritten /\ CountedAll
    BY <1>0 DEF MessagesInv
<1>5. enforced' = enforced
    BY DEF WorkspaceNext, workspaceVars
<1>2. CASE UNCHANGED workspaceVars
    BY <1>1, <1>2 DEF workspaceVars, MessagesInv, WorkspaceTypeOK, MessagesWritten, CountedAll, Exists,
                      Counting, Authors, MessagesOf, MessageOf
<1>3. ASSUME NEW v \in Convs, CreateConversation(v) \/ \E r \in Runs : RunOpens(r, v)
      PROVE  MessagesInv'
  <2>1. PICK a \in Apps \cup {NoApp} : Open(v, a)
      BY <1>1, <1>3, OpensFor
  <2>2. UNCHANGED <<messages, adding>> /\ WorkspaceNext
      BY <1>1, <1>3, <1>5, OpensFor DEF WorkspaceNext
  <2>3. /\ convs' \in [Convs -> Conversation]
        /\ convs[v].state = "unused" /\ convs'[v].state = "active"
        /\ \A w \in Convs \ {v} : convs'[w] = convs[w]
      BY <1>1, <2>1, Opened
  <2>4. WorkspaceTypeOK'
      BY <1>1, <2>2, <2>3, WorkspaceOthers DEF WorkspaceTypeOK
  <2>5. messages' \subseteq messages /\ messages \subseteq messages' /\ {} \in SUBSET Convs
      BY <2>2
  <2>6. \A w \in Convs : /\ Exists(w) /\ w \notin {} => Exists(w)'
                         /\ Exists(w)' => w \notin {} /\ (Exists(w) \/ convs[w].state = "unused")
                         /\ convs'[w].state = "unused" => convs[w].state = "unused"
      BY <2>2, <2>3 DEF Exists
  <2>7. IsFiniteSet(messages)' /\ MessagesWritten' /\ CountedAll'
      BY <1>0, <2>2, <2>5, <2>6, ConvsMove
  <2>. QED BY <2>4, <2>7 DEF MessagesInv
<1>4. ASSUME NEW v \in Convs, UpdateConversation(v) \/ ArchiveConversation(v) \/ RestoreConversation(v)
      PROVE  MessagesInv'
  <2>1. PICK state \in {"active", "archived"} : SetArchived(v, state)
      BY <1>4 DEF UpdateConversation, ArchiveConversation, RestoreConversation
  <2>2. UNCHANGED <<messages, adding>> /\ WorkspaceNext /\ Exists(v)
      BY <1>4, <1>5, <2>1 DEF SetArchived, WorkspaceNext
  <2>3. /\ convs' \in [Convs -> Conversation] /\ convs'[v].state = state
        /\ \A w \in Convs \ {v} : convs'[w] = convs[w]
      BY <1>1, <2>1, StateSet DEF SetArchived
  <2>4. WorkspaceTypeOK'
      BY <1>1, <2>2, <2>3, WorkspaceOthers DEF WorkspaceTypeOK
  <2>5. messages' \subseteq messages /\ messages \subseteq messages' /\ {} \in SUBSET Convs
      BY <2>2
  <2>6. \A w \in Convs : /\ Exists(w) /\ w \notin {} => Exists(w)'
                         /\ Exists(w)' => w \notin {} /\ (Exists(w) \/ convs[w].state = "unused")
                         /\ convs'[w].state = "unused" => convs[w].state = "unused"
      BY <2>2, <2>3 DEF Exists
  <2>7. IsFiniteSet(messages)' /\ MessagesWritten' /\ CountedAll'
      BY <1>0, <2>2, <2>5, <2>6, ConvsMove
  <2>. QED BY <2>4, <2>7 DEF MessagesInv
<1>6. ASSUME NEW x \in Removals, DeleteApplication(x) \/ DeleteConversation(x), ReadLoaded(x)
      PROVE  MessagesInv'
  <2>0. WorkspaceNext
      BY <1>5, <1>6 DEF WorkspaceNext
  <2>1. /\ adding' = adding /\ removing[x].loaded \in SUBSET Convs
        /\ messages' \subseteq messages
        /\ \A m \in messages : m.conv \notin removing[x].loaded => m \in messages'
      BY <1>1, <1>6 DEF DeleteApplication, DeleteConversation, Remaining, ReadLoaded, WorkspaceTypeOK
  <2>2. /\ convs' \in [Convs -> Conversation]
        /\ \A v \in Convs : convs'[v].state = IF v \in removing[x].loaded THEN "deleted" ELSE convs[v].state
      BY <1>1, <1>6, AppRemoved
  <2>3. WorkspaceTypeOK'
      BY <1>1, <2>0, <2>1, <2>2, WorkspaceOthers DEF WorkspaceTypeOK
  <2>4. \A w \in Convs : /\ Exists(w) /\ w \notin removing[x].loaded => Exists(w)'
                         /\ Exists(w)' => w \notin removing[x].loaded /\ (Exists(w) \/ convs[w].state = "unused")
                         /\ convs'[w].state = "unused" => convs[w].state = "unused"
      BY <2>1, <2>2 DEF Exists
  <2>5. IsFiniteSet(messages)' /\ MessagesWritten' /\ CountedAll'
      BY <1>0, <2>1, <2>4, ConvsMove
  <2>. QED BY <2>3, <2>5 DEF MessagesInv
<1>7. ASSUME WorkspaceNext, UNCHANGED <<convs, messages, adding>> PROVE MessagesInv'
  <2>1. WorkspaceTypeOK'
      BY <1>1, <1>7, WorkspaceOthers DEF WorkspaceTypeOK
  <2>. QED BY <1>1, <1>7, <2>1 DEF MessagesInv, MessagesWritten, CountedAll, Exists, Counting, Authors,
                                 MessagesOf, MessageOf
<1>8. CASE WorkspaceNext
  <2>1. CASE \E r \in Runs : RunEnds(r) \/ \E a \in Apps : RunChecks(r, a)
      BY <1>7, <1>8, <2>1 DEF RunEnds, RunChecks
  <2>3. CASE \E x \in Removals, v \in Convs : DeleteFinds(x, v)
      BY <1>7, <1>8, <2>3 DEF DeleteFinds
  <2>4. CASE \E x \in Removals : DeleteConversation(x) \/ DeleteApplication(x)
      BY <1>0, <1>6, <2>4 DEF DeleteConversation, DeleteApplication
  <2>2. CASE \E a \in Apps : \/ UpdateApplication(a) \/ PublishApplication(a)
                             \/ \E x \in Removals : DeleteLoads(x, a)
      BY <1>7, <1>8, <2>2 DEF UpdateApplication, PublishApplication, DeleteLoads
  <2>. QED BY <1>0, <1>3, <1>4, <1>8, <1>5, <2>1, <2>2, <2>3, <2>4, CountsKeeps, InsertsKeeps DEF WorkspaceNext
<1>. QED BY <1>2, <1>8

\* What each step does to what the references need: most touch none of it.
LEMMA ReferencesRest ==
    ASSUME ReferencesInv, MessagesInv, UNCHANGED <<enforced, convs, messages, apps, removing>>,
           \A m \in messages : adding'[m.by].late = adding[m.by].late
    PROVE  ReferencesInv'
<1>1. \A v : Exists(v)' <=> Exists(v)
    BY DEF Exists
<1>2. \A x : ReadLoaded(x)' <=> ReadLoaded(x)
    BY DEF ReadLoaded
<1>. QED BY <1>1, <1>2 DEF ReferencesInv, RefersOrLost, OrphansLate, LoadedOrLater

\* Conversations opened or archived.
LEMMA ReferencesOpened ==
    ASSUME WorkspaceInv, NEW v \in Convs, NEW a \in Apps \cup {NoApp}, Open(v, a),
           UNCHANGED <<enforced, apps, messages, adding, removing>>
    PROVE  ReferencesInv'
<1>1. /\ WorkspaceTypeOK /\ RefersOrLost /\ OrphansLate /\ LoadedOrLater /\ NoApp \notin Apps
      /\ \A m \in messages : m.conv \in Convs
    BY WorkspaceAssumption, WorkspaceFields DEF WorkspaceInv, MessagesInv, ReferencesInv, WorkspaceAssumption
<1>2. /\ convs[v].state = "unused" /\ convs'[v].state = "active"
      /\ convs'[v].app = a /\ convs'[v].from = a
      /\ convs'[v].late = (a \in Apps /\ (apps[a] = "absent" \/ Leaving(a)))
      /\ enforced /\ a \in Apps => apps[a] # "absent"
      /\ \A w \in Convs \ {v} : convs'[w] = convs[w]
    BY <1>1, Opened
<1>3. \A w \in Convs : w # v => (Exists(w)' <=> Exists(w))
    BY <1>2 DEF Exists
<1>4. RefersOrLost'
  <2>. SUFFICES ASSUME NEW w \in Convs, Exists(w)'
               PROVE  /\ \/ convs'[w].app = convs'[w].from
                         \/ convs'[w].app = NoApp /\ apps[convs'[w].from] = "absent"
                      /\ convs'[w].from # NoApp /\ apps[convs'[w].from] = "absent" =>
                           convs'[w].late /\ (enforced => convs'[w].app = NoApp)
      BY DEF RefersOrLost
  <2>1. CASE w = v
      BY <1>2, <2>1
  <2>2. CASE w # v
      BY <1>1, <1>2, <1>3, <2>2 DEF RefersOrLost
  <2>. QED BY <2>1, <2>2
<1>5. OrphansLate'
    BY <1>1, <1>2, <1>3 DEF OrphansLate, Exists
<1>6. LoadedOrLater'
  <2>1. \A x \in Removals : removing[x].stage = "loaded" /\ removing[x].app # NoApp /\ a = removing[x].app =>
          convs'[v].late
      BY <1>1, <1>2 DEF Leaving
  <2>2. \A x : ReadLoaded(x)' <=> ReadLoaded(x)
      BY DEF ReadLoaded
  <2>. QED BY <1>1, <1>2, <1>3, <2>1, <2>2 DEF LoadedOrLater
<1>. QED BY <1>4, <1>5, <1>6 DEF ReferencesInv

LEMMA ReferencesArchived ==
    ASSUME WorkspaceInv, NEW v \in Convs, NEW state \in {"active", "archived"}, SetArchived(v, state),
           UNCHANGED enforced
    PROVE  ReferencesInv'
<1>1. /\ WorkspaceTypeOK /\ RefersOrLost /\ OrphansLate /\ LoadedOrLater
      /\ \A m \in messages : m.conv \in Convs
      /\ Exists(v) /\ UNCHANGED <<apps, messages, adding, removing>>
    BY WorkspaceFields DEF WorkspaceInv, MessagesInv, ReferencesInv, SetArchived
<1>2. /\ convs'[v].state = state /\ convs'[v].app = convs[v].app
      /\ convs'[v].from = convs[v].from /\ convs'[v].late = convs[v].late
      /\ \A w \in Convs \ {v} : convs'[w] = convs[w]
    BY <1>1, StateSet DEF SetArchived
<1>3. \A w \in Convs : Exists(w)' <=> Exists(w)
    BY <1>1, <1>2 DEF Exists
<1>4. \A x : ReadLoaded(x)' <=> ReadLoaded(x)
    BY <1>1 DEF ReadLoaded
<1>. QED BY <1>1, <1>2, <1>3, <1>4 DEF ReferencesInv, RefersOrLost, OrphansLate, LoadedOrLater

\* What a removal's commit leaves came after its load.
LEMMA ReferencesCommitted ==
    ASSUME WorkspaceInv, NEW x \in Removals, DeleteApplication(x) \/ DeleteConversation(x), UNCHANGED enforced
    PROVE  ReferencesInv'
<1>. DEFINE a == removing[x].app
<1>1. /\ WorkspaceTypeOK /\ RefersOrLost /\ OrphansLate /\ LoadedOrLater /\ NoApp \notin Apps
      /\ \A m \in messages : m.conv \in Convs
      /\ removing[x].stage = "loaded" /\ ReadLoaded(x) /\ adding' = adding
      /\ messages' = Remaining(x) /\ messages' \subseteq messages
    BY WorkspaceFields, WorkspaceAssumption
       DEF WorkspaceInv, MessagesInv, ReferencesInv, DeleteApplication, DeleteConversation, Remaining,
           LoadedOrLater, WorkspaceAssumption
<1>2. /\ \A y \in Removals : removing'[y].app = removing[y].app /\ removing'[y].loaded = removing[y].loaded
                             /\ removing'[y].read = removing[y].read
      /\ \A y \in Removals : removing'[y].stage = "loaded" => removing[y].stage = "loaded"
    BY <1>1 DEF DeleteApplication, DeleteConversation, WorkspaceTypeOK
<1>3. /\ a \in Apps \cup {NoApp}
      /\ \A b \in Apps : apps'[b] = IF b = a THEN "absent" ELSE apps[b]
  <2>1. CASE DeleteApplication(x)
      BY <1>1, <2>1 DEF DeleteApplication, WorkspaceTypeOK
  <2>2. CASE DeleteConversation(x)
      BY <1>1, <2>2 DEF DeleteConversation, WorkspaceTypeOK
  <2>. QED BY <2>1, <2>2
<1>4. \A v \in Convs :
        /\ convs'[v].from = convs[v].from /\ convs'[v].late = convs[v].late
        /\ convs[v].app \in Apps \cup {NoApp} /\ convs[v].from \in Apps \cup {NoApp}
        /\ Exists(v)' <=> Exists(v) /\ v \notin removing[x].loaded
        /\ v \notin removing[x].loaded =>
             convs'[v].app = IF enforced /\ a # NoApp /\ convs[v].app = a THEN NoApp ELSE convs[v].app
    BY <1>1, AppRemoved, WorkspaceFields DEF Exists
<1>5. \A v \in Convs : Exists(v)' /\ a # NoApp /\ convs[v].app = a => convs[v].late
    BY <1>1, <1>4 DEF LoadedOrLater
<1>. HIDE DEF a
<1>6. RefersOrLost'
  <2>. SUFFICES ASSUME NEW v \in Convs, Exists(v)'
               PROVE  /\ \/ convs'[v].app = convs[v].from
                         \/ convs'[v].app = NoApp /\ apps'[convs[v].from] = "absent"
                      /\ convs[v].from # NoApp /\ apps'[convs[v].from] = "absent" =>
                           convs[v].late /\ (enforced => convs'[v].app = NoApp)
      BY <1>4 DEF RefersOrLost
  <2>1. /\ Exists(v) /\ convs[v].app \in Apps \cup {NoApp} /\ convs[v].from \in Apps \cup {NoApp}
        /\ convs'[v].app = IF enforced /\ a # NoApp /\ convs[v].app = a THEN NoApp ELSE convs[v].app
        /\ a # NoApp /\ convs[v].app = a => convs[v].late
      BY <1>4, <1>5
  <2>2. /\ \/ convs[v].app = convs[v].from
           \/ convs[v].app = NoApp /\ apps[convs[v].from] = "absent"
        /\ convs[v].from # NoApp /\ apps[convs[v].from] = "absent" =>
             convs[v].late /\ (enforced => convs[v].app = NoApp)
      BY <1>1, <2>1 DEF RefersOrLost
  <2>3. CASE convs[v].from = NoApp
      BY <1>1, <1>3, <2>1, <2>2, <2>3
  <2>4. CASE convs[v].from \in Apps
      BY <1>1, <1>3, <2>1, <2>2, <2>4
  <2>. QED BY <2>1, <2>3, <2>4
<1>7. OrphansLate'
  <2>. SUFFICES ASSUME NEW m \in messages, m \in Remaining(x), ~Exists(m.conv)'
               PROVE  ~enforced /\ adding[m.by].late
      BY <1>1 DEF OrphansLate
  <2>1. CASE Exists(m.conv)
    <3>1. m.conv \in removing[x].loaded
        BY <1>1, <1>4, <2>1
    <3>2. ~enforced /\ m \notin removing[x].read
        BY <3>1 DEF Remaining
    <3>. QED BY <1>1, <3>1, <3>2 DEF LoadedOrLater
  <2>2. CASE ~Exists(m.conv)
      BY <1>1, <2>2 DEF OrphansLate
  <2>. QED BY <2>1, <2>2
<1>8. LoadedOrLater'
  <2>. SUFFICES ASSUME NEW y \in Removals, removing'[y].stage = "loaded"
               PROVE  /\ \A v \in Convs :
                           Exists(v)' /\ removing'[y].app # NoApp /\ convs'[v].app = removing'[y].app =>
                             v \in removing'[y].loaded \/ convs'[v].late
                      /\ \A m \in messages' : m.conv \in removing'[y].loaded =>
                           m \in removing'[y].read \/ adding'[m.by].late
                      /\ ReadLoaded(y)'
      BY DEF LoadedOrLater
  <2>1. /\ removing'[y].app = removing[y].app /\ removing'[y].loaded = removing[y].loaded
        /\ removing'[y].read = removing[y].read /\ removing[y].stage = "loaded"
      BY <1>2
  <2>2. ReadLoaded(y)'
      BY <1>1, <2>1 DEF LoadedOrLater, ReadLoaded
  <2>3. \A v \in Convs : Exists(v)' /\ convs'[v].app # NoApp => Exists(v) /\ convs'[v].app = convs[v].app
      BY <1>4
  <2>. QED BY <1>1, <1>4, <2>1, <2>2, <2>3 DEF LoadedOrLater
<1>. QED BY <1>6, <1>7, <1>8 DEF ReferencesInv

\* A removal loads everything there is.
LEMMA ReferencesLoaded ==
    ASSUME WorkspaceInv, NEW x \in Removals, UNCHANGED <<enforced, apps, convs, messages, adding>>,
           \A y \in Removals \ {x} : removing'[y] = removing[y],
           \A v \in Convs : Exists(v) /\ removing'[x].app # NoApp /\ convs[v].app = removing'[x].app =>
              v \in removing'[x].loaded,
           \A m \in messages : m.conv \in removing'[x].loaded <=> m \in removing'[x].read,
           removing'[x].read \subseteq messages
    PROVE  ReferencesInv'
<1>1. \A v : Exists(v)' <=> Exists(v)
    BY DEF Exists
<1>2. \A y \in Removals : y # x => (ReadLoaded(y)' <=> ReadLoaded(y))
    BY DEF ReadLoaded
<1>3. ReadLoaded(x)'
    BY DEF ReadLoaded
<1>. QED BY <1>1, <1>2, <1>3 DEF WorkspaceInv, ReferencesInv, RefersOrLost, OrphansLate, LoadedOrLater

LEMMA ReferencesInserted ==
    ASSUME WorkspaceInv, NEW d \in Adds, AddInserts(d), UNCHANGED enforced
    PROVE  ReferencesInv'
<1>. DEFINE v == adding[d].conv
<1>1. /\ WorkspaceTypeOK /\ RefersOrLost /\ OrphansLate /\ LoadedOrLater
      /\ adding[d].stage = "counted"
      /\ messages' = messages \cup {m \in {MessageOf(d)} : Exists(v)}
      /\ UNCHANGED <<apps, convs, removing>>
    BY DEF WorkspaceInv, MessagesInv, ReferencesInv, AddInserts, MessageOf
<1>2. \A m \in messages : m.by # d /\ m.by \in Adds
    BY <1>1, WorkspaceFields DEF WorkspaceInv, MessagesInv, MessagesWritten
<1>3. \A e \in Adds : adding'[e].late = IF e = d THEN Closing(v) ELSE adding[e].late
    BY <1>1 DEF AddInserts, WorkspaceTypeOK
<1>4. MessageOf(d).by = d /\ MessageOf(d).conv = v
    BY DEF MessageOf
<1>5. \A w : Exists(w)' <=> Exists(w)
    BY <1>1 DEF Exists
<1>6. \A y : ReadLoaded(y)' <=> ReadLoaded(y)
    BY <1>1 DEF ReadLoaded
<1>7. \A m \in messages' : m \in messages \/ (m.by = d /\ m.conv = v /\ Exists(v))
    BY <1>1, <1>4
<1>8. RefersOrLost'
    BY <1>1, <1>5 DEF RefersOrLost
<1>9. OrphansLate'
    BY <1>1, <1>2, <1>3, <1>5, <1>7 DEF OrphansLate
<1>10. LoadedOrLater'
    BY <1>1, <1>2, <1>3, <1>5, <1>6, <1>7 DEF LoadedOrLater, Closing
<1>. QED BY <1>8, <1>9, <1>10 DEF ReferencesInv

LEMMA ReferencesStep == WorkspaceInv /\ [WorkspaceNext]_workspaceVars => ReferencesInv'
<1>. SUFFICES ASSUME WorkspaceInv, [WorkspaceNext]_workspaceVars PROVE ReferencesInv'
    OBVIOUS
<1>1. /\ WorkspaceTypeOK /\ MessagesInv /\ ReferencesInv /\ MessagesWritten
      /\ \A m \in messages : m.by \in Adds /\ m.conv \in Convs
    BY WorkspaceFields DEF WorkspaceInv, MessagesInv
<1>2. enforced' = enforced
    BY DEF WorkspaceNext, workspaceVars
<1>3. ASSUME NEW v \in Convs, CreateConversation(v) \/ \E r \in Runs : RunOpens(r, v)
      PROVE  ReferencesInv'
    BY <1>1, <1>2, <1>3, OpensFor, ReferencesOpened
<1>4. ASSUME NEW v \in Convs, UpdateConversation(v) \/ ArchiveConversation(v) \/ RestoreConversation(v)
      PROVE  ReferencesInv'
    BY <1>2, <1>4, ReferencesArchived DEF UpdateConversation, ArchiveConversation, RestoreConversation
<1>5. ASSUME NEW x \in Removals, NEW v \in Convs, DeleteFinds(x, v)
      PROVE  ReferencesInv'
  <2>1. /\ UNCHANGED <<apps, convs, messages, adding>>
        /\ \A y \in Removals \ {x} : removing'[y] = removing[y]
        /\ removing'[x].app = NoApp /\ removing'[x].loaded = {v} /\ removing'[x].read = MessagesOf(v)
      BY <1>1, <1>5 DEF DeleteFinds, WorkspaceTypeOK
  <2>. QED BY <1>2, <2>1, ReferencesLoaded DEF MessagesOf
<1>6. ASSUME NEW x \in Removals, NEW a \in Apps, DeleteLoads(x, a)
      PROVE  ReferencesInv'
  <2>1. /\ UNCHANGED <<apps, convs, messages, adding>>
        /\ \A y \in Removals \ {x} : removing'[y] = removing[y]
        /\ removing'[x].app = a /\ removing'[x].loaded = {v \in Convs : Exists(v) /\ convs[v].app = a}
        /\ removing'[x].read = {m \in messages : Exists(m.conv) /\ convs[m.conv].app = a}
      BY <1>1, <1>6 DEF DeleteLoads, WorkspaceTypeOK
  <2>. QED BY <1>1, <1>2, <2>1, ReferencesLoaded
<1>7. ASSUME NEW a \in Apps, UpdateApplication(a) \/ PublishApplication(a)
      PROVE  ReferencesInv'
  <2>1. /\ UNCHANGED <<convs, removing, messages, adding>> /\ apps[a] # "absent" /\ apps'[a] # "absent"
        /\ \A b \in Apps \ {a} : apps'[b] = apps[b]
      BY <1>1, <1>7 DEF UpdateApplication, PublishApplication, AppStatus, WorkspaceTypeOK
  <2>2. \A v \in Convs : convs[v].app \in Apps \cup {NoApp} /\ convs[v].from \in Apps \cup {NoApp}
      BY <1>1, WorkspaceFields
  <2>3. \A v : Exists(v)' <=> Exists(v)
      BY <2>1 DEF Exists
  <2>4. RefersOrLost'
    <3>. SUFFICES ASSUME NEW v \in Convs, Exists(v)
                 PROVE  /\ \/ convs[v].app = convs[v].from
                           \/ convs[v].app = NoApp /\ apps'[convs[v].from] = "absent"
                        /\ convs[v].from # NoApp /\ apps'[convs[v].from] = "absent" =>
                             convs[v].late /\ (enforced => convs[v].app = NoApp)
        BY <1>2, <2>1, <2>3 DEF RefersOrLost
    <3>1. /\ \/ convs[v].app = convs[v].from
             \/ convs[v].app = NoApp /\ apps[convs[v].from] = "absent"
          /\ convs[v].from # NoApp /\ apps[convs[v].from] = "absent" =>
               convs[v].late /\ (enforced => convs[v].app = NoApp)
        BY <1>1 DEF ReferencesInv, RefersOrLost
    <3>2. CASE convs[v].from = NoApp
      <4>1. convs[v].app = NoApp
          BY <3>1, <3>2
      <4>. QED BY <3>2, <4>1
    <3>3. CASE convs[v].from \in Apps
        BY <2>1, <3>1, <3>3
    <3>. QED BY <2>2, <3>2, <3>3
  <2>5. OrphansLate'
      BY <1>1, <1>2, <2>1, <2>3 DEF ReferencesInv, OrphansLate
  <2>6. LoadedOrLater'
    <3>1. \A x : ReadLoaded(x)' <=> ReadLoaded(x)
        BY <2>1 DEF ReadLoaded
    <3>. QED BY <1>1, <2>1, <2>3, <3>1 DEF ReferencesInv, LoadedOrLater
  <2>. QED BY <2>4, <2>5, <2>6 DEF ReferencesInv
<1>8. ASSUME NEW d \in Adds, NEW v \in Convs, AddCounts(d, v)
      PROVE  ReferencesInv'
  <2>1. /\ adding[d].stage = "idle" /\ UNCHANGED <<apps, convs, messages, removing>>
        /\ \A e \in Adds \ {d} : adding'[e] = adding[e]
      BY <1>1, <1>8 DEF AddCounts, WorkspaceTypeOK
  <2>2. \A m \in messages : m.by # d
      BY <1>1, <2>1 DEF MessagesWritten
  <2>. QED BY <1>1, <1>2, <2>1, <2>2, ReferencesRest
<1>9. ASSUME UNCHANGED <<apps, convs, messages, adding, removing>>
      PROVE  ReferencesInv'
    BY <1>1, <1>2, <1>9, ReferencesRest
<1>10. CASE UNCHANGED workspaceVars
    BY <1>9, <1>10 DEF workspaceVars
<1>11. ASSUME NEW r \in Runs, RunEnds(r) \/ \E a \in Apps : RunChecks(r, a)
       PROVE  ReferencesInv'
    BY <1>9, <1>11 DEF RunEnds, RunChecks
<1>. QED
    BY <1>2, <1>3, <1>4, <1>5, <1>6, <1>7, <1>8, <1>10, <1>11, ReferencesCommitted, ReferencesInserted
    DEF WorkspaceNext

LEMMA WorkspaceStart == WorkspaceInit => WorkspaceInv
<1>. SUFFICES ASSUME WorkspaceInit PROVE WorkspaceInv
    OBVIOUS
<1>1. WorkspaceTypeOK
    BY DEF WorkspaceInit, WorkspaceTypeOK, Conversation, Unused, AppStatus, Message
<1>2. IsFiniteSet(messages) /\ messages = {} /\ Counting = {}
    BY FS_EmptySet DEF WorkspaceInit, Counting
<1>3. \A v \in Convs : ~Exists(v)
    BY DEF WorkspaceInit, Exists, Unused
<1>4. \A x \in Removals : removing[x].stage = "idle"
    BY DEF WorkspaceInit
<1>. QED BY <1>1, <1>2, <1>3, <1>4
         DEF WorkspaceInv, MessagesInv, MessagesWritten, CountedAll, ReferencesInv, RefersOrLost, OrphansLate,
             LoadedOrLater

LEMMA WorkspaceInvariant == WorkspaceSpec => []WorkspaceInv
<1>1. WorkspaceInv /\ [WorkspaceNext]_workspaceVars => WorkspaceInv'
    BY MessagesStep, ReferencesStep DEF WorkspaceInv
<1>. QED BY <1>1, WorkspaceStart, PTL DEF WorkspaceSpec

\* However adds overlap: a message added after another one was committed has the larger number.
THEOREM LaterIsLarger == WorkspaceSpec => []LaterMessagesLater
<1>1. WorkspaceInv => LaterMessagesLater
  <2>. SUFFICES ASSUME WorkspaceInv, NEW m \in messages, NEW n \in messages, m.by \in n.after
               PROVE  m.sequence_number < n.sequence_number
      BY DEF LaterMessagesLater
  <2>1. WorkspaceTypeOK /\ MessagesWritten /\ CountedAll
      BY DEF WorkspaceInv, MessagesInv
  <2>2. PICK d, e : d = n.by /\ e = m.by
      OBVIOUS
  <2>3. /\ m = MessageOf(e) /\ n = MessageOf(d) /\ d \in Counting /\ e \in Counting
      BY <2>1, <2>2, WorkspaceFields DEF MessagesWritten, Counting
  <2>4. /\ m.sequence_number = adding[e].seq /\ n.sequence_number = adding[d].seq /\ e \in adding[d].after
      BY <2>2, <2>3 DEF MessageOf
  <2>5. /\ IsFiniteSet(adding[d].after) /\ IsFiniteSet(adding[e].after)
        /\ adding[e].after \in SUBSET adding[d].after /\ adding[e].after # adding[d].after
        /\ adding[d].seq = Cardinality(adding[d].after) /\ adding[e].seq = Cardinality(adding[e].after)
      BY <2>1, <2>3, <2>4 DEF CountedAll
  <2>6. /\ Cardinality(adding[e].after) <= Cardinality(adding[d].after)
        /\ Cardinality(adding[e].after) # Cardinality(adding[d].after)
      BY <2>5, FS_Subset
  <2>7. Cardinality(adding[e].after) \in Nat /\ Cardinality(adding[d].after) \in Nat
      BY <2>5, FS_CardinalityType
  <2>. QED BY <2>4, <2>5, <2>6, <2>7
<1>. QED BY <1>1, WorkspaceInvariant, PTL

\* Whatever overlaps with a delete, on either database: what is left of an application or a
\* conversation came while it was leaving or after it had gone, and where foreign keys are enforced
\* it refers to nothing that is gone.
THEOREM DeletionComplete == WorkspaceSpec => []DeletedWithApp
<1>1. WorkspaceInv => DeletedWithApp
    BY DEF WorkspaceInv, ReferencesInv, RefersOrLost, OrphansLate, DeletedWithApp
<1>. QED BY <1>1, WorkspaceInvariant, PTL
-----------------------------------------------------------------------------
(* Memory                                                                  *)

\* The summarisers that have read messages and may still write what they read.
AtWork(c) == doing[c] \in {"check", "ask", "write"}

MemoryTypeInv ==
    /\ conv \in Seq([n : Nat, imp : Importances, size : Sizes])
    /\ convExpires \in BOOLEAN /\ (convExpires => conv # <<>>)
    /\ doing \in [MemoryCalls -> {"idle", "trim", "expire", "summary", "check", "ask", "write", "done"}]
    /\ seen \in [Summarisers -> SUBSET Nat]
    /\ clock \in Nat /\ crashed \in Nat
    /\ \A c \in Adders : doing[c] \in {"idle", "trim", "expire", "done"}
    /\ \A c \in Summarisers : doing[c] \in {"idle", "check", "ask", "write", "done"}

\* What was erased is not in the list again; only who had read it before the clear can bring it back.
ErasedForgotten ==
    /\ \A i \in DOMAIN conv : conv[i].n \in 1 .. clock /\ conv[i].n \notin erased
    /\ erased \subseteq 1 .. clock /\ cleared \subseteq erased
    /\ overlapped \subseteq Summarisers /\ \A c \in overlapped : doing[c] # "idle"
    /\ \A c \in Summarisers : AtWork(c) /\ seen[c] \cap erased # {} => c \in overlapped

MemoryInv == MemoryTypeInv /\ ErasedForgotten /\ ListKept /\ ClearedForgotten

Trimming == {c \in Adders : doing[c] = "trim"}

\* A call goes on to its next command, and no other call does.
LEMMA CallGoes ==
    ASSUME MemoryTypeInv, MemoryAssumption, NEW c \in MemoryCalls,
           NEW next \in {"idle", "trim", "expire", "summary", "check", "ask", "write", "done"}, Goes(c, next)
    PROVE  /\ doing' \in [MemoryCalls -> {"idle", "trim", "expire", "summary", "check", "ask", "write", "done"}]
           /\ doing'[c] = next /\ \A d \in MemoryCalls \ {c} : doing'[d] = doing[d]
           /\ Adders \subseteq MemoryCalls /\ Clearers \subseteq MemoryCalls /\ Summarisers \subseteq MemoryCalls
BY DEF MemoryTypeInv, Goes, MemoryCalls

\* How many calls have pushed and not trimmed yet.
LEMMA TrimmingCount ==
    ASSUME MemoryTypeInv, MemoryAssumption, NEW c \in MemoryCalls,
           NEW next \in {"idle", "trim", "expire", "summary", "check", "ask", "write", "done"}, Goes(c, next)
    PROVE  /\ Cardinality(Trimming) \in Nat /\ Cardinality(Trimming') \in Nat
           /\ c \in Adders /\ doing[c] = "idle" /\ next = "trim" => Cardinality(Trimming') = Cardinality(Trimming) + 1
           /\ c \notin Adders \/ (doing[c] # "trim" /\ next # "trim") => Trimming' = Trimming
<1>0. IsFiniteSet(Adders)
  BY DEF MemoryAssumption
<1>1. IsFiniteSet(Trimming) /\ IsFiniteSet(Trimming')
  <2>1. Trimming \subseteq Adders /\ Trimming' \subseteq Adders
    BY DEF Trimming
  <2> QED BY <1>0, <2>1, FS_Subset
<1>2. Cardinality(Trimming) \in Nat /\ Cardinality(Trimming') \in Nat
  BY <1>1, FS_CardinalityType
<1>3. /\ doing'[c] = next /\ \A d \in MemoryCalls \ {c} : doing'[d] = doing[d] /\ Adders \subseteq MemoryCalls
  BY CallGoes
<1>4. c \notin Adders \/ (doing[c] # "trim" /\ next # "trim") => Trimming' = Trimming
  BY <1>3, CallGoes DEF Trimming
<1>5. c \in Adders /\ doing[c] = "idle" /\ next = "trim" => Cardinality(Trimming') = Cardinality(Trimming) + 1
  <2> SUFFICES ASSUME c \in Adders, doing[c] = "idle", next = "trim"
               PROVE  Cardinality(Trimming') = Cardinality(Trimming) + 1
    OBVIOUS
  <2>1. Trimming' = Trimming \cup {c} /\ c \notin Trimming
    BY <1>3, CallGoes DEF Trimming
  <2> QED BY <1>1, <2>1, FS_AddElement
<1> QED BY <1>2, <1>4, <1>5

\* A step that brings no message back and leaves the summary and the histories alone.
LEMMA ForgottenStays ==
    ASSUME ErasedForgotten, ClearedForgotten, MemoryTypeInv, UNCHANGED <<summary, clearing>>,
           clock' \in {clock, clock + 1},
           \A i \in DOMAIN conv' : (\E k \in DOMAIN conv : conv'[i] = conv[k]) \/ (conv'[i].n = clock + 1 /\ clock' = clock + 1),
           \A c \in Summarisers :
             /\ AtWork(c)' => AtWork(c) \/ seen'[c] \cap erased = {}
             /\ seen'[c] = seen[c] \/ (c \notin overlapped /\ seen'[c] \cap erased = {})
             /\ doing[c] # "idle" => doing'[c] # "idle"
    PROVE  ErasedForgotten' /\ ClearedForgotten'
<1>0. /\ UNCHANGED <<erased, cleared, overlapped>> /\ clock \in Nat
      /\ erased \subseteq 1 .. clock /\ cleared \subseteq erased /\ overlapped \subseteq Summarisers
  BY DEF clearing, MemoryTypeInv, ErasedForgotten
<1>1. \A i \in DOMAIN conv' : conv'[i].n \in 1 .. clock' /\ conv'[i].n \notin erased
  <2> SUFFICES ASSUME NEW i \in DOMAIN conv'
               PROVE  conv'[i].n \in 1 .. clock' /\ conv'[i].n \notin erased
    OBVIOUS
  <2>1. CASE \E k \in DOMAIN conv : conv'[i] = conv[k]
    <3>1. PICK k \in DOMAIN conv : conv'[i] = conv[k]
      BY <2>1
    <3>2. conv[k].n \in 1 .. clock /\ conv[k].n \notin erased
      BY DEF ErasedForgotten
    <3> QED BY <1>0, <3>1, <3>2
  <2>2. CASE conv'[i].n = clock + 1 /\ clock' = clock + 1
    BY <1>0, <2>2
  <2> QED BY <2>1, <2>2
<1>2. \A c \in overlapped : doing'[c] # "idle" /\ seen'[c] = seen[c]
  BY <1>0 DEF ErasedForgotten
<1>3. ASSUME NEW c \in Summarisers, AtWork(c)', seen'[c] \cap erased # {} PROVE c \in overlapped
  <2>1. AtWork(c) /\ seen[c] \cap erased # {}
    BY <1>3
  <2> QED BY <2>1 DEF ErasedForgotten
<1>4. erased' \subseteq 1 .. clock'
  BY <1>0
<1>5. ErasedForgotten'
  BY <1>0, <1>1, <1>2, <1>3, <1>4 DEF ErasedForgotten
<1>6. ClearedForgotten'
  BY <1>0, <1>2 DEF ClearedForgotten
<1> QED BY <1>5, <1>6

Remembered == [n : Nat, imp : Importances, size : Sizes]

\* A message on top of the list, and the list cut to its limit.
LEMMA Pushed ==
    ASSUME NEW S, NEW s \in Seq(S), NEW m \in S
    PROVE  /\ <<m>> \o s \in Seq(S) /\ Len(<<m>> \o s) = Len(s) + 1 /\ <<m>> \o s # <<>>
           /\ (<<m>> \o s)[1] = m
           /\ \A i \in DOMAIN (<<m>> \o s) : i = 1 \/ (i - 1 \in DOMAIN s /\ (<<m>> \o s)[i] = s[i - 1])
OBVIOUS

LEMMA KeptBehind ==
    ASSUME NEW S, NEW s \in Seq(S), NEW n \in Nat, n <= Len(s)
    PROVE  /\ SubSeq(s, 1, n) \in Seq(S) /\ Len(SubSeq(s, 1, n)) = n
           /\ \A i \in DOMAIN SubSeq(s, 1, n) : i \in DOMAIN s /\ SubSeq(s, 1, n)[i] = s[i]
OBVIOUS

LEMMA PushesKeeps ==
    ASSUME MemoryInv, MemoryAssumption, NEW c \in Adders, Pushes(c)
    PROVE  MemoryInv'
<1>0. /\ MemoryTypeInv /\ c \in MemoryCalls /\ c \notin Summarisers /\ c \notin Clearers
      /\ doing[c] = "idle" /\ Goes(c, "trim") /\ clock' = clock + 1 /\ clock \in Nat
      /\ UNCHANGED <<summary, seen, crashed, clearing>> /\ conv \in Seq(Remembered)
      /\ clock' \in Nat
  BY DEF MemoryInv, MemoryAssumption, MemoryCalls, Pushes, MemoryTypeInv, Remembered
<1>1. PICK m \in Remembered : m.n = clock + 1 /\ SetList(<<m>> \o conv, convExpires)
  <2>1. PICK imp \in Importances, size \in Sizes : SetList(<<[n |-> clock + 1, imp |-> imp, size |-> size]>> \o conv, convExpires)
    BY DEF Pushes
  <2>2. PICK m : m = [n |-> clock + 1, imp |-> imp, size |-> size]
    OBVIOUS
  <2>3. m \in Remembered /\ m.n = clock + 1
    BY <1>0, <2>2 DEF Remembered
  <2> QED BY <2>1, <2>2, <2>3
<1>2. /\ conv' \in Seq(Remembered) /\ Len(conv') = Len(conv) + 1 /\ conv' # <<>> /\ conv'[1] = m
      /\ \A i \in DOMAIN conv' : i = 1 \/ (i - 1 \in DOMAIN conv /\ conv'[i] = conv[i - 1])
      /\ convExpires' = convExpires
  <2>1. conv' = <<m>> \o conv /\ convExpires' = (convExpires /\ conv' # <<>>)
    BY <1>1 DEF SetList
  <2>2. convExpires \in BOOLEAN
    BY <1>0 DEF MemoryTypeInv
  <2> QED BY <1>0, <2>1, <2>2, Pushed
<1>3. /\ doing' \in [MemoryCalls -> {"idle", "trim", "expire", "summary", "check", "ask", "write", "done"}]
      /\ doing'[c] = "trim" /\ \A d \in MemoryCalls \ {c} : doing'[d] = doing[d]
      /\ Adders \subseteq MemoryCalls /\ Summarisers \subseteq MemoryCalls
  BY <1>0, CallGoes
<1>4. MemoryTypeInv'
  BY <1>0, <1>2, <1>3 DEF MemoryTypeInv, Remembered
<1>5. ErasedForgotten' /\ ClearedForgotten'
  <2>1. \A i \in DOMAIN conv' : (\E k \in DOMAIN conv : conv'[i] = conv[k]) \/ (conv'[i].n = clock + 1 /\ clock' = clock + 1)
    BY <1>0, <1>1, <1>2
  <2>2. \A d \in Summarisers : doing'[d] = doing[d] /\ seen'[d] = seen[d] /\ (AtWork(d)' => AtWork(d))
    BY <1>0, <1>3 DEF AtWork
  <2> QED BY <1>0, <2>1, <2>2, ForgottenStays DEF MemoryInv
<1>6. ListKept'
  <2> SUFFICES ASSUME crashed' = 0
               PROVE  Len(conv') <= Keep + Cardinality(Trimming') /\ \E d \in Adders : doing'[d] \in {"trim", "expire"}
    BY DEF ListKept, Trimming
  <2>1. Cardinality(Trimming) \in Nat /\ Cardinality(Trimming') = Cardinality(Trimming) + 1
    BY <1>0, TrimmingCount
  <2>2. Len(conv) <= Keep + Cardinality(Trimming)
    BY <1>0 DEF MemoryInv, ListKept, Trimming
  <2>3. Keep \in Nat /\ Len(conv) \in Nat
    BY <1>0 DEF MemoryAssumption
  <2> QED BY <1>2, <1>3, <2>1, <2>2, <2>3
<1> QED BY <1>4, <1>5, <1>6 DEF MemoryInv

LEMMA TrimsKeeps ==
    ASSUME MemoryInv, MemoryAssumption, NEW c \in Adders, Trims(c)
    PROVE  MemoryInv'
<1>0. /\ MemoryTypeInv /\ c \in MemoryCalls /\ c \notin Summarisers /\ c \notin Clearers
      /\ doing[c] = "trim" /\ Goes(c, "expire") /\ clock \in Nat /\ convExpires \in BOOLEAN
      /\ UNCHANGED <<summary, seen, clock, crashed, clearing>> /\ conv \in Seq(Remembered) /\ Keep \in Nat
  BY DEF MemoryInv, MemoryAssumption, MemoryCalls, Trims, MemoryTypeInv, Remembered
<1>1. PICK n \in Nat : n <= Len(conv) /\ n <= Keep /\ SetList(SubSeq(conv, 1, n), convExpires)
  BY <1>0 DEF Trims
<1>2. /\ conv' \in Seq(Remembered) /\ Len(conv') <= Keep
      /\ \A i \in DOMAIN conv' : i \in DOMAIN conv /\ conv'[i] = conv[i]
      /\ convExpires' = (convExpires /\ conv' # <<>>)
  BY <1>0, <1>1, KeptBehind DEF SetList
<1>3. /\ doing' \in [MemoryCalls -> {"idle", "trim", "expire", "summary", "check", "ask", "write", "done"}]
      /\ doing'[c] = "expire" /\ \A d \in MemoryCalls \ {c} : doing'[d] = doing[d]
      /\ Adders \subseteq MemoryCalls /\ Summarisers \subseteq MemoryCalls
  BY <1>0, CallGoes
<1>4. MemoryTypeInv'
  BY <1>0, <1>2, <1>3 DEF MemoryTypeInv, Remembered
<1>5. ErasedForgotten' /\ ClearedForgotten'
  <2>1. \A d \in Summarisers : doing'[d] = doing[d] /\ seen'[d] = seen[d] /\ (AtWork(d)' => AtWork(d))
    BY <1>0, <1>3 DEF AtWork
  <2> QED BY <1>0, <1>2, <2>1, ForgottenStays DEF MemoryInv
<1>6. ListKept'
  <2> SUFFICES ASSUME crashed' = 0
               PROVE  Len(conv') <= Keep + Cardinality(Trimming') /\ \E d \in Adders : doing'[d] \in {"trim", "expire"}
    BY DEF ListKept, Trimming
  <2>1. Cardinality(Trimming') \in Nat
    BY <1>0, TrimmingCount
  <2> QED BY <1>0, <1>2, <1>3, <2>1
<1> QED BY <1>4, <1>5, <1>6 DEF MemoryInv

LEMMA SetsExpiryKeeps ==
    ASSUME MemoryInv, MemoryAssumption, NEW c \in Adders, SetsExpiry(c)
    PROVE  MemoryInv'
<1>0. /\ MemoryTypeInv /\ c \in MemoryCalls /\ c \notin Summarisers /\ c \notin Clearers
      /\ doing[c] = "expire" /\ Goes(c, "done") /\ clock \in Nat
      /\ UNCHANGED <<summary, seen, clock, crashed, clearing>> /\ conv' = conv /\ convExpires' = (conv # <<>>)
  BY DEF MemoryInv, MemoryAssumption, MemoryCalls, SetsExpiry, SetList, MemoryTypeInv
<1>1. /\ doing' \in [MemoryCalls -> {"idle", "trim", "expire", "summary", "check", "ask", "write", "done"}]
      /\ doing'[c] = "done" /\ \A d \in MemoryCalls \ {c} : doing'[d] = doing[d]
      /\ Adders \subseteq MemoryCalls /\ Summarisers \subseteq MemoryCalls
  BY <1>0, CallGoes
<1>2. MemoryTypeInv'
  BY <1>0, <1>1 DEF MemoryTypeInv
<1>3. ErasedForgotten' /\ ClearedForgotten'
  <2>1. \A d \in Summarisers : doing'[d] = doing[d] /\ seen'[d] = seen[d] /\ (AtWork(d)' => AtWork(d))
    BY <1>0, <1>1 DEF AtWork
  <2> QED BY <1>0, <2>1, ForgottenStays DEF MemoryInv
<1>4. ListKept'
  <2>1. Trimming' = Trimming
    BY <1>0, TrimmingCount
  <2> QED BY <1>0, <2>1 DEF MemoryInv, ListKept, Trimming
<1> QED BY <1>2, <1>3, <1>4 DEF MemoryInv

\* The list of a key that does not exist is a list of messages.
LEMMA EmptyList == <<>> \in Seq(Remembered)
OBVIOUS

\* A step that moves no addition: what is to be trimmed or to get its time to live stays so.
LEMMA ListStays ==
    ASSUME ListKept, MemoryTypeInv, MemoryAssumption, crashed' = crashed, conv' \in {conv, <<>>},
           conv' = conv => convExpires' = convExpires,
           \A d \in Adders : doing'[d] = doing[d]
    PROVE  ListKept'
<1>1. Trimming' = Trimming /\ Cardinality(Trimming) \in Nat
  <2>1. IsFiniteSet(Trimming)
    BY FS_Subset DEF Trimming, MemoryAssumption
  <2> QED BY <2>1, FS_CardinalityType DEF Trimming
<1>2. Keep \in Nat /\ Len(conv') <= Len(conv) /\ Len(conv) \in Nat /\ Len(conv') \in Nat
  <2>1. conv \in Seq(Remembered)
    BY DEF MemoryTypeInv, Remembered
  <2>2. CASE conv' = conv
    BY <2>1, <2>2 DEF MemoryAssumption
  <2>3. CASE conv' = <<>>
    <3>1. Len(conv') = 0
      BY <2>3
    <3> QED BY <2>1, <3>1 DEF MemoryAssumption
  <2> QED BY <2>2, <2>3
<1>3. ASSUME crashed = 0 PROVE Len(conv') <= Keep + Cardinality(Trimming')
  <2>1. Len(conv) <= Keep + Cardinality(Trimming)
    BY <1>3 DEF ListKept, Trimming
  <2> QED BY <1>1, <1>2, <2>1
<1>4. ASSUME crashed = 0, conv' # <<>>, ~convExpires' PROVE \E d \in Adders : doing'[d] \in {"trim", "expire"}
  <2>1. conv # <<>> /\ ~convExpires
    BY <1>4
  <2>2. PICK d \in Adders : doing[d] \in {"trim", "expire"}
    BY <1>4, <2>1 DEF ListKept
  <2> QED BY <2>2
<1> QED BY <1>3, <1>4 DEF ListKept, Trimming

LEMMA ClearsListKeeps ==
    ASSUME MemoryInv, MemoryAssumption, NEW c \in Clearers, ClearsList(c)
    PROVE  MemoryInv'
<1>0. /\ MemoryTypeInv /\ c \in MemoryCalls /\ c \notin Summarisers /\ c \notin Adders
      /\ doing[c] = "idle" /\ Goes(c, "summary") /\ clock \in Nat /\ conv' = <<>> /\ convExpires' = FALSE
      /\ erased' = 1 .. clock /\ UNCHANGED <<summary, seen, clock, crashed, cleared>>
      /\ overlapped' = overlapped \cup {s \in Summarisers : AtWork(s)}
  BY DEF MemoryInv, MemoryAssumption, MemoryCalls, ClearsList, SetList, MemoryTypeInv, AtWork
<1>1. /\ doing' \in [MemoryCalls -> {"idle", "trim", "expire", "summary", "check", "ask", "write", "done"}]
      /\ doing'[c] = "summary" /\ \A d \in MemoryCalls \ {c} : doing'[d] = doing[d]
      /\ Adders \subseteq MemoryCalls /\ Summarisers \subseteq MemoryCalls
  BY <1>0, CallGoes
<1>2. MemoryTypeInv'
  <2>1. conv' \in Seq(Remembered)
    BY <1>0, EmptyList
  <2> QED BY <1>0, <1>1, <2>1 DEF MemoryTypeInv, Remembered
<1>3. ErasedForgotten'
  <2>1. \A d \in Summarisers : AtWork(d)' <=> AtWork(d)
    BY <1>0, <1>1 DEF AtWork
  <2>2. \A d \in overlapped' : doing'[d] # "idle"
    BY <1>0, <1>1 DEF AtWork, MemoryInv, ErasedForgotten
  <2>3. cleared' \subseteq erased' /\ overlapped' \subseteq Summarisers
    BY <1>0 DEF MemoryInv, ErasedForgotten
  <2>4. DOMAIN conv' = {}
    BY <1>0
  <2> QED BY <1>0, <2>1, <2>2, <2>3, <2>4 DEF ErasedForgotten
<1>4. ClearedForgotten'
  BY <1>0 DEF MemoryInv, ClearedForgotten
<1>5. ListKept'
  <2>1. \A d \in Adders : doing'[d] = doing[d]
    BY <1>0, <1>1
  <2>2. ~convExpires' /\ (conv' = conv => convExpires' = convExpires)
    BY <1>0 DEF MemoryTypeInv
  <2> QED BY <1>0, <2>1, <2>2, ListStays DEF MemoryInv
<1> QED BY <1>2, <1>3, <1>4, <1>5 DEF MemoryInv

LEMMA ClearsSummaryKeeps ==
    ASSUME MemoryInv, MemoryAssumption, NEW c \in Clearers, ClearsSummary(c)
    PROVE  MemoryInv'
<1>0. /\ MemoryTypeInv /\ c \in MemoryCalls /\ c \notin Summarisers /\ c \notin Adders
      /\ Goes(c, "done") /\ summary' = {} /\ cleared' = erased /\ doing[c] = "summary"
      /\ UNCHANGED <<conv, convExpires, seen, clock, crashed, erased, overlapped>>
  BY DEF MemoryInv, MemoryAssumption, MemoryCalls, ClearsSummary, NoSummary
<1>1. /\ doing' \in [MemoryCalls -> {"idle", "trim", "expire", "summary", "check", "ask", "write", "done"}]
      /\ doing'[c] = "done" /\ \A d \in MemoryCalls \ {c} : doing'[d] = doing[d]
      /\ Adders \subseteq MemoryCalls /\ Summarisers \subseteq MemoryCalls
  BY <1>0, CallGoes
<1>2. MemoryTypeInv'
  BY <1>0, <1>1 DEF MemoryTypeInv
<1>3. ErasedForgotten'
  <2>1. \A d \in Summarisers : (AtWork(d)' <=> AtWork(d)) /\ doing'[d] = doing[d]
    BY <1>0, <1>1 DEF AtWork
  <2>2. overlapped \subseteq Summarisers
    BY DEF MemoryInv, ErasedForgotten
  <2> QED BY <1>0, <2>1, <2>2 DEF MemoryInv, ErasedForgotten
<1>4. ClearedForgotten'
  BY <1>0 DEF ClearedForgotten
<1>5. ListKept'
  <2>1. \A d \in Adders : doing'[d] = doing[d]
    BY <1>0, <1>1
  <2> QED BY <1>0, <2>1, ListStays DEF MemoryInv
<1> QED BY <1>2, <1>3, <1>4, <1>5 DEF MemoryInv

\* The steps of a summary.
LEMMA SummaryStepKeeps ==
    ASSUME MemoryInv, MemoryAssumption, NEW c \in Summarisers,
           ReadsMessages(c) \/ ReadsSummary(c) \/ Asks(c) \/ WritesSummary(c)
    PROVE  MemoryInv'
<1>0. /\ MemoryTypeInv /\ c \in MemoryCalls /\ c \notin Adders
      /\ UNCHANGED <<conv, convExpires, clock, crashed, clearing>>
      /\ clock \in Nat /\ conv \in Seq(Remembered) /\ seen \in [Summarisers -> SUBSET Nat]
  BY DEF MemoryInv, MemoryAssumption, MemoryCalls, ReadsMessages, ReadsSummary, Asks, WritesSummary, MemoryTypeInv, Remembered
<1>1. PICK next \in {"check", "ask", "write", "done"} :
        /\ Goes(c, next)
        /\ doing[c] = "idle" => next \in {"check", "done"}
        /\ doing[c] \in {"idle", "check", "ask", "write"}
        /\ ReadsMessages(c) \/ seen' = seen
        /\ ReadsMessages(c) => doing[c] = "idle" /\ ((seen' = seen /\ next = "done") \/ seen' = [seen EXCEPT ![c] = Numbers(conv)])
        /\ ~ReadsMessages(c) => doing[c] # "idle"
        /\ summary' = summary \/ (summary' = seen[c] /\ doing[c] = "write" /\ next = "done")
  <2>1. CASE ReadsMessages(c)
    BY <2>1 DEF ReadsMessages
  <2>2. CASE ReadsSummary(c)
    BY <2>2 DEF ReadsSummary, ReadsMessages
  <2>3. CASE Asks(c)
    BY <2>3 DEF Asks, ReadsMessages
  <2>4. CASE WritesSummary(c)
    BY <2>4 DEF WritesSummary, ReadsMessages
  <2> QED BY <2>1, <2>2, <2>3, <2>4
<1>2. /\ doing' \in [MemoryCalls -> {"idle", "trim", "expire", "summary", "check", "ask", "write", "done"}]
      /\ doing'[c] = next /\ \A d \in MemoryCalls \ {c} : doing'[d] = doing[d]
      /\ Adders \subseteq MemoryCalls /\ Summarisers \subseteq MemoryCalls
  BY <1>0, <1>1, CallGoes
<1>3. /\ Numbers(conv) \subseteq Nat /\ Numbers(conv) \cap erased = {}
  <2>1. \A i \in DOMAIN conv : conv[i].n \in Nat /\ conv[i].n \notin erased
    BY <1>0 DEF MemoryInv, ErasedForgotten, Remembered
  <2> QED BY <2>1 DEF Numbers
<1>4. /\ seen' \in [Summarisers -> SUBSET Nat]
      /\ \A d \in Summarisers \ {c} : seen'[d] = seen[d]
      /\ seen'[c] = seen[c] \/ seen'[c] = Numbers(conv)
  BY <1>0, <1>1, <1>3
<1>5. MemoryTypeInv'
  BY <1>0, <1>1, <1>2, <1>4 DEF MemoryTypeInv, MemoryAssumption
<1>6. /\ UNCHANGED <<erased, cleared, overlapped>> /\ overlapped \subseteq Summarisers
      /\ \A d \in overlapped : doing[d] # "idle"
  BY <1>0 DEF clearing, MemoryInv, ErasedForgotten
<1>7. \A d \in overlapped : doing'[d] # "idle" /\ seen'[d] = seen[d]
  BY <1>1, <1>2, <1>4, <1>6
<1>8. ASSUME NEW d \in Summarisers, AtWork(d)', seen'[d] \cap erased # {} PROVE d \in overlapped
  <2>1. CASE d # c
    BY <1>2, <1>4, <1>8, <2>1 DEF AtWork, MemoryInv, ErasedForgotten
  <2>2. CASE d = c
    <3>1. seen'[c] = seen[c] /\ seen[c] \cap erased # {} /\ next # "done"
      BY <1>2, <1>3, <1>4, <1>8, <2>2 DEF AtWork
    <3>2. CASE doing[c] # "idle"
      BY <1>1, <2>2, <3>1, <3>2 DEF AtWork, MemoryInv, ErasedForgotten
    <3>3. CASE doing[c] = "idle"
      <4>1. seen' = [seen EXCEPT ![c] = Numbers(conv)]
        BY <1>1, <3>1, <3>3
      <4>2. seen'[c] = Numbers(conv)
        BY <1>0, <4>1
      <4> QED BY <1>3, <3>1, <4>2
    <3> QED BY <3>2, <3>3
  <2> QED BY <2>1, <2>2
<1>9. ErasedForgotten'
  BY <1>0, <1>6, <1>7, <1>8 DEF ErasedForgotten, MemoryInv
<1>10. ClearedForgotten'
  <2> SUFFICES ASSUME summary' \cap cleared # {} PROVE \E d \in overlapped : summary' = seen'[d]
    BY <1>6 DEF ClearedForgotten
  <2>1. CASE summary' = summary
    BY <1>7, <2>1 DEF MemoryInv, ClearedForgotten
  <2>2. CASE summary' # summary
    <3>1. summary' = seen[c] /\ doing[c] = "write"
      BY <1>1, <2>2
    <3>2. c \in overlapped
      BY <3>1 DEF AtWork, MemoryInv, ErasedForgotten
    <3> QED BY <1>7, <3>1, <3>2
  <2> QED BY <2>1, <2>2
<1>11. ListKept'
  <2>1. \A d \in Adders : doing'[d] = doing[d]
    BY <1>0, <1>2
  <2> QED BY <1>0, <2>1, ListStays DEF MemoryInv
<1> QED BY <1>5, <1>9, <1>10, <1>11 DEF MemoryInv

\* A time to live runs out, or the process ends.
LEMMA MemoryLossKeeps ==
    ASSUME MemoryInv, MemoryAssumption, ListExpires \/ SummaryExpires \/ MemoryCrash
    PROVE  MemoryInv'
<1>0. MemoryTypeInv /\ conv \in Seq(Remembered) /\ Adders \subseteq MemoryCalls /\ Summarisers \subseteq MemoryCalls
  BY DEF MemoryInv, MemoryTypeInv, Remembered, MemoryCalls
<1>1. CASE ListExpires
  <2>1. conv' = <<>> /\ convExpires' = FALSE /\ UNCHANGED <<summary, doing, seen, clock, crashed, clearing>> /\ convExpires
    BY <1>1 DEF ListExpires, SetList
  <2>2. MemoryTypeInv'
    <3>1. conv' \in Seq(Remembered)
      BY <2>1, EmptyList
    <3> QED BY <2>1, <3>1 DEF MemoryInv, MemoryTypeInv, Remembered
  <2>3. DOMAIN conv' = {} /\ conv' # conv
    BY <1>0, <2>1 DEF MemoryTypeInv
  <2>4. ErasedForgotten' /\ ClearedForgotten'
    BY <2>1, <2>3 DEF MemoryInv, ErasedForgotten, ClearedForgotten, AtWork, clearing
  <2>5. ListKept'
    BY <1>0, <2>1, <2>3, ListStays DEF MemoryInv
  <2> QED BY <2>2, <2>4, <2>5 DEF MemoryInv
<1>2. CASE SummaryExpires
  <2>1. summary' = {} /\ UNCHANGED <<conv, convExpires, doing, seen, clock, crashed, clearing>>
    BY <1>2 DEF SummaryExpires, NoSummary
  <2>2. MemoryTypeInv'
    BY <2>1 DEF MemoryInv, MemoryTypeInv
  <2>3. ErasedForgotten' /\ ClearedForgotten'
    BY <2>1 DEF MemoryInv, ErasedForgotten, ClearedForgotten, AtWork, clearing
  <2>4. ListKept'
    BY <1>0, <2>1, ListStays DEF MemoryInv
  <2> QED BY <2>2, <2>3, <2>4 DEF MemoryInv
<1>3. CASE MemoryCrash
  <2>1. /\ crashed' = crashed + 1 /\ UNCHANGED <<conv, convExpires, summary, seen, clock, clearing>>
        /\ doing' = [d \in MemoryCalls |-> IF doing[d] = "idle" THEN "idle" ELSE "done"]
        /\ crashed \in Nat
    BY <1>0, <1>3 DEF MemoryCrash, MemoryTypeInv
  <2>2. MemoryTypeInv'
    BY <1>0, <2>1 DEF MemoryInv, MemoryTypeInv
  <2>3. \A d \in Summarisers : ~AtWork(d)' /\ (doing[d] # "idle" => doing'[d] # "idle")
    BY <1>0, <2>1 DEF AtWork
  <2>4. ErasedForgotten' /\ ClearedForgotten'
    BY <2>1, <2>3 DEF MemoryInv, ErasedForgotten, ClearedForgotten, clearing
  <2>5. ListKept'
    BY <2>1 DEF ListKept
  <2> QED BY <2>2, <2>4, <2>5 DEF MemoryInv
<1> QED BY <1>1, <1>2, <1>3

\* The invariant of the short-term memory holds throughout.
LEMMA MemoryInvariant == MemorySpec => []MemoryInv
<1>0. MemoryAssumption
  BY MemoryAssumption
<1>1. MemoryInit => MemoryInv
  <2> SUFFICES ASSUME MemoryInit PROVE MemoryInv
    OBVIOUS
  <2>1. conv = <<>> /\ conv \in Seq(Remembered) /\ DOMAIN conv = {}
    BY DEF MemoryInit
  <2>2. MemoryTypeInv
    BY <2>1 DEF MemoryInit, MemoryTypeInv, MemoryCalls, Remembered
  <2>3. ErasedForgotten /\ ClearedForgotten
    BY <2>1 DEF MemoryInit, ErasedForgotten, ClearedForgotten, AtWork, MemoryCalls, NoSummary
  <2>4. ListKept
    <3>1. IsFiniteSet(Trimming)
      BY <1>0, FS_Subset DEF Trimming, MemoryAssumption
    <3>2. Cardinality(Trimming) \in Nat /\ Keep \in Nat /\ Len(conv) = 0
      BY <1>0, <2>1, <3>1, FS_CardinalityType DEF MemoryAssumption
    <3> QED BY <2>1, <3>2 DEF ListKept, Trimming
  <2> QED BY <2>2, <2>3, <2>4 DEF MemoryInv
<1>2. MemoryInv /\ [MemoryNext]_memoryVars => MemoryInv'
  <2> SUFFICES ASSUME MemoryInv, [MemoryNext]_memoryVars PROVE MemoryInv'
    OBVIOUS
  <2>1. CASE UNCHANGED memoryVars
    <3>1. UNCHANGED <<conv, convExpires, summary, doing, seen, clock, crashed, erased, cleared, overlapped>>
      BY <2>1 DEF memoryVars, clearing
    <3>2. MemoryTypeInv'
      BY <3>1 DEF MemoryInv, MemoryTypeInv
    <3>3. ErasedForgotten' /\ ClearedForgotten' /\ ListKept'
      BY <3>1 DEF MemoryInv, ErasedForgotten, ClearedForgotten, ListKept, AtWork
    <3> QED BY <3>2, <3>3 DEF MemoryInv
  <2> QED BY <1>0, <2>1, PushesKeeps, TrimsKeeps, SetsExpiryKeeps, ClearsListKeeps, ClearsSummaryKeeps,
             SummaryStepKeeps, MemoryLossKeeps DEF MemoryNext
<1> QED BY <1>1, <1>2, PTL DEF MemorySpec

\* Until the process crashes the list of a conversation is over its limit by at most the additions
\* that have not trimmed yet, and has a time to live once none is under way (memory.py:84 to 86);
\* a summary of cleared messages is there only if a generation at work when the clear began wrote
\* it (memory.py:196 to 202).  For that the invariant says of whom the erased messages can be
\* known: of nobody but these generations.
THEOREM MemoryCorrect == MemorySpec => []MemoryKept
<1>1. MemoryInv => MemoryKept
  BY DEF MemoryInv, MemoryKept
<1> QED BY <1>1, MemoryInvariant, PTL

-----------------------------------------------------------------------------
(* The contexts                                                            *)

\* A message, as the contexts weigh it.
Weighed == [n : Nat, imp : Nat, size : Nat]

\* S sums the sizes of the first n messages of s.
SumsTo(s, S, n) == S = [i \in 0 .. n |-> IF i = 0 THEN 0 ELSE S[i - 1] + s[i].size]

\* Such sums exist: of two of different lengths the longer goes on where the shorter ends.
LEMMA SumsExist ==
    ASSUME NEW s, NEW n \in Nat
    PROVE  \E S : SumsTo(s, S, n)
<1> DEFINE Missing == {k \in Nat : ~\E S : SumsTo(s, S, k)}
<1>1. Missing = {}
  <2> SUFFICES ASSUME Missing # {} PROVE FALSE OBVIOUS
  <2>1. PICK m \in Missing : \A k \in Missing : m <= k BY LeastMember
  <2>2. m # 0
    <3> SUFFICES ASSUME m = 0 PROVE FALSE OBVIOUS
    <3>1. PICK S : S = [k \in 0 .. m |-> 0] OBVIOUS
    <3>2. SumsTo(s, S, m) BY <3>1 DEF SumsTo
    <3> QED BY <2>1, <3>2
  <2>3. m \in Nat /\ m - 1 \in Nat /\ m - 1 \notin Missing BY <2>1, <2>2
  <2>4. PICK S : SumsTo(s, S, m - 1) BY <2>3
  <2> DEFINE T == [k \in 0 .. m |-> IF k = m THEN S[m - 1] + s[m].size ELSE S[k]]
  <2>5. SumsTo(s, T, m)
    <3>1. ASSUME NEW k \in 0 .. m PROVE T[k] = IF k = 0 THEN 0 ELSE T[k - 1] + s[k].size
      <4>1. CASE k = m
        <5>1. T[k] = S[m - 1] + s[m].size /\ k # 0 BY <2>2, <4>1
        <5>2. m - 1 \in 0 .. m /\ m - 1 # m BY <2>3
        <5>3. T[k - 1] = S[m - 1] BY <4>1, <5>2
        <5> QED BY <4>1, <5>1, <5>3
      <4>2. CASE k # m /\ k # 0
        <5>1. k \in 0 .. m - 1 /\ k - 1 \in 0 .. m /\ k - 1 # m BY <4>2
        <5>2. T[k] = S[k] /\ T[k - 1] = S[k - 1] BY <4>2, <5>1
        <5>3. S[k] = S[k - 1] + s[k].size BY <2>4, <4>2, <5>1 DEF SumsTo
        <5> QED BY <4>2, <5>2, <5>3
      <4>3. CASE k # m /\ k = 0
        <5>1. S[0] = 0 BY <2>3, <2>4 DEF SumsTo
        <5> QED BY <4>3, <5>1
      <4> QED BY <4>1, <4>2, <4>3
    <3> QED BY <3>1 DEF SumsTo
  <2> QED BY <2>1, <2>5
<1> QED BY <1>1

\* SizeOf is the last of the sums.
LEMMA SumsAre ==
    ASSUME NEW s \in Seq(Weighed)
    PROVE  \E S \in [0 .. Len(s) -> Nat] :
              /\ S[0] = 0 /\ \A i \in 1 .. Len(s) : S[i] = S[i - 1] + s[i].size
              /\ SizeOf(s) = S[Len(s)]
<1>1. PICK N \in Nat : N = Len(s) OBVIOUS
<1>2. PICK S : S = CHOOSE X : SumsTo(s, X, N) OBVIOUS
<1>3. SumsTo(s, S, N) BY <1>2, SumsExist
<1>4. SizeOf(s) = S[N] BY <1>1, <1>2 DEF SizeOf, SumsTo
<1>5. S = [i \in 0 .. N |-> IF i = 0 THEN 0 ELSE S[i - 1] + s[i].size] BY <1>3 DEF SumsTo
<1>6. S[0] = 0 BY <1>5
<1>7. \A i \in 1 .. N : S[i] = S[i - 1] + s[i].size BY <1>5
<1> DEFINE Missing == {i \in 0 .. N : S[i] \notin Nat}
<1>8. Missing = {}
  <2> SUFFICES ASSUME Missing # {} PROVE FALSE OBVIOUS
  <2>0. Missing \in SUBSET Nat OBVIOUS
  <2>1. PICK m \in Missing : \A k \in Missing : m <= k BY <2>0, LeastMember
  <2>2. m \in 1 .. N /\ m - 1 \in 0 .. N /\ m - 1 \notin Missing BY <1>6, <2>1
  <2>3. S[m - 1] \in Nat /\ S[m] = S[m - 1] + s[m].size BY <1>7, <2>2
  <2>4. s[m] \in Weighed BY <1>1, <2>2
  <2>5. s[m].size \in Nat BY <2>4 DEF Weighed
  <2> QED BY <2>1, <2>3, <2>5
<1>9. DOMAIN S = 0 .. N BY <1>5
<1>10. S \in [0 .. N -> Nat] BY <1>5, <1>8, <1>9
<1> QED BY <1>1, <1>4, <1>6, <1>7, <1>10

\* Chronological reads a sequence backwards.
LEMMA Reversed ==
    ASSUME NEW S, NEW s \in Seq(S)
    PROVE  LET r == Chronological(s) IN
           /\ r \in Seq(S) /\ Len(r) = Len(s) /\ DOMAIN r = 1 .. Len(s) /\ DOMAIN s = 1 .. Len(s) /\ Len(s) \in Nat
           /\ \A i \in 1 .. Len(s) : Len(s) + 1 - i \in 1 .. Len(s) /\ r[i] = s[Len(s) + 1 - i]
BY DEF Chronological

\* A sequence read backwards has the same size.
LEMMA SizeReversed ==
    ASSUME NEW s \in Seq(Weighed)
    PROVE  SizeOf(Chronological(s)) = SizeOf(s)
<1>0. PICK N \in Nat : N = Len(s) OBVIOUS
<1>1. PICK r : N = Len(s) /\ r = Chronological(s) BY <1>0
<1>2. r \in Seq(Weighed) /\ Len(r) = N /\ \A i \in 1 .. N : N + 1 - i \in 1 .. N /\ r[i] = s[N + 1 - i]
  BY <1>1, Reversed
<1>3. PICK S \in [0 .. N -> Nat] : /\ S[0] = 0 /\ \A i \in 1 .. N : S[i] = S[i - 1] + s[i].size
                                   /\ SizeOf(s) = S[N]
  BY <1>1, SumsAre
<1>4. PICK R \in [0 .. N -> Nat] : /\ R[0] = 0 /\ \A i \in 1 .. N : R[i] = R[i - 1] + r[i].size
                                   /\ SizeOf(r) = R[N]
  BY <1>2, SumsAre
<1> DEFINE Missing == {i \in 0 .. N : R[i] # S[N] - S[N - i]}
<1>5. Missing = {}
  <2> SUFFICES ASSUME Missing # {} PROVE FALSE OBVIOUS
  <2>0. Missing \in SUBSET Nat OBVIOUS
  <2>1. PICK m \in Missing : \A k \in Missing : m <= k BY <2>0, LeastMember
  <2>2. m # 0
    <3> SUFFICES ASSUME m = 0 PROVE FALSE OBVIOUS
    <3>1. S[N - m] = S[N] /\ S[N] \in Nat OBVIOUS
    <3> QED BY <1>4, <2>1, <3>1
  <2>3. m \in 1 .. N /\ m - 1 \in 0 .. N /\ m - 1 \notin Missing BY <2>1, <2>2
  <2>4. PICK k : k = N + 1 - m OBVIOUS
  <2>5. k \in 1 .. N /\ k - 1 = N - m /\ N - (m - 1) = k /\ k \in 0 .. N /\ k - 1 \in 0 .. N BY <2>3, <2>4
  <2>6. R[m - 1] = S[N] - S[k] BY <2>3, <2>5
  <2>7. R[m] = R[m - 1] + r[m].size /\ r[m] = s[k] BY <1>2, <1>4, <2>3, <2>4
  <2>8. S[k] = S[k - 1] + s[k].size BY <1>3, <2>5
  <2>9. /\ S[k] \in Nat /\ S[k - 1] \in Nat /\ S[N] \in Nat /\ s[k].size \in Nat
    <3>1. s[k] \in Weighed BY <1>1, <2>5
    <3> QED BY <2>5, <3>1, SMTT(30) DEF Weighed
  <2>10. R[m] = S[N] - S[k - 1]
    <3>1. PICK a \in Nat, b \in Nat, t \in Nat, z \in Nat :
             a = S[k] /\ b = S[k - 1] /\ t = S[N] /\ z = s[k].size
      BY <2>9
    <3>2. a = b + z BY <2>8, <3>1
    <3>3. R[m] = R[m - 1] + z BY <2>7, <3>1
    <3>4. R[m - 1] = t - a BY <2>6, <3>1
    <3>5. R[m] = (t - a) + z BY <3>3, <3>4
    <3>6. (t - a) + z = t - b BY <3>2
    <3> QED BY <3>1, <3>5, <3>6
  <2>11. R[m] = S[N] - S[N - m] BY <2>5, <2>10
  <2> QED BY <2>1, <2>11
<1>6. R[N] = S[N] - S[N - N]
  <2> HIDE DEF Missing
  <2>1. N \in 0 .. N /\ N \notin Missing BY <1>5
  <2> QED BY <2>1 DEF Missing
<1>7. N - N = 0 /\ S[N] \in Nat OBVIOUS
<1>8. R[N] = S[N] BY <1>3, <1>6, <1>7
<1> QED BY <1>1, <1>3, <1>4, <1>8

\* What fits is a beginning of the sequence, within the budget.
LEMMA FittingIs ==
    ASSUME NEW s \in Seq(Weighed), Budget \in Nat
    PROVE  \E k \in 0 .. Len(s) : /\ Fitting(s) = SubSeq(s, 1, k) /\ SizeOf(Fitting(s)) <= Budget
                                  /\ Fitting(s) \in Seq(Weighed) /\ Len(Fitting(s)) = k
                                  /\ \A i \in 1 .. k : Fitting(s)[i] = s[i]
<1> DEFINE fits == {k \in 0 .. Len(s) : SizeOf(SubSeq(s, 1, k)) <= Budget}
<1>1. PICK N \in Nat : N = Len(s) OBVIOUS
<1>2. 0 \in fits
  <2>1. SubSeq(s, 1, 0) = <<>> OBVIOUS
  <2>2. <<>> \in Seq(Weighed) /\ Len(<<>>) = 0 OBVIOUS
  <2>3. SizeOf(<<>>) = 0
    <3>1. PICK e : e = <<>> OBVIOUS
    <3>2. e \in Seq(Weighed) /\ Len(e) = 0 BY <3>1
    <3>3. PICK S \in [0 .. Len(e) -> Nat] : S[0] = 0 /\ SizeOf(e) = S[Len(e)] BY <3>2, SumsAre
    <3> QED BY <3>1, <3>2, <3>3
  <2>4. SizeOf(SubSeq(s, 1, 0)) = 0 BY <2>1, <2>3
  <2>5. 0 <= Budget /\ 0 \in 0 .. Len(s) BY <1>1
  <2> QED BY <2>4, <2>5
<1>3. fits \in SUBSET (0 .. N) BY <1>1
<1>4. PICK m \in fits : \A k \in fits : k <= m BY <1>2, <1>3, GreatestMember
<1>5. PICK k : k = Max(fits) OBVIOUS
<1>6. k \in fits BY <1>4, <1>5 DEF Max
<1>7. Fitting(s) = SubSeq(s, 1, k) BY <1>5 DEF Fitting
<1>8. k \in 0 .. N /\ SizeOf(SubSeq(s, 1, k)) <= Budget BY <1>1, <1>6
<1> HIDE DEF fits
<1>9. PICK f : f = SubSeq(s, 1, k) OBVIOUS
<1>10. f \in Seq(Weighed) /\ Len(f) = k /\ \A i \in 1 .. k : f[i] = s[i] BY <1>1, <1>8, <1>9
<1> QED BY <1>1, <1>7, <1>8, <1>9, <1>10

\* The newest message has the largest number.
Newest(s) == \A i, j \in DOMAIN s : i < j => s[i].n > s[j].n

\* The more important message goes first, the older one of two as important.
LEMMA MattersCompares ==
    ASSUME NEW s, NEW i \in DOMAIN s, NEW j \in DOMAIN s
    PROVE  <<i, j>> \in Matters(s) <=> s[i].imp > s[j].imp \/ (s[i].imp = s[j].imp /\ s[i].n < s[j].n)
BY DEF Matters

\* A sub-agent's context fits, and leaves out none that matters more than one it has.
LEMMA SubAgentContextFits ==
    ASSUME NEW s \in Seq(Weighed), Newest(s), Budget \in Nat
    PROVE  LET context == SubAgentContext(s) IN
           /\ SizeOf(context) <= Budget
           /\ \A i, k \in DOMAIN s :
                 s[i].n \notin Numbers(context) /\ s[k].n \in Numbers(context) => s[i].imp <= s[k].imp
<1>0. PICK N \in Nat : N = Len(s) OBVIOUS
<1>1. PICK D : N = Len(s) /\ D = DOMAIN s /\ D = 1 .. N BY <1>0
<1>2a. \A i \in D : s[i] \in Weighed /\ i \in Nat BY <1>1
<1>2. \A i \in D : s[i].n \in Nat /\ s[i].imp \in Nat /\ i \in Nat BY <1>2a DEF Weighed
<1>3. \A i, j \in D : s[i].n = s[j].n => i = j BY <1>1, <1>2 DEF Newest
<1>4. PICK R : R = Matters(s) OBVIOUS
<1>5. \A i, j \in D : <<i, j>> \in R <=> s[i].imp > s[j].imp \/ (s[i].imp = s[j].imp /\ s[i].n < s[j].n)
  BY <1>1, <1>4, MattersCompares
<1>6. Orders(R, D)
  <2>1. ASSUME NEW i \in D, NEW j \in D PROVE i = j \/ <<i, j>> \in R \/ <<j, i>> \in R
    <3>1. PICK a \in Nat, b \in Nat, x \in Nat, y \in Nat :
             a = s[i].imp /\ b = s[j].imp /\ x = s[i].n /\ y = s[j].n
      BY <1>2
    <3>2. x = y => i = j BY <1>3, <3>1
    <3>3. a > b \/ (a = b /\ x < y) \/ b > a \/ (b = a /\ y < x) \/ x = y OBVIOUS
    <3> QED BY <1>5, <3>1, <3>2, <3>3
  <2>2. ASSUME NEW i \in D PROVE <<i, i>> \notin R BY <1>2, <1>5
  <2>3. ASSUME NEW i \in D, NEW j \in D, NEW k \in D, <<i, j>> \in R, <<j, k>> \in R PROVE <<i, k>> \in R
    <3>1. PICK a \in Nat, b \in Nat, d \in Nat : a = s[i].imp /\ b = s[j].imp /\ d = s[k].imp BY <1>2
    <3>2. PICK x \in Nat, y \in Nat, z \in Nat : x = s[i].n /\ y = s[j].n /\ z = s[k].n BY <1>2
    <3>3. a > b \/ (a = b /\ x < y) BY <1>5, <2>3, <3>1, <3>2
    <3>4. b > d \/ (b = d /\ y < z) BY <1>5, <2>3, <3>1, <3>2
    <3>5. a > d \/ (a = d /\ x < z) BY <3>3, <3>4
    <3> QED BY <1>5, <3>1, <3>2, <3>5
  <2> QED BY <2>1, <2>2, <2>3 DEF Orders
<1>7. IsFiniteSet(D) /\ Cardinality(D) = N
  <2>1. IsFiniteSet(1 .. N) /\ Cardinality(1 .. N) = N BY FS_Interval
  <2> QED BY <1>1, <2>1
<1>8. PICK e : e = Enumerated(R, D) OBVIOUS
<1>9. /\ e \in [1 .. N -> D]
      /\ \A i \in D : \E m \in 1 .. N : e[m] = i
      /\ \A m, n \in 1 .. N : <<e[m], e[n]>> \in R <=> m < n
  BY <1>6, <1>7, <1>8, EnumeratedInOrder, SMTT(30)
<1>10. PICK b : b = ByImportance(s) OBVIOUS
<1>11. b = [k \in 1 .. N |-> s[e[k]]]
  <2>1. b = [k \in DOMAIN e |-> s[e[k]]] BY <1>1, <1>4, <1>8, <1>10 DEF ByImportance
  <2> QED BY <1>9, <2>1
<1>12. b \in Seq(Weighed) /\ Len(b) = N /\ \A k \in 1 .. N : b[k] = s[e[k]]
  <2>1. \A k \in 1 .. N : s[e[k]] \in Weighed BY <1>2a, <1>9
  <2> QED BY <1>11, <2>1
<1>13a. PICK f : f = Fitting(b) OBVIOUS
<1>13. PICK K \in 0 .. N : /\ SizeOf(f) <= Budget /\ f \in Seq(Weighed) /\ Len(f) = K
                         /\ \A i \in 1 .. K : f[i] = b[i]
  <2>1. PICK K \in 0 .. Len(b) : /\ SizeOf(Fitting(b)) <= Budget /\ Fitting(b) \in Seq(Weighed)
                                  /\ Len(Fitting(b)) = K /\ \A i \in 1 .. K : Fitting(b)[i] = b[i]
    BY <1>12, FittingIs
  <2>2. K \in 0 .. N BY <1>12, <2>1
  <2> QED BY <1>13a, <2>1, <2>2
<1>14. PICK g : g = SubAgentContext(s) /\ g = Chronological(f) BY <1>10, <1>13a DEF SubAgentContext
<1>15. SizeOf(g) <= Budget BY <1>13, <1>14, SizeReversed
<1>16. g \in Seq(Weighed) /\ DOMAIN g = 1 .. K /\ \A i \in 1 .. K : K + 1 - i \in 1 .. K /\ g[i] = f[K + 1 - i]
  BY <1>13, <1>14, Reversed
<1>17. \A m \in 1 .. K : m \in 1 .. N /\ s[e[m]].n \in Numbers(g)
  <2> SUFFICES ASSUME NEW m \in 1 .. K PROVE m \in 1 .. N /\ s[e[m]].n \in Numbers(g) OBVIOUS
  <2>1. m \in 1 .. N /\ f[m] = s[e[m]] BY <1>12, <1>13
  <2>2. PICK q : q = K + 1 - m OBVIOUS
  <2>3. q \in 1 .. K /\ K + 1 - q = m BY <2>2
  <2>4. g[q] = f[m] BY <1>16, <2>3
  <2> QED BY <1>16, <2>1, <2>3, <2>4 DEF Numbers
<1>18. ASSUME NEW k \in D, s[k].n \in Numbers(g) PROVE \E m \in 1 .. K : e[m] = k
  <2>1. PICK i \in 1 .. K : g[i].n = s[k].n BY <1>16, <1>18 DEF Numbers
  <2>2. PICK m \in 1 .. K : m = K + 1 - i /\ g[i] = f[m] BY <1>16
  <2>3. m \in 1 .. N /\ f[m] = s[e[m]] /\ e[m] \in D BY <1>9, <1>12, <1>13
  <2>4. s[e[m]].n = s[k].n BY <2>1, <2>2, <2>3
  <2> QED BY <1>3, <2>3, <2>4
<1>19. ASSUME NEW i \in D, NEW k \in D, s[i].n \notin Numbers(g), s[k].n \in Numbers(g) PROVE s[i].imp <= s[k].imp
  <2>1. PICK m \in 1 .. K : e[m] = k BY <1>18, <1>19
  <2>2. PICK n \in 1 .. N : e[n] = i BY <1>9
  <2>3. ~(n <= K) BY <1>17, <1>19, <2>2
  <2>4. m \in 1 .. N /\ m < n BY <2>3
  <2>5. <<k, i>> \in R BY <1>9, <2>1, <2>2, <2>4
  <2> QED BY <1>2, <1>5, <2>5
<1> QED BY <1>1, <1>14, <1>15, <1>19

\* A context window fits, and has every message older than one it has.
LEMMA ContextWindowFits ==
    ASSUME NEW s \in Seq(Weighed), Newest(s), Budget \in Nat
    PROVE  LET window == ContextWindow(s) IN
           /\ SizeOf(window) <= Budget
           /\ \A i, k \in DOMAIN s : s[i].n < s[k].n /\ s[k].n \in Numbers(window) => s[i].n \in Numbers(window)
<1>0. PICK N \in Nat : N = Len(s) OBVIOUS
<1>1. PICK D : N = Len(s) /\ D = DOMAIN s /\ D = 1 .. N BY <1>0
<1>2. \A i \in D : s[i].n \in Nat
  <2>1. \A i \in D : s[i] \in Weighed BY <1>1
  <2> QED BY <2>1 DEF Weighed
<1>3. \A i, j \in D : i < j => s[i].n > s[j].n BY <1>1 DEF Newest
<1>4. PICK r : r = Chronological(s) OBVIOUS
<1>5. r \in Seq(Weighed) /\ Len(r) = N /\ \A i \in 1 .. N : N + 1 - i \in 1 .. N /\ r[i] = s[N + 1 - i]
  BY <1>1, <1>4, Reversed
<1>6a. PICK f : f = Fitting(r) OBVIOUS
<1>6. PICK K \in 0 .. N : /\ SizeOf(f) <= Budget /\ f \in Seq(Weighed) /\ Len(f) = K
                         /\ \A i \in 1 .. K : f[i] = r[i]
  <2>1. PICK K \in 0 .. Len(r) : /\ SizeOf(Fitting(r)) <= Budget /\ Fitting(r) \in Seq(Weighed)
                                  /\ Len(Fitting(r)) = K /\ \A i \in 1 .. K : Fitting(r)[i] = r[i]
    BY <1>5, FittingIs
  <2>2. K \in 0 .. N BY <1>5, <2>1
  <2> QED BY <1>6a, <2>1, <2>2
<1>7. f = ContextWindow(s) /\ DOMAIN f = 1 .. K BY <1>4, <1>6, <1>6a DEF ContextWindow
<1>8. ASSUME NEW i \in D, NEW k \in D, s[i].n < s[k].n, s[k].n \in Numbers(f) PROVE s[i].n \in Numbers(f)
  <2>1. PICK m \in 1 .. K : f[m].n = s[k].n BY <1>7, <1>8 DEF Numbers
  <2>2. PICK q : q = N + 1 - m OBVIOUS
  <2>3. m \in 1 .. N /\ f[m] = s[q] /\ q \in D
    <3>1. m \in 1 .. N /\ f[m] = r[m] BY <1>6
    <3>2. q \in 1 .. N /\ r[m] = s[q] BY <1>5, <2>2, <3>1
    <3> QED BY <1>1, <3>1, <3>2
  <2>4. s[q].n = s[k].n BY <2>1, <2>3
  <2>5. q = k
    <3>1. ~(q < k) /\ ~(k < q) BY <1>2, <1>3, <2>3, <2>4
    <3> QED BY <1>1, <2>3, <3>1
  <2>6. k < i
    <3>1. ~(i < k) /\ i # k BY <1>2, <1>3, <1>8
    <3> QED BY <1>1, <3>1
  <2>7. PICK j : j = N + 1 - i OBVIOUS
  <2>8. j \in 1 .. K /\ N + 1 - j = i /\ j \in 1 .. N BY <1>1, <2>2, <2>3, <2>5, <2>6, <2>7
  <2>9. f[j] = s[i] BY <1>5, <1>6, <2>8
  <2> QED BY <1>7, <2>8, <2>9 DEF Numbers
<1> QED BY <1>1, <1>6, <1>7, <1>8

\* Numbers are given in order, and nobody has read or told one that was not given.
NumbersGiven ==
    /\ Newest(conv) /\ \A i \in DOMAIN conv : conv[i].n \in 1 .. clock
    /\ summary \subseteq 1 .. clock /\ \A c \in Summarisers : seen[c] \subseteq 1 .. clock

\* At the start no message has been given.
LEMMA NumbersStart == MemoryInit => NumbersGiven
BY DEF MemoryInit, NumbersGiven, Newest, NoSummary

\* Every step of the memory keeps the numbers in order, a crash included.
LEMMA NumbersStep == MemoryTypeInv /\ NumbersGiven /\ [MemoryNext]_memoryVars => NumbersGiven'
<1> SUFFICES ASSUME MemoryTypeInv, NumbersGiven, [MemoryNext]_memoryVars PROVE NumbersGiven' OBVIOUS
<1> DEFINE M == [n : Nat, imp : Importances, size : Sizes]
<1>0. /\ conv \in Seq(M) /\ clock \in Nat /\ seen \in [Summarisers -> SUBSET Nat] BY DEF MemoryTypeInv
<1>1. ASSUME NEW s, conv' = s, s = <<>> \/ s = conv, UNCHANGED clock,
             summary' \in {summary, NoSummary} \cup {seen[c] : c \in Summarisers},
             \A c \in Summarisers : seen'[c] \subseteq 1 .. clock
      PROVE  NumbersGiven'
  <2>1. Newest(s) /\ \A i \in DOMAIN s : s[i].n \in 1 .. clock BY <1>1 DEF NumbersGiven, Newest
  <2>2. summary' \subseteq 1 .. clock BY <1>1 DEF NumbersGiven, NoSummary
  <2> QED BY <1>1, <2>1, <2>2 DEF NumbersGiven
<1>2. \A c \in Summarisers : seen[c] \subseteq 1 .. clock BY DEF NumbersGiven
<1>3. CASE UNCHANGED memoryVars
  BY <1>1, <1>2, <1>3 DEF memoryVars, clearing
<1>4. ASSUME NEW c \in Adders, Pushes(c) PROVE NumbersGiven'
  <2>1. PICK imp \in Importances, size \in Sizes : conv' = <<[n |-> clock + 1, imp |-> imp, size |-> size]>> \o conv
    BY <1>4 DEF Pushes, SetList
  <2>2. PICK m : m = [n |-> clock + 1, imp |-> imp, size |-> size] OBVIOUS
  <2>3. m \in M /\ m.n = clock + 1 BY <1>0, <2>2
  <2>4. PICK s : s = <<m>> \o conv OBVIOUS
  <2>5. conv' = s BY <2>1, <2>2, <2>4
  <2>6. PICK N \in Nat : N = Len(conv) /\ DOMAIN conv = 1 .. N BY <1>0
  <2>7. DOMAIN s = 1 .. N + 1 /\ s[1] = m /\ \A i \in 2 .. N + 1 : i - 1 \in 1 .. N /\ s[i] = conv[i - 1]
    BY <1>0, <2>3, <2>4, <2>6
  <2>8. \A i \in 2 .. N + 1 : s[i].n \in 1 .. clock BY <2>6, <2>7 DEF NumbersGiven
  <2>9. Newest(s)
    <3> SUFFICES ASSUME NEW i \in 1 .. N + 1, NEW j \in 1 .. N + 1, i < j PROVE s[i].n > s[j].n BY <2>7 DEF Newest
    <3>1. j \in 2 .. N + 1 BY <2>6
    <3>2. CASE i = 1 BY <1>0, <2>3, <2>7, <2>8, <3>1, <3>2
    <3>3. CASE i # 1
      <4>1. i \in 2 .. N + 1 /\ i - 1 < j - 1 BY <3>3
      <4> QED BY <2>6, <2>7, <3>1, <4>1 DEF NumbersGiven, Newest
    <3> QED BY <3>2, <3>3
  <2>10. clock' = clock + 1 /\ UNCHANGED <<summary, seen>> BY <1>4 DEF Pushes
  <2>11. 1 .. clock \subseteq 1 .. clock' /\ clock + 1 \in 1 .. clock' BY <1>0, <2>10
  <2>12. \A i \in 1 .. N + 1 : s[i].n \in 1 .. clock' BY <2>3, <2>7, <2>8, <2>11
  <2> QED BY <2>5, <2>7, <2>9, <2>10, <2>11, <2>12 DEF NumbersGiven
<1>5. ASSUME NEW c \in Adders, Trims(c) PROVE NumbersGiven'
  <2>1. PICK K, s : K = (IF Len(conv) < Keep THEN Len(conv) ELSE Keep) /\ s = SubSeq(conv, 1, K) /\ conv' = s
    BY <1>5 DEF Trims, SetList
  <2>2. DOMAIN s \subseteq DOMAIN conv /\ \A i \in DOMAIN s : s[i] = conv[i] /\ i \in Nat
    <3>1. PICK N \in Nat : N = Len(conv) /\ DOMAIN conv = 1 .. N BY <1>0
    <3>2. K \in Int /\ K <= N BY <2>1, <3>1, MemoryAssumption DEF MemoryAssumption
    <3>3. s = SubSeq(conv, 1, K) /\ DOMAIN s = 1 .. K BY <1>0, <2>1, <3>2
    <3> QED BY <1>0, <3>1, <3>2, <3>3
  <2>3. Newest(s) /\ \A i \in DOMAIN s : s[i].n \in 1 .. clock BY <2>2 DEF NumbersGiven, Newest
  <2>4. UNCHANGED <<summary, seen, clock>> BY <1>5 DEF Trims
  <2> QED BY <2>1, <2>3, <2>4 DEF NumbersGiven
<1>6. ASSUME NEW c \in Adders, SetsExpiry(c) PROVE NumbersGiven'
  BY <1>1, <1>2, <1>6 DEF SetsExpiry, SetList
<1>7. ASSUME NEW c \in Clearers, ClearsList(c) \/ ClearsSummary(c) PROVE NumbersGiven'
  BY <1>1, <1>2, <1>7 DEF ClearsList, ClearsSummary, SetList
<1>8. ASSUME NEW c \in Summarisers, ReadsMessages(c) PROVE NumbersGiven'
  <2>1. Numbers(conv) \subseteq 1 .. clock BY DEF NumbersGiven, Numbers
  <2>2. \A d \in Summarisers : seen'[d] \subseteq 1 .. clock BY <1>0, <1>2, <1>8, <2>1 DEF ReadsMessages
  <2> QED BY <1>1, <1>8, <2>2 DEF ReadsMessages
<1>9. ASSUME NEW c \in Summarisers, ReadsSummary(c) \/ Asks(c) \/ WritesSummary(c) PROVE NumbersGiven'
  BY <1>1, <1>2, <1>9 DEF ReadsSummary, Asks, WritesSummary
<1>10. CASE ListExpires \/ SummaryExpires \/ MemoryCrash
  BY <1>1, <1>2, <1>10 DEF ListExpires, SummaryExpires, MemoryCrash, SetList
<1> QED BY <1>3, <1>4, <1>5, <1>6, <1>7, <1>8, <1>9, <1>10 DEF MemoryNext

\* So every context fits, and the types of the memory's variables are right.
LEMMA NumbersTold == MemoryTypeInv /\ NumbersGiven => ContextsFit /\ MemoryTypeOK
<1> SUFFICES ASSUME MemoryTypeInv, NumbersGiven PROVE ContextsFit /\ MemoryTypeOK OBVIOUS
<1>0. PICK s : s = Recent OBVIOUS
<1>1. PICK all : all = conv OBVIOUS
<1>2. all \in Seq(Weighed)
  <2>1. [n : Nat, imp : Importances, size : Sizes] \subseteq Weighed
    BY MemoryAssumption DEF MemoryAssumption, Weighed
  <2>2. PICK M : M = [n : Nat, imp : Importances, size : Sizes] OBVIOUS
  <2>3. all \in Seq(M) /\ M \subseteq Weighed BY <1>1, <2>1, <2>2 DEF MemoryTypeInv
  <2> QED BY <2>3
<1>3. Budget \in Nat /\ s \in Seq(Weighed) /\ Newest(s)
  <2>1. Budget \in Nat /\ Keep \in Nat BY MemoryAssumption DEF MemoryAssumption
  <2>2. PICK n : n = IF Len(all) < Keep THEN Len(all) ELSE Keep OBVIOUS
  <2>3. n \in 0 .. Len(all) /\ s = SubSeq(all, 1, n) BY <1>0, <1>1, <1>2, <2>1, <2>2 DEF Recent
  <2>4. s \in Seq(Weighed) /\ Len(s) = n /\ \A i \in 1 .. n : s[i] = all[i]
    <3>1. PICK N \in Nat : N = Len(all) /\ DOMAIN all = 1 .. N /\ \A i \in 1 .. N : all[i] \in Weighed BY <1>2
    <3>2. n \in Nat /\ n <= N BY <2>3, <3>1
    <3>3. \A i \in 1 .. n : all[i] \in Weighed BY <3>1, <3>2
    <3>4. s = [i \in 1 .. n |-> all[i]] BY <2>3, <3>2
    <3> QED BY <3>2, <3>3, <3>4
  <2>5. Newest(all) BY <1>1 DEF NumbersGiven
  <2>6. Newest(s) BY <1>2, <2>3, <2>4, <2>5 DEF Newest
  <2> QED BY <2>1, <2>4, <2>6
<1>4. ContextsFit
  <2>1. PICK context, window : context = SubAgentContext(s) /\ window = ContextWindow(s) OBVIOUS
  <2>2. SizeOf(context) <= Budget /\ \A i, k \in DOMAIN s :
          s[i].n \notin Numbers(context) /\ s[k].n \in Numbers(context) => s[i].imp <= s[k].imp
    BY <1>3, <2>1, SubAgentContextFits
  <2>3. SizeOf(window) <= Budget /\ \A i, k \in DOMAIN s :
          s[i].n < s[k].n /\ s[k].n \in Numbers(window) => s[i].n \in Numbers(window)
    BY <1>3, <2>1, ContextWindowFits
  <2> QED BY <1>0, <2>1, <2>2, <2>3 DEF ContextsFit
<1>5. MemoryTypeOK BY DEF MemoryTypeOK, MemoryTypeInv, NumbersGiven
<1> QED BY <1>4, <1>5

-----------------------------------------------------------------------------
(* The pages                                                               *)

\* The nodes of a tree.
Nodes == [id : NodeIds, depth : Nat, sound : BOOLEAN]

\* Min of a set of naturals is its least member.
LEMMA LeastIs ==
    ASSUME NEW T \in SUBSET Nat, T # {}
    PROVE  Min(T) \in T /\ \A n \in T : Min(T) <= n
BY LeastMember DEF Min

\* A tree is the sequence of its nodes, each at most one level below the node before it.
LEMMA TreeIs ==
    ASSUME NEW t, IsTree(t)
    PROVE  /\ t \in Seq(Nodes) /\ Len(t) \in Nat /\ DOMAIN t = 1 .. Len(t)
           /\ \A i \in 1 .. Len(t) : t[i] \in Nodes /\ t[i].depth \in Nat /\ t[i].id \in NodeIds
           /\ Len(t) # 0 => t[1].depth = 0
           /\ \A i \in 2 .. Len(t) : t[i].depth \in 1 .. t[i - 1].depth + 1
<1>1. t \in Seq(Nodes) BY DEF IsTree, Nodes
<1>2. Len(t) \in Nat /\ DOMAIN t = 1 .. Len(t) /\ \A i \in 1 .. Len(t) : t[i] \in Nodes BY <1>1
<1>3. \A i \in 1 .. Len(t) : t[i].depth \in Nat /\ t[i].id \in NodeIds BY <1>2 DEF Nodes
<1>4. \A i \in 1 .. Len(t) : IF i = 1 THEN t[i].depth = 0 ELSE t[i].depth \in 1 .. t[i - 1].depth + 1
  BY DEF IsTree
<1>5. ASSUME Len(t) # 0 PROVE t[1].depth = 0
  <2>1. 1 \in 1 .. Len(t) BY <1>2, <1>5
  <2> QED BY <1>4, <2>1
<1>6. ASSUME NEW i \in 2 .. Len(t) PROVE t[i].depth \in 1 .. t[i - 1].depth + 1
  <2>1. i \in 1 .. Len(t) /\ i # 1 BY <1>2
  <2> QED BY <1>4, <2>1
<1> QED BY <1>1, <1>2, <1>3, <1>5, <1>6

\* A subtree is all that follows its root until a node is no deeper than the root.
LEMMA SubtreeIs ==
    ASSUME NEW t, IsTree(t), NEW i \in 1 .. Len(t)
    PROVE  /\ \A j : j \in Subtree(t, i) <=>
                 j \in i .. Len(t) /\ \A k \in i + 1 .. j : t[k].depth > t[i].depth
           /\ \A j : j \in Children(t, i) <=> j \in Subtree(t, i) /\ t[j].depth = t[i].depth + 1
           /\ \A j \in Children(t, i) : j \in i + 1 .. Len(t)
           /\ i \in Subtree(t, i)
<1>1. Len(t) \in Nat /\ t[i].depth \in Nat BY TreeIs
<1>2. \A j : j \in Subtree(t, i) <=> j \in i .. Len(t) /\ (j = i \/ \A k \in i + 1 .. j : t[k].depth > t[i].depth)
  BY DEF Subtree
<1>3. \A k \in i + 1 .. i : FALSE BY <1>1
<1>4. \A j : j \in Children(t, i) <=> j \in Subtree(t, i) /\ t[j].depth = t[i].depth + 1 BY DEF Children
<1>5. i \in i .. Len(t) BY <1>1
<1>6. ASSUME NEW j \in Children(t, i) PROVE j \in i + 1 .. Len(t)
  <2>1. j \in i .. Len(t) /\ j # i BY <1>1, <1>2, <1>4
  <2> QED BY <1>1, <2>1
<1> QED BY <1>2, <1>3, <1>4, <1>5, <1>6

\* Whatever is under a node is that node's child or under one of them.
LEMMA ChildAbove ==
    ASSUME NEW t, IsTree(t), NEW i \in 1 .. Len(t), NEW j \in Subtree(t, i), j # i
    PROVE  \E c \in Children(t, i) : j \in Subtree(t, c)
<1>1. PICK N \in Nat : N = Len(t) BY TreeIs
<1>2. j \in i + 1 .. N /\ \A k \in i + 1 .. j : t[k].depth > t[i].depth BY <1>1, SubtreeIs
<1>3. PICK d \in Nat : d = t[i].depth BY TreeIs
<1>4. \A k \in i + 1 .. j : k \in 2 .. N /\ k \in 1 .. N /\ t[k].depth \in Nat
  <2>1. \A k \in i + 1 .. j : k \in 2 .. N /\ k \in 1 .. N BY <1>1, <1>2
  <2> QED BY <1>1, <2>1, TreeIs
<1> DEFINE T == {k \in i + 1 .. j : t[k].depth <= d + 1}
<1>5. i + 1 \in T
  <2>1. i + 1 \in i + 1 .. j /\ i + 1 \in 2 .. N /\ (i + 1) - 1 = i BY <1>1, <1>2
  <2>2. t[i + 1].depth \in 1 .. t[i].depth + 1 BY <1>1, <2>1, TreeIs
  <2> QED BY <1>3, <2>1, <2>2
<1>6. j \in Nat /\ T \in SUBSET (0 .. j) BY <1>1, <1>2
<1>7. PICK c \in T : \A k \in T : k <= c BY <1>5, <1>6, GreatestMember
<1>8. c \in i + 1 .. j /\ t[c].depth \in Nat /\ t[c].depth = d + 1
  <2>1. c \in i + 1 .. j /\ t[c].depth \in Nat /\ t[c].depth > d /\ t[c].depth <= d + 1 BY <1>2, <1>3, <1>4
  <2> QED BY <2>1
<1>9. c \in Children(t, i)
  <2>1. c \in i .. N /\ \A k \in i + 1 .. c : k \in i + 1 .. j BY <1>2, <1>8
  <2>2. c \in Subtree(t, i) BY <1>1, <1>2, <2>1, SubtreeIs
  <2> QED BY <1>3, <1>8, <2>2, SubtreeIs
<1>10. j \in Subtree(t, c)
  <2>1. c \in 1 .. Len(t) /\ j \in c .. Len(t) BY <1>1, <1>2, <1>8
  <2>2. ASSUME NEW k \in c + 1 .. j PROVE t[k].depth > t[c].depth
    <3>1. k \in i + 1 .. j /\ k \notin T BY <1>7, <1>8
    <3>2. t[k].depth \in Nat /\ ~(t[k].depth <= d + 1) BY <1>4, <3>1
    <3> QED BY <1>8, <3>2
  <2> QED BY <2>1, <2>2, SubtreeIs
<1> QED BY <1>9, <1>10

\* A child's subtree is part of its parent's, and ends before the next child.
LEMMA ChildrenApart ==
    ASSUME NEW t, IsTree(t), NEW i \in 1 .. Len(t), NEW c \in Children(t, i)
    PROVE  /\ Subtree(t, c) \subseteq Subtree(t, i)
           /\ \A m \in Subtree(t, c) : \A d \in Children(t, i) : c < d => m < d
<1>1. PICK N \in Nat : N = Len(t) BY TreeIs
<1>2. c \in i + 1 .. N /\ c \in 1 .. N /\ t[c].depth = t[i].depth + 1 /\ c \in Subtree(t, i) BY <1>1, SubtreeIs
<1>3. t[i].depth \in Nat /\ \A k \in 1 .. N : t[k].depth \in Nat BY <1>1, TreeIs
<1>4. ASSUME NEW m \in Subtree(t, c) PROVE m \in Subtree(t, i)
  <2>1. m \in c .. N /\ \A k \in c + 1 .. m : t[k].depth > t[c].depth BY <1>1, <1>2, <1>4, SubtreeIs
  <2>2. ASSUME NEW k \in i + 1 .. m PROVE t[k].depth > t[i].depth
    <3>1. k \in 1 .. N /\ t[k].depth \in Nat BY <1>1, <1>2, <1>3, <2>1
    <3>2. CASE k <= c
      <4>1. k \in i + 1 .. c BY <1>2, <3>1, <3>2
      <4> QED BY <1>1, <1>2, <4>1, SubtreeIs
    <3>3. CASE ~(k <= c)
      <4>1. k \in c + 1 .. m BY <1>2, <3>1, <3>3
      <4> QED BY <1>2, <1>3, <2>1, <3>1, <4>1, SMTT(30)
    <3> QED BY <3>2, <3>3
  <2>3. m \in i .. N BY <1>2, <2>1
  <2> QED BY <1>1, <2>2, <2>3, SubtreeIs
<1>5. ASSUME NEW m \in Subtree(t, c), NEW d \in Children(t, i), c < d PROVE m < d
  <2>1. m \in c .. N /\ \A k \in c + 1 .. m : t[k].depth > t[c].depth BY <1>1, <1>2, SubtreeIs
  <2>2. d \in i + 1 .. N /\ t[d].depth = t[i].depth + 1 BY <1>1, SubtreeIs
  <2>3. d \notin c + 1 .. m BY <1>2, <1>3, <2>1, <2>2
  <2> QED BY <1>2, <1>5, <2>1, <2>2, <2>3
<1> QED BY <1>4, <1>5

\* The root is above all.
LEMMA RootAboveAll ==
    ASSUME NEW t, IsTree(t), Len(t) # 0
    PROVE  1 \in 1 .. Len(t) /\ Subtree(t, 1) = 1 .. Len(t)
<1>1. PICK N \in Nat : N = Len(t) /\ 1 \in 1 .. N BY TreeIs
<1>2. ASSUME NEW j \in 1 .. N PROVE j \in Subtree(t, 1)
  <2>1. \A k \in 1 + 1 .. j : k \in 2 .. N BY <1>1
  <2>2. t[1].depth = 0 BY <1>1, TreeIs
  <2>3. \A k \in 2 .. N : t[k].depth \in 1 .. t[k - 1].depth + 1 BY <1>1, TreeIs
  <2>4. \A k \in 2 .. N : t[k].depth > 0 BY <2>3
  <2> QED BY <1>1, <2>1, <2>2, <2>4, SubtreeIs
<1>3. \A j \in Subtree(t, 1) : j \in 1 .. N BY <1>1, SubtreeIs
<1> QED BY <1>1, <1>2, <1>3

\* Every node but the root is the child of one.
LEMMA ParentIs ==
    ASSUME NEW t, IsTree(t), NEW p \in 2 .. Len(t)
    PROVE  \E i \in 1 .. Len(t) : p \in Children(t, i)
<1>1. PICK N \in Nat : N = Len(t) BY TreeIs
<1>2. \A k \in 1 .. N : t[k].depth \in Nat BY <1>1, TreeIs
<1>3. p \in 1 .. N /\ p \in Nat /\ p - 1 \in Nat /\ p >= 2 BY <1>1
<1> DEFINE T == {k \in 1 .. p - 1 : t[k].depth < t[p].depth}
<1>4. 1 \in T
  <2>1. t[1].depth = 0 /\ t[p].depth \in 1 .. t[p - 1].depth + 1 BY <1>1, <1>3, TreeIs
  <2> QED BY <1>3, <2>1
<1>5. T \in SUBSET (0 .. p - 1) BY <1>3
<1>6. PICK i \in T : \A k \in T : k <= i BY <1>3, <1>4, <1>5, GreatestMember
<1>7. i \in 1 .. p - 1 /\ i \in 1 .. N /\ t[i].depth < t[p].depth BY <1>3
<1>8. ASSUME NEW k \in i + 1 .. p PROVE t[k].depth >= t[p].depth
  <2>1. k \in 1 .. N BY <1>3, <1>7
  <2>2. CASE k = p BY <1>2, <1>3, <2>2
  <2>3. CASE k # p
    <3>1. k \in 1 .. p - 1 /\ k \notin T BY <1>3, <1>6, <1>7, <2>3
    <3>2. ~(t[k].depth < t[p].depth) BY <3>1
    <3> QED BY <1>2, <1>3, <2>1, <3>2
  <2> QED BY <2>2, <2>3
<1>9. t[p].depth = t[i].depth + 1
  <2>1. PICK k : k = i + 1 OBVIOUS
  <2>2. k \in i + 1 .. p /\ k \in 2 .. N /\ k \in 1 .. N /\ k - 1 = i BY <1>3, <1>7, <2>1
  <2>3. t[k].depth \in 1 .. t[i].depth + 1 BY <1>1, <2>2, TreeIs
  <2>4. t[k].depth >= t[p].depth BY <1>8, <2>2
  <2>5. t[i].depth \in Nat /\ t[p].depth \in Nat /\ t[k].depth \in Nat BY <1>2, <1>3, <1>7, <2>2
  <2> QED BY <1>7, <2>3, <2>4, <2>5
<1>10. p \in Subtree(t, i)
  <2>1. \A k \in i + 1 .. p : t[k].depth > t[i].depth
    <3>1. t[i].depth \in Nat /\ t[p].depth \in Nat BY <1>2, <1>3, <1>7
    <3> SUFFICES ASSUME NEW k \in i + 1 .. p PROVE t[k].depth > t[i].depth OBVIOUS
    <3>2. k \in 1 .. N /\ t[k].depth \in Nat BY <1>2, <1>3, <1>7
    <3>3. t[k].depth >= t[p].depth BY <1>8
    <3> QED BY <1>7, <3>1, <3>2, <3>3, SMTT(30)
  <2>2. p \in i .. N BY <1>3, <1>7
  <2> QED BY <1>1, <1>7, <2>1, <2>2, SubtreeIs
<1> QED BY <1>1, <1>7, <1>9, <1>10, SubtreeIs

\* One level of the recursion of Search.
FindAt(t, own, f, i) ==
    LET hits == {j \in Children(t, i) : f[j] # None} IN
    IF own[i] # None THEN own[i]
    ELSE IF hits = {} THEN None ELSE f[Min(hits)]
\* f is the recursion's function, and the part of it from m on.
Finds(t, own, f) == f = [i \in 1 .. Len(t) |-> FindAt(t, own, f, i)]

FindsFrom(t, own, f, m) ==
    f = [i \in 1 .. Len(t) |-> IF i >= m THEN FindAt(t, own, f, i) ELSE None]

\* A level of the recursion looks only at what is found in the children.
LEMMA FindAtLooksDown ==
    ASSUME NEW t, NEW own, NEW f, NEW g, NEW i, NEW K \in SUBSET Nat, Children(t, i) \subseteq K,
           \A j \in K : f[j] = g[j]
    PROVE  FindAt(t, own, f, i) = FindAt(t, own, g, i)
<1>1. PICK A, B : A = {j \in Children(t, i) : f[j] # None} /\ B = {j \in Children(t, i) : g[j] # None} OBVIOUS
<1>2. A = B /\ A \in SUBSET Nat BY <1>1
<1>3. CASE A = {} BY <1>1, <1>2, <1>3 DEF FindAt
<1>4. CASE A # {}
  <2>1. Min(A) \in A BY <1>2, <1>4, LeastIs
  <2>2. f[Min(A)] = g[Min(A)] BY <1>1, <2>1
  <2> QED BY <1>1, <1>2, <1>4, <2>2 DEF FindAt
<1> QED BY <1>3, <1>4

\* The recursion of Search defines a function, from the last node to the first.
LEMMA SearchDefined ==
    ASSUME NEW t, IsTree(t), NEW own
    PROVE  \E f : Finds(t, own, f) /\ Search(t, own) = IF t = <<>> THEN None ELSE f[1]
<1>1. PICK N \in Nat : N = Len(t) BY TreeIs
<1> DEFINE T == {n \in Nat : n <= N /\ ~\E f : FindsFrom(t, own, f, N + 1 - n)}
<1>2. T = {}
  <2> SUFFICES ASSUME T # {} PROVE FALSE OBVIOUS
  <2>1. T \in SUBSET Nat OBVIOUS
  <2>2. PICK n \in T : \A k \in T : n <= k BY <2>1, LeastMember
  <2>3. n # 0
    <3> SUFFICES ASSUME n = 0 PROVE FALSE OBVIOUS
    <3>1. PICK f : f = [i \in 1 .. N |-> None] OBVIOUS
    <3>2. FindsFrom(t, own, f, N + 1 - 0)
      <4>1. \A i \in 1 .. N : ~(i >= N + 1 - 0) OBVIOUS
      <4> QED BY <1>1, <3>1, <4>1 DEF FindsFrom
    <3> QED BY <2>2, <3>2
  <2>4. PICK m : m = N + 1 - n OBVIOUS
  <2>5. /\ m \in 1 .. N /\ n - 1 \in Nat /\ n - 1 <= N /\ n - 1 \notin T /\ N + 1 - (n - 1) = m + 1
        /\ ~\E f : FindsFrom(t, own, f, m)
    BY <2>2, <2>3, <2>4
  <2>6. PICK f : FindsFrom(t, own, f, m + 1) BY <2>5
  <2>7. PICK g : g = [i \in 1 .. N |-> IF i = m THEN FindAt(t, own, f, m) ELSE f[i]] OBVIOUS
  <2>8. ASSUME NEW i \in 1 .. N PROVE g[i] = IF i >= m THEN FindAt(t, own, g, i) ELSE None
    <3>1. CASE i >= m
      <4>1. Children(t, i) \subseteq i + 1 .. N BY <1>1, SubtreeIs
      <4>2. \A j \in i + 1 .. N : f[j] = g[j]
        <5>1. \A j \in i + 1 .. N : j \in 1 .. N /\ j # m BY <2>5, <3>1
        <5> QED BY <2>7, <5>1
      <4>3. FindAt(t, own, f, i) = FindAt(t, own, g, i)
        <5>1. i + 1 .. N \in SUBSET Nat OBVIOUS
        <5> QED BY <4>1, <4>2, <5>1, FindAtLooksDown
      <4>4. CASE i = m BY <2>7, <3>1, <4>3, <4>4
      <4>5. CASE i # m
        <5>1. i >= m + 1 BY <2>5, <3>1, <4>5
        <5>2. f[i] = FindAt(t, own, f, i) BY <1>1, <2>6, <5>1 DEF FindsFrom
        <5>3. g[i] = f[i] BY <2>7, <4>5
        <5> QED BY <3>1, <4>3, <5>2, <5>3
      <4> QED BY <4>4, <4>5
    <3>2. CASE ~(i >= m)
      <4>1. i # m /\ ~(i >= m + 1) BY <2>5, <3>2
      <4>2. f[i] = None BY <1>1, <2>6, <4>1 DEF FindsFrom
      <4> QED BY <2>7, <3>2, <4>1, <4>2
    <3> QED BY <3>1, <3>2
  <2>9. FindsFrom(t, own, g, m) BY <1>1, <2>7, <2>8 DEF FindsFrom
  <2> QED BY <2>5, <2>9
<1>3. \E f : FindsFrom(t, own, f, 1)
  <2>1. N \in Nat /\ N <= N /\ N \notin T /\ N + 1 - N = 1 BY <1>2
  <2> QED BY <2>1
<1>4. PICK f : FindsFrom(t, own, f, 1) BY <1>3
<1>5. Finds(t, own, f)
  <2>1. \A i \in 1 .. N : i >= 1 OBVIOUS
  <2> QED BY <1>1, <1>4, <2>1 DEF Finds, FindsFrom
<1>6. PICK g : g = CHOOSE h : Finds(t, own, h) OBVIOUS
<1>7. Finds(t, own, g) BY <1>5, <1>6
<1>8. Search(t, own) = IF t = <<>> THEN None ELSE g[1] BY <1>6 DEF Search, Finds, FindAt
<1> QED BY <1>7, <1>8

\* The search finds what the first node below that has something has, in preorder.
LEMMA SearchFinds ==
    ASSUME NEW t, IsTree(t), t # <<>>, NEW own \in [1 .. Len(t) -> Nat]
    PROVE  LET has == {j \in 1 .. Len(t) : own[j] # None} IN
           Search(t, own) = IF has = {} THEN None ELSE own[Min(has)]
<1>1. PICK N \in Nat : N = Len(t) BY TreeIs
<1>2. PICK f : Finds(t, own, f) /\ Search(t, own) = f[1] BY SearchDefined
<1> DEFINE Has(i) == {j \in Subtree(t, i) : own[j] # None}
           Fine(i) == f[i] = IF Has(i) = {} THEN None ELSE own[Min(Has(i))]
           T == {i \in 1 .. N : ~Fine(i)}
<1>3. \A i \in 1 .. N : f[i] = FindAt(t, own, f, i) BY <1>1, <1>2 DEF Finds
<1>4. \A i \in 1 .. N : /\ Has(i) \in SUBSET Nat /\ i \in Subtree(t, i)
                        /\ Children(t, i) \subseteq i + 1 .. N /\ Subtree(t, i) \subseteq i .. N
                        /\ \A j \in Has(i) : own[j] # None /\ j \in Subtree(t, i)
  <2> SUFFICES ASSUME NEW i \in 1 .. N
               PROVE  /\ Has(i) \in SUBSET Nat /\ i \in Subtree(t, i)
                      /\ Children(t, i) \subseteq i + 1 .. N /\ Subtree(t, i) \subseteq i .. N
                      /\ \A j \in Has(i) : own[j] # None /\ j \in Subtree(t, i)
    OBVIOUS
  <2>1. /\ i \in Subtree(t, i) /\ Children(t, i) \subseteq i + 1 .. N /\ Subtree(t, i) \subseteq i .. N
    BY <1>1, SubtreeIs
  <2>2. i .. N \subseteq Nat OBVIOUS
  <2> QED BY <2>1, <2>2
<1>5. T = {}
  <2> SUFFICES ASSUME T # {} PROVE FALSE OBVIOUS
  <2>1. T \in SUBSET (0 .. N) OBVIOUS
  <2>2. PICK i \in T : \A k \in T : k <= i BY <2>1, GreatestMember
  <2>3. i \in 1 .. N /\ ~Fine(i) BY <2>2
  <2>4. \A c \in Children(t, i) : c \in 1 .. N /\ Fine(c)
    <3> SUFFICES ASSUME NEW c \in Children(t, i) PROVE c \in 1 .. N /\ Fine(c) OBVIOUS
    <3>1. c \in i + 1 .. N BY <1>4, <2>3
    <3>2. c \in 1 .. N /\ ~(c <= i) BY <2>3, <3>1
    <3>3. c \notin T BY <2>2, <3>2
    <3> QED BY <3>2, <3>3
  <2>5. CASE own[i] # None
    <3>1. f[i] = own[i] BY <1>3, <2>3, <2>5 DEF FindAt
    <3>2. i \in Has(i) /\ \A j \in Has(i) : i <= j BY <1>4, <2>3, <2>5
    <3>3. Min(Has(i)) = i
      <4>1. Has(i) \in SUBSET Nat /\ Has(i) # {} BY <1>4, <2>3, <3>2
      <4>2. PICK h : h = Has(i) OBVIOUS
      <4>3. Min(h) \in h /\ \A n \in h : Min(h) <= n BY <4>1, <4>2, LeastIs
      <4>4. Min(h) <= i /\ i <= Min(h) /\ Min(h) \in Nat BY <3>2, <4>1, <4>2, <4>3
      <4> QED BY <2>3, <4>2, <4>4
    <3>4. Fine(i) BY <3>1, <3>2, <3>3
    <3> QED BY <2>3, <3>4
  <2>6. CASE own[i] = None
    <3> DEFINE hits == {j \in Children(t, i) : f[j] # None}
    <3>1. f[i] = IF hits = {} THEN None ELSE f[Min(hits)] BY <1>3, <2>3, <2>6 DEF FindAt
    <3>2. \A c \in Children(t, i) : f[c] # None <=> Has(c) # {}
      <4> SUFFICES ASSUME NEW c \in Children(t, i) PROVE f[c] # None <=> Has(c) # {} OBVIOUS
      <4>1. c \in 1 .. N /\ Fine(c) BY <2>4
      <4>2. CASE Has(c) = {} BY <4>1, <4>2
      <4>3. CASE Has(c) # {}
        <5>1. PICK h : h = Has(c) OBVIOUS
        <5>2. h \in SUBSET Nat /\ h # {} BY <1>4, <4>1, <4>3, <5>1
        <5>3. Min(h) \in h BY <5>2, LeastIs
        <5>4. own[Min(h)] # None BY <1>4, <4>1, <5>1, <5>3
        <5>5. f[c] = own[Min(h)] BY <4>1, <4>3, <5>1
        <5> QED BY <4>3, <5>4, <5>5
      <4> QED BY <4>2, <4>3
    <3>3. ASSUME NEW j \in Has(i) PROVE \E c \in hits : j \in Has(c)
      <4>1. j \in Subtree(t, i) /\ own[j] # None /\ j # i BY <2>6
      <4>2. PICK c \in Children(t, i) : j \in Subtree(t, c) BY <1>1, <2>3, <4>1, ChildAbove
      <4>3. j \in Has(c) BY <4>1, <4>2
      <4> QED BY <3>2, <4>2, <4>3
    <3>4. CASE hits = {}
      <4>1. Has(i) = {} BY <3>3, <3>4
      <4> QED BY <2>3, <3>1, <3>4, <4>1
    <3>5. CASE hits # {}
      <4>1. hits \in SUBSET Nat BY <1>4, <2>4
      <4>2. PICK c : c = Min(hits) OBVIOUS
      <4>3. c \in hits /\ \A d \in hits : c <= d BY <3>5, <4>1, <4>2, LeastIs
      <4>4. c \in Children(t, i) /\ c \in 1 .. N /\ Fine(c) /\ Has(c) # {} BY <2>4, <3>2, <4>3
      <4>5. PICK h, m : h = Has(c) /\ m = Min(h) OBVIOUS
      <4>6. m \in h /\ \A n \in h : m <= n
        <5>1. h \in SUBSET Nat /\ h # {} BY <1>4, <4>4, <4>5
        <5> QED BY <4>5, <5>1, LeastIs
      <4>7. f[i] = own[m] BY <3>1, <3>5, <4>2, <4>4, <4>5
      <4>8. m \in Has(i)
        <5>1. m \in Subtree(t, c) /\ own[m] # None BY <4>5, <4>6
        <5>2. Subtree(t, c) \subseteq Subtree(t, i) BY <1>1, <2>3, <4>4, ChildrenApart
        <5> QED BY <5>1, <5>2
      <4>9. ASSUME NEW j \in Has(i) PROVE m <= j
        <5>1. PICK d \in hits : j \in Has(d) BY <3>3
        <5>2. d \in Children(t, i) /\ d \in 1 .. N /\ c <= d BY <2>4, <4>3
        <5>3. CASE d = c BY <4>5, <4>6, <5>1, <5>3
        <5>4. CASE c < d
          <6>1. m \in Subtree(t, c) BY <4>5, <4>6
          <6>2. m < d BY <1>1, <2>3, <4>4, <5>2, <5>4, <6>1, ChildrenApart
          <6>3. j \in d .. N BY <1>4, <5>1, <5>2
          <6>4. m \in Nat BY <1>4, <4>4, <6>1
          <6> QED BY <5>2, <6>2, <6>3, <6>4
        <5> QED BY <4>4, <5>2, <5>3, <5>4
      <4>10. Min(Has(i)) = m
        <5>1. PICK g : g = Has(i) OBVIOUS
        <5>2. g \in SUBSET Nat /\ g # {} BY <1>4, <2>3, <4>8, <5>1
        <5>3. Min(g) \in g /\ \A n \in g : Min(g) <= n BY <5>2, LeastIs
        <5>4. Min(g) <= m /\ m <= Min(g) /\ Min(g) \in Nat /\ m \in Nat BY <4>8, <4>9, <5>1, <5>2, <5>3
        <5> QED BY <5>1, <5>4
      <4>11. Fine(i) BY <4>7, <4>8, <4>10
      <4> QED BY <2>3, <4>11
    <3> QED BY <3>4, <3>5
  <2> QED BY <2>5, <2>6
<1>6. Len(t) # 0 BY <1>1, TreeIs
<1>7. 1 \in 1 .. N /\ Subtree(t, 1) = 1 .. N BY <1>1, <1>6, RootAboveAll
<1>8. Fine(1) BY <1>5, <1>7
<1>9. Has(1) = {j \in 1 .. Len(t) : own[j] # None} BY <1>1, <1>7
<1> QED BY <1>2, <1>8, <1>9

\* _find_node finds the first component in preorder that has the id.
LEMMA FoundIs ==
    ASSUME NEW t, IsTree(t), NEW id
    PROVE  Found(t, id) = IF Places(t, id) = {} THEN None ELSE Min(Places(t, id))
<1>1. PICK N \in Nat : N = Len(t) BY TreeIs
<1>2. CASE t = <<>>
  <2>1. Found(t, id) = None BY <1>2, SearchDefined DEF Found
  <2>2. Places(t, id) = {} BY <1>2 DEF Places
  <2> QED BY <2>1, <2>2
<1>3. CASE t # <<>>
  <2>1. PICK own : own = [i \in 1 .. Len(t) |-> IF t[i].id = id THEN i ELSE None] OBVIOUS
  <2>2. own \in [1 .. Len(t) -> Nat] BY <1>1, <2>1 DEF None
  <2>3. PICK has : has = {j \in 1 .. Len(t) : own[j] # None} OBVIOUS
  <2>4. Found(t, id) = IF has = {} THEN None ELSE own[Min(has)] BY <1>3, <2>1, <2>2, <2>3, SearchFinds DEF Found
  <2>5. has = Places(t, id) BY <1>1, <2>1, <2>3 DEF Places, None
  <2>6. ASSUME has # {} PROVE own[Min(has)] = Min(has)
    <3>1. has \in SUBSET Nat BY <1>1, <2>3
    <3>2. Min(has) \in has BY <2>6, <3>1, LeastIs
    <3> QED BY <2>1, <2>3, <3>2
  <2> QED BY <2>4, <2>5, <2>6
<1> QED BY <1>2, <1>3

\* _remove_node finds one below the root whenever there is one.
LEMMA RemovedIs ==
    ASSUME NEW t, IsTree(t), NEW id
    PROVE  IF Places(t, id) \subseteq {1} THEN Removed(t, id) = None
           ELSE Removed(t, id) \in Places(t, id) \ {1}
<1>1. PICK N \in Nat : N = Len(t) BY TreeIs
<1>2. CASE t = <<>>
  <2>1. Removed(t, id) = None BY <1>2, SearchDefined DEF Removed
  <2>2. Places(t, id) = {} BY <1>2 DEF Places
  <2> QED BY <2>1, <2>2
<1>3. CASE t # <<>>
  <2> DEFINE Own(i) == {j \in Children(t, i) : t[j].id = id}
  <2>1. PICK own : own = [i \in 1 .. Len(t) |-> IF Own(i) = {} THEN None ELSE Min(Own(i))] OBVIOUS
  <2>2. \A i \in 1 .. N : Own(i) \subseteq 2 .. N /\ Own(i) \subseteq Places(t, id)
    <3> SUFFICES ASSUME NEW i \in 1 .. N, NEW j \in Own(i) PROVE j \in 2 .. N /\ j \in Places(t, id) OBVIOUS
    <3>1. j \in Children(t, i) /\ t[j].id = id OBVIOUS
    <3>2. j \in i + 1 .. N BY <1>1, <3>1, SubtreeIs
    <3>3. j \in 2 .. N /\ j \in 1 .. N BY <3>2
    <3> QED BY <1>1, <3>1, <3>3 DEF Places
  <2>3. \A i \in 1 .. N : Own(i) # {} => own[i] \in Own(i) /\ own[i] \in 2 .. N /\ own[i] # None
    <3> SUFFICES ASSUME NEW i \in 1 .. N, Own(i) # {}
                 PROVE  own[i] \in Own(i) /\ own[i] \in 2 .. N /\ own[i] # None
      OBVIOUS
    <3>1. PICK h : h = Own(i) OBVIOUS
    <3>2. h \in SUBSET Nat /\ h \subseteq 2 .. N /\ h # {} BY <2>2, <3>1
    <3>3. Min(h) \in h BY <3>2, LeastIs
    <3>4. own[i] = Min(h) BY <1>1, <2>1, <3>1
    <3> HIDE DEF Own
    <3> QED BY <3>1, <3>2, <3>3, <3>4 DEF None
  <2>4. \A i \in 1 .. N : Own(i) = {} => own[i] = None BY <1>1, <2>1
  <2> HIDE DEF Own
  <2>5. own \in [1 .. Len(t) -> Nat]
    <3>1. \A i \in 1 .. N : own[i] \in Nat BY <2>3, <2>4 DEF None
    <3> QED BY <1>1, <2>1, <3>1
  <2>6. PICK has : has = {j \in 1 .. Len(t) : own[j] # None} OBVIOUS
  <2>7. Removed(t, id) = IF has = {} THEN None ELSE own[Min(has)]
    <3>1. Removed(t, id) = Search(t, own) BY <2>1, Zenon DEF Removed, Own
    <3> QED BY <1>3, <2>5, <2>6, <3>1, SearchFinds
  <2>8. CASE Places(t, id) \subseteq {1}
    <3>1. \A i \in 1 .. N : Own(i) = {} BY <2>2, <2>8
    <3>2. has = {} BY <1>1, <2>4, <2>6, <3>1
    <3> QED BY <2>7, <2>8, <3>2
  <2>9. CASE ~(Places(t, id) \subseteq {1})
    <3>1. PICK p \in Places(t, id) : p # 1 BY <2>9
    <3>2. p \in 2 .. Len(t) /\ t[p].id = id BY <1>1, <3>1 DEF Places
    <3>3. PICK i \in 1 .. Len(t) : p \in Children(t, i) BY <3>2, ParentIs
    <3>4. p \in Own(i) BY <3>2, <3>3 DEF Own
    <3>5. own[i] # None BY <1>1, <2>3, <3>3, <3>4
    <3>6. has # {} /\ has \in SUBSET Nat BY <1>1, <2>6, <3>3, <3>5
    <3>7. PICK m : m = Min(has) /\ m \in has BY <3>6, LeastIs
    <3>8. m \in 1 .. N /\ own[m] # None BY <1>1, <2>6, <3>7
    <3>9. own[m] \in Own(m) /\ own[m] \in 2 .. N BY <2>3, <2>4, <3>8
    <3>10. own[m] \in Places(t, id) /\ own[m] # 1 BY <2>2, <3>8, <3>9
    <3>11. Removed(t, id) = own[m] BY <2>7, <3>6, <3>7
    <3> QED BY <2>9, <3>10, <3>11
  <2> QED BY <2>8, <2>9
<1> QED BY <1>2, <1>3

\* A subtree is the positions i .. last, and what comes after it is no deeper than its root.
LEMMA SubtreeEnds ==
    ASSUME NEW t, IsTree(t), NEW i \in 1 .. Len(t), NEW last, last = Max(Subtree(t, i))
    PROVE  /\ last \in i .. Len(t) /\ t[last].depth >= t[i].depth
           /\ last + 1 <= Len(t) => t[last + 1].depth <= t[i].depth
<1>1. PICK N \in Nat : N = Len(t) BY TreeIs
<1>2. i \in Subtree(t, i) /\ Subtree(t, i) \subseteq i .. N BY <1>1, SubtreeIs
<1>3. Subtree(t, i) \in SUBSET (0 .. N) BY <1>1, <1>2
<1>4. PICK m \in Subtree(t, i) : \A n \in Subtree(t, i) : n <= m BY <1>2, <1>3, GreatestMember
<1>5. last \in Subtree(t, i) /\ \A n \in Subtree(t, i) : n <= last BY <1>4 DEF Max
<1>6. last \in i .. N /\ \A k \in i + 1 .. last : t[k].depth > t[i].depth BY <1>1, <1>5, SubtreeIs
<1>7. \A k \in 1 .. N : t[k].depth \in Nat BY <1>1, TreeIs
<1>8. t[last].depth >= t[i].depth
  <2>1. CASE last = i BY <1>1, <1>7, <2>1
  <2>2. CASE last # i
    <3>1. last \in i + 1 .. last BY <1>1, <1>6, <2>2
    <3> QED BY <1>1, <1>6, <1>7, <3>1
  <2> QED BY <2>1, <2>2
<1>9. ASSUME last + 1 <= N PROVE t[last + 1].depth <= t[i].depth
  <2>1. PICK n : n = last + 1 OBVIOUS
  <2>2. n \in i .. N /\ ~(n <= last) /\ n \in 1 .. N BY <1>1, <1>6, <1>9, <2>1
  <2>3. n \notin Subtree(t, i) BY <1>5, <2>2
  <2>4. PICK k \in i + 1 .. n : ~(t[k].depth > t[i].depth) BY <1>1, <2>2, <2>3, SubtreeIs
  <2>5. k = n BY <1>1, <1>6, <2>1, <2>4
  <2> QED BY <1>1, <1>7, <2>1, <2>2, <2>4, <2>5
<1> QED BY <1>1, <1>6, <1>8, <1>9

\* What suffices for a tree of N nodes.
LEMMA TreeOf ==
    ASSUME NEW t, NEW N \in Nat, t \in [1 .. N -> Nodes], N # 0 => t[1].depth = 0,
           \A i \in 2 .. N : t[i].depth \in 1 .. t[i - 1].depth + 1
    PROVE  IsTree(t)
<1>1. t \in Seq(Nodes) /\ Len(t) = N OBVIOUS
<1>2. ASSUME NEW i \in 1 .. N PROVE IF i = 1 THEN t[i].depth = 0 ELSE t[i].depth \in 1 .. t[i - 1].depth + 1
  <2>1. CASE i = 1 BY <2>1
  <2>2. CASE i # 1
    <3>1. i \in 2 .. N BY <2>2
    <3> QED BY <2>2, <3>1
  <2> QED BY <2>1, <2>2
<1> QED BY <1>1, <1>2 DEF IsTree, Nodes

\* What a part of a sequence is.
LEMMA PieceIs ==
    ASSUME NEW S, NEW s \in Seq(S), NEW m \in Nat, NEW n \in Nat, m >= 1, n <= Len(s), m <= n + 1,
           NEW piece, piece = SubSeq(s, m, n)
    PROVE  /\ piece \in Seq(S) /\ Len(piece) = n - m + 1
           /\ \A k \in 1 .. n - m + 1 : piece[k] = s[(m - 1) + k]
<1>1. PICK N \in Nat : N = Len(s) OBVIOUS
<1>2. \A k \in 1 .. n - m + 1 : (m - 1) + k \in 1 .. N /\ (m - 1) + k = (m + k) - 1 BY <1>1
<1>3. \A k \in 1 .. N : s[k] \in S BY <1>1
<1>4. piece = [k \in 1 .. (n - m) + 1 |-> s[(m + k) - 1]] OBVIOUS
<1>5. (n - m) + 1 = n - m + 1 /\ n - m + 1 \in Nat OBVIOUS
<1>6. piece \in [1 .. n - m + 1 -> S] BY <1>2, <1>3, <1>4, <1>5
<1>7. Len(piece) = n - m + 1 /\ piece \in Seq(S) BY <1>5, <1>6
<1> QED BY <1>2, <1>4, <1>5, <1>7

\* What two sequences joined are.
LEMMA JoinedIs ==
    ASSUME NEW S, NEW a \in Seq(S), NEW b \in Seq(S), NEW m \in Nat, NEW n \in Nat,
           m = Len(a), n = Len(b), NEW joined, joined = a \o b
    PROVE  /\ joined \in Seq(S) /\ Len(joined) = m + n
           /\ \A k \in 1 .. m : joined[k] = a[k]
           /\ \A k \in 1 .. n : joined[m + k] = b[k]
<1>1. joined \in Seq(S) /\ Len(joined) = m + n OBVIOUS
<1>2. ASSUME NEW k \in 1 .. m PROVE joined[k] = a[k] BY <1>2
<1>3. ASSUME NEW k \in 1 .. n PROVE joined[m + k] = b[k] BY <1>3
<1> QED BY <1>1, <1>2, <1>3

\* A component added below a node makes a tree.
LEMMA AppendedIsTree ==
    ASSUME NEW t, IsTree(t), NEW i \in 1 .. Len(t), NEW node \in Nodes, node.depth = t[i].depth + 1
    PROVE  IsTree(Appended(t, i, node))
<1>1. PICK N \in Nat : N = Len(t) BY TreeIs
<1>2. PICK last : last = Max(Subtree(t, i)) OBVIOUS
<1>3. /\ last \in i .. N /\ t[last].depth >= t[i].depth /\ last \in 1 .. N
      /\ last + 1 <= N => t[last + 1].depth <= t[i].depth
  <2>1. i \in 1 .. Len(t) OBVIOUS
  <2>2. /\ last \in i .. N /\ t[last].depth >= t[i].depth
        /\ last + 1 <= N => t[last + 1].depth <= t[i].depth
    BY <1>1, <1>2, <2>1, SubtreeEnds
  <2>3. last \in 1 .. N BY <1>1, <2>1, <2>2
  <2> QED BY <2>2, <2>3
<1>4. PICK u : u = Appended(t, i, node) OBVIOUS
<1>5. u = SubSeq(t, 1, last) \o <<node>> \o SubSeq(t, last + 1, N) BY <1>1, <1>2, <1>4 DEF Appended
<1>6. /\ t \in Seq(Nodes) /\ \A k \in 1 .. N : t[k] \in Nodes /\ t[k].depth \in Nat
      /\ 1 \in 1 .. N /\ t[1].depth = 0 /\ \A k \in 2 .. N : t[k].depth \in 1 .. t[k - 1].depth + 1
  BY <1>1, <1>3, TreeIs, SMTT(30)
<1>7. PICK a, b : a = SubSeq(t, 1, last) /\ b = SubSeq(t, last + 1, N) OBVIOUS
<1>8. a \in Seq(Nodes) /\ Len(a) = last /\ \A k \in 1 .. last : a[k] = t[k] BY <1>1, <1>3, <1>6, <1>7
<1>9. b \in Seq(Nodes) /\ Len(b) = N - last /\ \A k \in 1 .. N - last : b[k] = t[last + k]
  <2>1. PICK f : f = last + 1 OBVIOUS
  <2>2. f \in Nat /\ f >= 1 /\ f <= N + 1 /\ f - 1 = last /\ N - f + 1 = N - last BY <1>3, <2>1
  <2>3. b = SubSeq(t, f, N) BY <1>7, <2>1
  <2> QED BY <1>1, <1>6, <2>2, <2>3, PieceIs, SMTT(30)
<1>10. PICK d : d = a \o <<node>> OBVIOUS
<1>11. d \in Seq(Nodes) /\ Len(d) = last + 1 /\ d[last + 1] = node /\ \A k \in 1 .. last : d[k] = t[k]
  BY <1>3, <1>8, <1>10
<1>12. u = d \o b BY <1>5, <1>7, <1>10
<1>13. u \in Seq(Nodes) /\ Len(u) = N + 1 /\ \A k \in 1 .. last + 1 : u[k] = d[k]
  <2>1. PICK m \in Nat, n \in Nat : m = last + 1 /\ n = N - last /\ m + n = N + 1 BY <1>3
  <2>2. u \in Seq(Nodes) /\ Len(u) = m + n /\ \A k \in 1 .. m : u[k] = d[k]
    BY <1>9, <1>11, <1>12, <2>1, JoinedIs
  <2> QED BY <2>1, <2>2
<1>14. \A k \in last + 2 .. N + 1 : u[k] = t[k - 1]
  <2> SUFFICES ASSUME NEW k \in last + 2 .. N + 1 PROVE u[k] = t[k - 1] OBVIOUS
  <2>1. PICK n \in 1 .. N - last : n = k - (last + 1) BY <1>3
  <2>2. u[k] = b[n]
    <3>0. last + 1 \in Nat /\ N - last \in Nat
      <4>1. last \in Nat /\ last <= N BY <1>3
      <4> QED BY <4>1
    <3>1. PICK m \in Nat, l \in Nat : m = last + 1 /\ l = N - last BY <3>0, Zenon
    <3>1a. d \in Seq(Nodes) /\ Len(d) = m /\ b \in Seq(Nodes) /\ Len(b) = l BY <1>9, <1>11, <3>1
    <3>2. \A j \in 1 .. l : u[m + j] = b[j] BY <1>12, <3>1a, JoinedIs
    <3>3. n \in 1 .. l /\ m + n = k BY <1>3, <2>1, <3>1
    <3> QED BY <3>2, <3>3
  <2>3. last + n = k - 1 BY <1>3, <2>1
  <2> QED BY <1>9, <2>2, <2>3
<1>15. u[last + 1] = node /\ \A k \in 1 .. last : u[k] = t[k] BY <1>3, <1>11, <1>13
<1>16. u[1].depth = 0 BY <1>3, <1>6, <1>15
<1>17. ASSUME NEW k \in 2 .. N + 1 PROVE u[k].depth \in 1 .. u[k - 1].depth + 1
  <2>1. CASE k <= last
    <3>1. k \in 1 .. last /\ k - 1 \in 1 .. last /\ k \in 2 .. N BY <1>3, <2>1
    <3> QED BY <1>6, <1>15, <3>1
  <2>2. CASE k = last + 1
    <3>1. last \in 1 .. last /\ k - 1 = last BY <1>3, <2>2
    <3>2. u[k] = node /\ u[k - 1] = t[last] BY <1>15, <2>2, <3>1
    <3>3. t[last].depth \in Nat /\ t[i].depth \in Nat BY <1>1, <1>3, <1>6
    <3>4. PICK x \in Nat, y \in Nat : x = t[last].depth /\ y = t[i].depth BY <3>3
    <3>5. node.depth = y + 1 /\ x >= y BY <1>3, <3>4
    <3>6. y + 1 \in 1 .. x + 1 BY <3>5
    <3> QED BY <3>2, <3>4, <3>5, <3>6
  <2>3. CASE k = last + 2
    <3>1. PICK m : m = last + 1 OBVIOUS
    <3>2. k \in last + 2 .. N + 1 /\ k - 1 = m /\ m \in 2 .. N /\ m \in 1 .. N BY <1>3, <2>3, <3>1
    <3>3. u[k] = t[m] /\ u[k - 1] = node BY <1>14, <1>15, <3>1, <3>2
    <3>4. t[m].depth \in 1 .. t[m - 1].depth + 1 /\ t[m].depth <= t[i].depth /\ t[m].depth \in Nat
      BY <1>3, <1>6, <3>1, <3>2
    <3>5. t[i].depth \in Nat BY <1>1, <1>6
    <3> QED BY <3>3, <3>4, <3>5
  <2>4. CASE k > last + 2
    <3>1. k \in last + 2 .. N + 1 /\ k - 1 \in last + 2 .. N + 1 /\ k - 1 \in 2 .. N BY <1>3, <2>4
    <3>2. u[k] = t[k - 1] /\ u[k - 1] = t[(k - 1) - 1] BY <1>14, <3>1
    <3> QED BY <1>6, <3>1, <3>2
  <2> QED BY <1>3, <2>1, <2>2, <2>3, <2>4
<1>18. u \in [1 .. N + 1 -> Nodes] BY <1>13
<1>19. IsTree(u) BY <1>16, <1>17, <1>18, TreeOf
<1> QED BY <1>4, <1>19

\* A component removed, with all that is below it, leaves a tree.
LEMMA WithoutIsTree ==
    ASSUME NEW t, IsTree(t), NEW i \in 2 .. Len(t)
    PROVE  IsTree(Without(t, i))
<1>1. PICK N \in Nat : N = Len(t) BY TreeIs
<1>2. PICK last : last = Max(Subtree(t, i)) OBVIOUS
<1>3. /\ i \in 1 .. N /\ i \in 2 .. N /\ last \in i .. N
      /\ last + 1 <= N => t[last + 1].depth <= t[i].depth
  <2>1. i \in 1 .. Len(t) BY <1>1
  <2> QED BY <1>1, <1>2, <2>1, SubtreeEnds
<1>4. PICK u : u = Without(t, i) OBVIOUS
<1>5. PICK a, b : a = SubSeq(t, 1, i - 1) /\ b = SubSeq(t, last + 1, N) OBVIOUS
<1>6. u = a \o b BY <1>1, <1>2, <1>4, <1>5 DEF Without
<1>7. /\ t \in Seq(Nodes) /\ \A k \in 1 .. N : t[k] \in Nodes /\ t[k].depth \in Nat
      /\ t[1].depth = 0 /\ \A k \in 2 .. N : t[k].depth \in 1 .. t[k - 1].depth + 1
  <2>1. t \in Seq(Nodes) /\ \A k \in 1 .. N : t[k] \in Nodes /\ t[k].depth \in Nat BY <1>1, TreeIs
  <2>2. \A k \in 2 .. N : t[k].depth \in 1 .. t[k - 1].depth + 1 BY <1>1, TreeIs
  <2>3. Len(t) # 0 BY <1>1, <1>3
  <2>4. t[1].depth = 0 BY <2>3, TreeIs
  <2> QED BY <2>1, <2>2, <2>4
<1>8. PICK m : m = i - 1 /\ m \in Nat /\ m >= 1 BY <1>3
<1>9. a \in Seq(Nodes) /\ Len(a) = m /\ \A k \in 1 .. m : a[k] = t[k] BY <1>1, <1>3, <1>5, <1>7, <1>8
<1>10. b \in Seq(Nodes) /\ Len(b) = N - last /\ \A k \in 1 .. N - last : b[k] = t[last + k] BY <1>1, <1>3, <1>5, <1>7
<1>11. PICK L \in Nat : L = m + (N - last) BY <1>3, <1>8
<1>12. u \in Seq(Nodes) /\ Len(u) = L /\ \A k \in 1 .. m : u[k] = t[k]
  <2>1. PICK n \in Nat : n = N - last /\ L = m + n BY <1>3, <1>11
  <2>2. a \in Seq(Nodes) /\ b \in Seq(Nodes) /\ m \in Nat /\ m = Len(a) /\ n = Len(b) BY <1>8, <1>9, <1>10, <2>1
  <2>3. u \in Seq(Nodes) /\ Len(u) = m + n /\ \A k \in 1 .. m : u[k] = a[k] BY <1>6, <2>1, <2>2, JoinedIs
  <2> QED BY <1>9, <2>1, <2>3
<1>13. \A k \in m + 1 .. L : last + (k - m) \in 1 .. N /\ u[k] = t[last + (k - m)]
  <2> SUFFICES ASSUME NEW k \in m + 1 .. L PROVE last + (k - m) \in 1 .. N /\ u[k] = t[last + (k - m)] OBVIOUS
  <2>1. PICK n \in 1 .. N - last : n = k - m BY <1>3, <1>8, <1>11
  <2>2. u[k] = b[n] BY <1>3, <1>6, <1>8, <1>9, <1>10, <2>1
  <2> QED BY <1>3, <1>10, <2>1, <2>2
<1>14. u[1].depth = 0 BY <1>7, <1>8, <1>12
<1>15. ASSUME NEW k \in 2 .. L PROVE u[k].depth \in 1 .. u[k - 1].depth + 1
  <2>1. CASE k <= m
    <3>1. k \in 1 .. m /\ k - 1 \in 1 .. m /\ k \in 2 .. N BY <1>3, <1>8, <2>1
    <3> QED BY <1>7, <1>12, <3>1
  <2>2. CASE k = m + 1
    <3>1. PICK n : n = last + 1 OBVIOUS
    <3>2. k \in m + 1 .. L /\ k - m = 1 /\ k - 1 = m /\ m \in 1 .. m BY <1>8, <2>2
    <3>3. u[k] = t[n] /\ n \in 1 .. N /\ n \in 2 .. N /\ u[k - 1] = t[m]
      <4>1. last + (k - m) = n BY <3>1, <3>2
      <4>2. u[k] = t[n] /\ n \in 1 .. N BY <1>13, <3>2, <4>1
      <4>3. n \in 2 .. N BY <1>3, <3>1, <4>2
      <4>4. u[k - 1] = t[m] BY <1>12, <3>2
      <4> QED BY <4>2, <4>3, <4>4
    <3>4. t[n].depth \in 1 .. t[n - 1].depth + 1 /\ t[n].depth \in Nat /\ t[n].depth <= t[i].depth
      <4>1. t[n].depth \in 1 .. t[n - 1].depth + 1 BY <1>7, <3>3
      <4>2. t[n].depth \in Nat BY <1>7, <3>3
      <4>3. n \in Nat /\ n <= N BY <3>3
      <4>4. t[n].depth <= t[i].depth BY <1>3, <3>1, <4>3
      <4> QED BY <4>1, <4>2, <4>4
    <3>5. t[i].depth \in 1 .. t[m].depth + 1 BY <1>3, <1>7, <1>8
    <3>6. t[m].depth \in Nat /\ t[i].depth \in Nat
      <4>1. m \in 1 .. N BY <1>3, <1>8
      <4> QED BY <1>3, <1>7, <4>1
    <3>7. t[n].depth >= 1 /\ t[n].depth <= t[m].depth + 1 BY <3>4, <3>5, <3>6
    <3> QED BY <3>3, <3>4, <3>6, <3>7
  <2>3. CASE k > m + 1
    <3>1. PICK n : n = last + (k - m) OBVIOUS
    <3>2. /\ k \in m + 1 .. L /\ k - 1 \in m + 1 .. L /\ n - 1 = last + ((k - 1) - m) /\ n \in 2 .. N
      <4>1. k \in m + 1 .. L /\ k - 1 \in m + 1 .. L BY <1>8, <2>3
      <4>2. n \in 1 .. N BY <1>13, <3>1, <4>1
      <4>3. n - 1 = last + ((k - 1) - m) BY <1>3, <1>8, <3>1
      <4>4. n \in 2 .. N BY <1>3, <1>8, <2>3, <3>1, <4>2
      <4> QED BY <4>1, <4>3, <4>4
    <3>3. u[k] = t[n] /\ u[k - 1] = t[n - 1] BY <1>13, <3>1, <3>2
    <3> QED BY <1>7, <3>2, <3>3
  <2> QED BY <1>8, <2>1, <2>2, <2>3
<1>16. u \in [1 .. L -> Nodes] BY <1>12
<1>17. IsTree(u) BY <1>14, <1>15, <1>16, TreeOf
<1> QED BY <1>4, <1>17

\* A component changed in place leaves a tree.
LEMMA SoundnessChanges ==
    ASSUME NEW t, IsTree(t), NEW i \in 1 .. Len(t), NEW sound \in BOOLEAN
    PROVE  IsTree([t EXCEPT ![i].sound = sound])
<1>1. PICK N \in Nat : N = Len(t) BY TreeIs
<1>2. PICK u : u = [t EXCEPT ![i].sound = sound] OBVIOUS
<1>3. /\ t \in [1 .. N -> Nodes] /\ \A k \in 1 .. N : t[k] \in Nodes
      /\ N # 0 => t[1].depth = 0 /\ 1 \in 1 .. N
      /\ \A k \in 2 .. N : t[k].depth \in 1 .. t[k - 1].depth + 1
  BY <1>1, TreeIs
<1>4. PICK m : m = [t[i] EXCEPT !.sound = sound] OBVIOUS
<1>5. m \in Nodes /\ m.depth = t[i].depth BY <1>1, <1>3, <1>4 DEF Nodes
<1>6. u = [t EXCEPT ![i] = m] BY <1>2, <1>4
<1>7. u \in [1 .. N -> Nodes] /\ \A k \in 1 .. N : u[k].depth = t[k].depth BY <1>1, <1>3, <1>5, <1>6
<1>8. \A k \in 2 .. N : k \in 1 .. N /\ k - 1 \in 1 .. N OBVIOUS
<1>9. IsTree(u) BY <1>3, <1>7, <1>8, TreeOf
<1> QED BY <1>2, <1>9

-----------------------------------------------------------------------------
\* The stored page and the copies are trees, and a call that changes one has it.
PageInv ==
    /\ IsTree(page)
    /\ pageAt \in [PageCalls -> {"idle", "changing", "done", "refused"}]
    /\ pageCopy = [c \in PageCalls |-> pageCopy[c]] /\ \A c \in PageCalls : IsTree(pageCopy[c])

\* No page is a tree without nodes.
LEMMA NoTree == IsTree(<<>>)
BY DEF IsTree

\* At the start the page is a tree and nobody has a copy.
LEMMA PageStart == PageInit => PageInv
BY NoTree, PageAssumption DEF PageInit, PageInv, PageAssumption

\* A request that saves a tree keeps all of them trees.
LEMMA SavesKeeps ==
    ASSUME PageInv, NEW c \in PageCalls, NEW t, IsTree(t), Saves(c, t)
    PROVE  PageInv'
<1>1. PICK e : e = <<>> /\ IsTree(e) BY NoTree
<1> QED BY <1>1 DEF PageInv, Saves

\* A request that is refused changes no tree but its copy.
LEMMA RefusesKeeps ==
    ASSUME PageInv, NEW c \in PageCalls, RefusesPage(c)
    PROVE  PageInv'
<1>1. PICK e : e = <<>> /\ IsTree(e) BY NoTree
<1> QED BY <1>1 DEF PageInv, RefusesPage

\* Every step keeps them trees.
LEMMA PageStep == PageInv /\ [PageNext]_pageVars => PageInv'
<1> SUFFICES ASSUME PageInv, [PageNext]_pageVars PROVE PageInv' OBVIOUS
<1>1. CASE UNCHANGED pageVars BY <1>1 DEF pageVars, PageInv
<1>2. ASSUME NEW c \in PageCalls, ReadsPage(c) PROVE PageInv' BY <1>2 DEF ReadsPage, PageInv
<1>3. ASSUME NEW c \in PageCalls, ValidatePage(c) PROVE PageInv' BY <1>3 DEF ValidatePage, PageInv
<1>4. ASSUME NEW c \in PageCalls, AddComponent(c) PROVE PageInv'
  <2>1. PICK t, id, up : t = pageCopy[c] /\ id = PageCallOf[c].id /\ up = Found(t, PageCallOf[c].parent) OBVIOUS
  <2>2. IsTree(t) /\ id \in NodeIds BY <2>1, PageAssumption DEF PageInv, PageAssumption
  <2>3. CASE Saves(c, <<Node(id, 0, TRUE)>>)
    <3>1. PICK node : node = Node(id, 0, TRUE) OBVIOUS
    <3>2. node \in Nodes /\ node.depth = 0 BY <2>2, <3>1 DEF Node, Nodes
    <3>3. PICK u : u = <<node>> OBVIOUS
    <3>4. u \in [1 .. 1 -> Nodes] /\ u[1] = node BY <3>2, <3>3
    <3>5. \A i \in 2 .. 1 : FALSE OBVIOUS
    <3>6. IsTree(u) BY <3>2, <3>4, <3>5, TreeOf
    <3> QED BY <2>3, <3>1, <3>3, <3>6, SavesKeeps
  <2>4. CASE RefusesPage(c) BY <2>4, RefusesKeeps
  <2>5. CASE up # None /\ Saves(c, Appended(t, up, Node(id, t[up].depth + 1, TRUE)))
    <3>1. up \in 1 .. Len(t)
      <4>1. PICK p : p = Places(t, PageCallOf[c].parent) OBVIOUS
      <4>2. p # {} /\ up = Min(p) BY <2>1, <2>2, <2>5, <4>1, FoundIs
      <4>3. p \in SUBSET Nat /\ p \subseteq 1 .. Len(t) BY <2>2, <4>1, TreeIs DEF Places
      <4> QED BY <4>2, <4>3, LeastIs
    <3>2. PICK node : node = Node(id, t[up].depth + 1, TRUE) OBVIOUS
    <3>3. t[up].depth \in Nat BY <2>2, <3>1, TreeIs
    <3>4. node \in Nodes /\ node.depth = t[up].depth + 1 BY <2>2, <3>2, <3>3 DEF Node, Nodes
    <3>5. IsTree(Appended(t, up, node)) BY <2>2, <3>1, <3>4, AppendedIsTree
    <3> QED BY <2>5, <3>2, <3>5, SavesKeeps
  <2> QED BY <1>4, <2>1, <2>3, <2>4, <2>5 DEF AddComponent
<1>5. ASSUME NEW c \in PageCalls, UpdateComponent(c) PROVE PageInv'
  <2>1. PICK t, i : t = pageCopy[c] /\ i = Found(t, PageCallOf[c].id) OBVIOUS
  <2>2. IsTree(t) BY <2>1 DEF PageInv
  <2>3. CASE RefusesPage(c) BY <2>3, RefusesKeeps
  <2>4. ASSUME i # None, NEW sound \in BOOLEAN, Saves(c, [t EXCEPT ![i].sound = sound]) PROVE PageInv'
    <3>1. i \in 1 .. Len(t)
      <4>1. PICK p : p = Places(t, PageCallOf[c].id) OBVIOUS
      <4>2. p # {} /\ i = Min(p) BY <2>1, <2>2, <2>4, <4>1, FoundIs
      <4>3. p \in SUBSET Nat /\ p \subseteq 1 .. Len(t) BY <2>2, <4>1, TreeIs DEF Places
      <4> QED BY <4>2, <4>3, LeastIs
    <3>2. IsTree([t EXCEPT ![i].sound = sound]) BY <2>2, <3>1, SoundnessChanges
    <3> QED BY <2>4, <3>2, SavesKeeps
  <2> QED BY <1>5, <2>1, <2>3, <2>4 DEF UpdateComponent
<1>6. ASSUME NEW c \in PageCalls, DeleteComponent(c) PROVE PageInv'
  <2>1. PICK t, id, i : t = pageCopy[c] /\ id = PageCallOf[c].id /\ i = Removed(t, id) OBVIOUS
  <2>2. IsTree(t) BY <2>1 DEF PageInv
  <2>3. CASE RefusesPage(c) BY <2>3, RefusesKeeps
  <2>4. CASE i # None /\ Saves(c, Without(t, i))
    <3>1. i \in 2 .. Len(t)
      <4>1. i \in Places(t, id) /\ i # 1 BY <2>1, <2>2, <2>4, RemovedIs
      <4> QED BY <2>2, <4>1, TreeIs DEF Places
    <3>2. IsTree(Without(t, i)) BY <2>2, <3>1, WithoutIsTree
    <3> QED BY <2>4, <3>2, SavesKeeps
  <2> QED BY <1>6, <2>1, <2>3, <2>4 DEF DeleteComponent
<1> QED BY <1>1, <1>2, <1>3, <1>4, <1>5, <1>6 DEF PageNext

\* So the searches reach every component of a stored page.
LEMMA PageTold == PageInv => PageTypeOK /\ SearchesReachAll
<1> SUFFICES ASSUME PageInv PROVE PageTypeOK /\ SearchesReachAll OBVIOUS
<1>1. PICK t : t = page /\ IsTree(t) BY DEF PageInv
<1>2. \A id \in NodeIds :
         /\ Found(t, id) = IF Places(t, id) = {} THEN None ELSE Min(Places(t, id))
         /\ IF Places(t, id) \subseteq {1} THEN Removed(t, id) = None
            ELSE Removed(t, id) \in Places(t, id) \ {1}
  BY <1>1, FoundIs, RemovedIs
<1> QED BY <1>1, <1>2 DEF PageInv, PageTypeOK, SearchesReachAll
-----------------------------------------------------------------------------
(* The types of all of them, and the run's specification: what its steps   *)
(* do to one service is a step of that service or nothing.                 *)

\* An answer's pieces and their number, within the bounds.
StreamTypes ==
    /\ answerNo \in 1 .. MaxAnswers /\ chunkNo \in 0 .. MaxChunksSent /\ crowded \in BOOLEAN
    /\ \A i \in ToolIndexes :
         gathered[i].named \in BOOLEAN /\ gathered[i].args \in Seq(Nat) /\ Len(gathered[i].args) <= chunkNo

\* At the start of an answer nothing is gathered.
LEMMA GatheredNothing ==
    ASSUME NEW g, g = NothingGathered, NEW i \in ToolIndexes
    PROVE  g[i].named \in BOOLEAN /\ g[i].args \in Seq(Nat) /\ Len(g[i].args) = 0
<1>1. g[i] = [named |-> FALSE, args |-> <<>>] BY DEF NothingGathered
<1> QED BY <1>1

\* A chunk adds one piece at most to what is gathered of a call.
LEMMA SendTyped ==
    ASSUME StreamTypes, NEW chunk, Send(chunk), NEW n \in Nat, chunkNo + 1 <= n \/ DOMAIN chunk.opens = {},
           chunkNo <= n, \A i \in DOMAIN chunk.opens : chunk.opens[i] \in BOOLEAN, NEW i \in ToolIndexes
    PROVE  gathered'[i].named \in BOOLEAN /\ gathered'[i].args \in Seq(Nat) /\ Len(gathered'[i].args) <= n
<1>1. PICK named, args : named = gathered[i].named /\ args = gathered[i].args OBVIOUS
<1>2. named \in BOOLEAN /\ args \in Seq(Nat) /\ Len(args) <= chunkNo /\ chunkNo \in Nat BY <1>1 DEF StreamTypes
<1>3. CASE i \in DOMAIN chunk.opens
  <2>1. PICK opens \in BOOLEAN : opens = chunk.opens[i] BY <1>3
  <2>2. gathered'[i] = [named |-> named \/ opens, args |-> Append(args, chunkNo + 1)]
    BY <1>1, <1>3, <2>1 DEF Send, Gather
  <2>3. (named \/ opens) \in BOOLEAN BY <1>2, <2>1
  <2>4. chunkNo + 1 \in Nat /\ chunkNo + 1 <= n BY <1>2, <1>3
  <2>5. Append(args, chunkNo + 1) \in Seq(Nat) /\ Len(Append(args, chunkNo + 1)) = Len(args) + 1 BY <1>2, <2>4
  <2>6. Len(args) \in Nat BY <1>2
  <2>7. Len(args) + 1 <= n BY <1>2, <2>4, <2>6
  <2> QED BY <2>2, <2>3, <2>5, <2>7
<1>4. CASE i \notin DOMAIN chunk.opens
  <2>1. gathered'[i] = gathered[i] BY <1>4 DEF Send
  <2>2. Len(args) \in Nat BY <1>2
  <2>3. Len(args) <= n BY <1>2, <2>2
  <2> QED BY <1>1, <1>2, <2>1, <2>3
<1> QED BY <1>3, <1>4

\* Every step of the converter keeps the types.
LEMMA StreamTypesStep == StreamTypes /\ [StreamNext]_streamVars => StreamTypes'
<1> SUFFICES ASSUME StreamTypes, [StreamNext]_streamVars PROVE StreamTypes' OBVIOUS
<1>0. MaxAnswers \in Nat /\ MaxChunksSent \in Nat /\ chunkNo \in Nat /\ chunkNo <= MaxChunksSent
  BY StreamAssumption DEF StreamAssumption, StreamTypes
<1>1. CASE UNCHANGED streamVars BY <1>1 DEF streamVars, StreamTypes
<1>2. ASSUME NEW text \in BOOLEAN, NEW reason, NEW indexes, ProviderSends(text, reason, indexes)
      PROVE  StreamTypes'
  <2>1. PICK opens : opens = [i \in indexes |-> given[i] = <<>>] OBVIOUS
  <2>2. PICK chunk : chunk = FromProvider([text |-> text, reason |-> reason, opens |-> opens, usage |-> reason # NoReason])
    OBVIOUS
  <2>3. chunk.opens = opens BY <2>2 DEF FromProvider
  <2>4. \A i \in DOMAIN opens : opens[i] \in BOOLEAN
    <3> SUFFICES ASSUME NEW i \in DOMAIN opens PROVE opens[i] \in BOOLEAN OBVIOUS
    <3>1. i \in indexes /\ opens[i] = (given[i] = <<>>) BY <2>1
    <3>2. (given[i] = <<>>) \in BOOLEAN OBVIOUS
    <3> QED BY <3>1, <3>2
  <2>5. /\ Send(chunk) /\ chunkNo < MaxChunksSent /\ chunkNo' = chunkNo + 1 /\ answerNo' = answerNo
        /\ crowded' = (reason # NoReason /\ indexes # {})
    BY <1>2, <2>1, <2>2 DEF ProviderSends
  <2>6. (reason # NoReason /\ indexes # {}) \in BOOLEAN OBVIOUS
  <2>7. PICK n \in Nat : n = chunkNo + 1 BY <1>0
  <2>8. chunkNo + 1 <= n /\ chunkNo <= n BY <1>0, <2>7
  <2>9. ASSUME NEW i \in ToolIndexes
        PROVE  gathered'[i].named \in BOOLEAN /\ gathered'[i].args \in Seq(Nat) /\ Len(gathered'[i].args) <= n
    BY <2>3, <2>4, <2>5, <2>8, SendTyped
  <2>10. chunkNo' \in 0 .. MaxChunksSent BY <1>0, <2>5
  <2>11. answerNo' \in 1 .. MaxAnswers /\ crowded' \in BOOLEAN BY <2>5, <2>6 DEF StreamTypes
  <2>12. chunkNo' = n BY <2>5, <2>7
  <2> QED BY <2>9, <2>10, <2>11, <2>12 DEF StreamTypes
<1>3. ASSUME NEW reason, BreaksOff(reason) PROVE StreamTypes'
  <2>1. PICK chunk : chunk = Cut(reason) OBVIOUS
  <2>2. DOMAIN chunk.opens = {} BY <2>1 DEF Cut
  <2>3. Send(chunk) /\ UNCHANGED <<answerNo, chunkNo, crowded>> BY <1>3, <2>1 DEF BreaksOff
  <2>4. chunkNo <= chunkNo BY <1>0
  <2>5. \A i \in DOMAIN chunk.opens : chunk.opens[i] \in BOOLEAN BY <2>2
  <2>6. ASSUME NEW i \in ToolIndexes
        PROVE  gathered'[i].named \in BOOLEAN /\ gathered'[i].args \in Seq(Nat) /\ Len(gathered'[i].args) <= chunkNo
    BY <1>0, <2>2, <2>3, <2>4, <2>5, SendTyped
  <2> QED BY <2>3, <2>6 DEF StreamTypes
<1>4. CASE NextAnswer
  <2>1. answerNo < MaxAnswers /\ answerNo' = answerNo + 1 /\ chunkNo' = 0 /\ crowded' = FALSE /\ gathered' = NothingGathered
    BY <1>4 DEF NextAnswer
  <2>2. answerNo' \in 1 .. MaxAnswers /\ chunkNo' \in 0 .. MaxChunksSent BY <1>0, <2>1 DEF StreamTypes
  <2>3. ASSUME NEW i \in ToolIndexes
        PROVE  /\ gathered'[i].named \in BOOLEAN /\ gathered'[i].args \in Seq(Nat)
               /\ Len(gathered'[i].args) <= chunkNo'
    BY <2>1, GatheredNothing
  <2> QED BY <2>1, <2>2, <2>3 DEF StreamTypes
<1> QED BY <1>1, <1>2, <1>3, <1>4 DEF StreamNext

\* What the invariants of the streamed answers say of their types.
LEMMA StreamTyped == StreamInv /\ StreamTypes => StreamTypeOK
<1> SUFFICES ASSUME StreamInv, StreamTypes PROVE StreamTypeOK OBVIOUS
<1>1. PICK s : s = told OBVIOUS
<1>2. s \in Seq(Said) BY <1>1 DEF StreamInv
<1>3. ToSet(s) \subseteq Said BY <1>2 DEF ToSet
<1>4. ToSet(told) \subseteq Said BY <1>1, <1>3
<1> QED BY <1>4 DEF StreamInv, StreamTypes, StreamTypeOK, Said

\* Only plugins are joined on.
TogetherTyped == together \subseteq Publishes
LEMMA JoinedPlugins == TogetherTyped /\ [MarketNext]_marketVars => TogetherTyped'
<1> SUFFICES ASSUME together \subseteq Publishes, [MarketNext]_marketVars PROVE together' \subseteq Publishes
  BY DEF TogetherTyped
<1>1. ASSUME NEW c \in Installs \cup Uninstalls, Joins(c) PROVE together' \subseteq Publishes
  <2>1. OfPlugin[c] \in Publishes BY MarketAssumption DEF MarketAssumption
  <2> QED BY <1>1, <2>1 DEF Joins
<1>2. ASSUME together' = together PROVE together' \subseteq Publishes BY <1>2
<1> QED BY <1>1, <1>2
     DEF MarketNext, marketVars, PublishChecks, PublishInserts, StatusChanges, InstallReads, InstallChecks,
         InstallCommits, UninstallFinds, UninstallReads, UninstallCommits

\* A behaviour of the run is one of each service.
LEMMA SpecOfParts ==
    Spec => /\ RuntimeInit /\ [][RuntimeNext]_runtimeVars
            /\ WorkspaceInit /\ [][WorkspaceNext]_workspaceVars
            /\ MarketInit /\ [][MarketNext]_marketVars
            /\ StreamInit /\ [][StreamNext]_streamVars
            /\ MemoryInit /\ [][MemoryNext]_memoryVars
            /\ PageInit /\ [][PageNext]_pageVars
<1>1. Init => RuntimeInit /\ WorkspaceInit /\ MarketInit /\ StreamInit /\ MemoryInit /\ PageInit BY DEF Init
<1>2. [Next]_<<runtimeVars, workspaceVars, memoryVars, marketVars, pageVars, streamVars, focus>> =>
         /\ [RuntimeNext]_runtimeVars /\ [WorkspaceNext]_workspaceVars /\ [MarketNext]_marketVars
         /\ [StreamNext]_streamVars /\ [MemoryNext]_memoryVars /\ [PageNext]_pageVars
  BY DEF Next
<1> QED BY <1>1, <1>2, PTL DEF Spec

\* Contexts fit their budget, the most important or the oldest messages first (memory.py:135 to 184),
\* whatever was added, trimmed, cleared, summarised or lost.
THEOREM ContextsCorrect == MemorySpec => []ContextsFit
<1>1. MemoryInv => MemoryTypeInv BY DEF MemoryInv
<1>2. MemoryTypeInv /\ NumbersGiven => ContextsFit BY NumbersTold
<1> QED BY <1>1, <1>2, MemoryInvariant, NumbersStart, NumbersStep, PTL DEF MemorySpec

\* The recursive searches of a page reach every component, whatever requests wrote the page
\* (agent_design_service.py:205 to 254).
THEOREM SearchesCorrect == PageSpec => []SearchesReachAll
<1>1. PageInv => SearchesReachAll BY PageTold
<1> QED BY <1>1, PageStart, PageStep, PTL DEF PageSpec

\* The same for the two together as the run checks them: what the walks over a sequence find
\* (agent_design_service.py:205 to 254, memory.py:135 to 184).
THEOREM WalksCorrect == Spec => []WalksFit
<1>1. Spec => MemorySpec /\ PageSpec BY SpecOfParts DEF MemorySpec, PageSpec
<1> QED BY <1>1, ContextsCorrect, SearchesCorrect, PTL DEF WalksFit

\* The variables of every service keep their types (agent_service.py, conversation_service.py,
\* memory.py, the marketplace, agent_design_service.py, protocol_converter.py).
THEOREM ServicesTyped == Spec => []TypesOK
<1>1. Spec => []RuntimeInv /\ []WorkspaceInv BY SpecOfParts, RuntimeStart, RuntimeStep, WorkspaceInvariant, PTL DEF WorkspaceSpec
<1>2. Spec => []MarketInv /\ []TogetherTyped
  <2>1. MarketInit => TogetherTyped BY DEF MarketInit, TogetherTyped
  <2> QED BY <2>1, SpecOfParts, MarketStart, MarketStep, JoinedPlugins, PTL
<1>3. Spec => []StreamInv /\ []StreamTypes
  <2>1. StreamInit => StreamTypes
    <3>1. ASSUME StreamInit PROVE StreamTypes
      <4>1. MaxAnswers \in Nat /\ MaxAnswers # 0 /\ MaxChunksSent \in Nat BY StreamAssumption DEF StreamAssumption
      <4>2. answerNo = 1 /\ chunkNo = 0 /\ crowded \in BOOLEAN BY <3>1 DEF StreamInit
      <4>2a. answerNo \in 1 .. MaxAnswers /\ chunkNo \in 0 .. MaxChunksSent BY <4>1, <4>2
      <4>3. gathered = NothingGathered BY <3>1 DEF StreamInit
      <4>4. ASSUME NEW i \in ToolIndexes
            PROVE  gathered[i].named \in BOOLEAN /\ gathered[i].args \in Seq(Nat) /\ Len(gathered[i].args) <= chunkNo
        BY <4>2, <4>3, GatheredNothing
      <4> QED BY <4>2, <4>2a, <4>4 DEF StreamTypes
    <3> QED BY <3>1
  <2> QED BY <2>1, SpecOfParts, StreamStart, StreamStep, StreamTypesStep, PTL
<1>4. Spec => []MemoryInv /\ []NumbersGiven
  <2>1. MemoryInv => MemoryTypeInv BY DEF MemoryInv
  <2> QED BY <2>1, SpecOfParts, MemoryInvariant, NumbersStart, NumbersStep, PTL DEF MemorySpec
<1>5. Spec => []PageInv BY SpecOfParts, PageStart, PageStep, PTL
<1> DEFINE Focus == focus \in {"agents", "workspace", "memory", "plugins", "pages", "streams"}
<1>6. Spec => []Focus
  <2>1. Init => Focus BY DEF Init
  <2>2. Focus /\ [Next]_<<runtimeVars, workspaceVars, memoryVars, marketVars, pageVars, streamVars, focus>> => Focus'
    BY DEF Next
  <2> QED BY <2>1, <2>2, PTL DEF Spec
<1>7. RuntimeInv => RuntimeTypeOK BY DEF RuntimeInv, RuntimeTypeInv, RuntimeTypeOK, CallRecord, Kinds, CallOutcomes
<1>8. WorkspaceInv => WorkspaceTypeOK BY DEF WorkspaceInv, MessagesInv
<1>9. MarketInv /\ TogetherTyped => MarketTypeOK
  BY DEF MarketInv, MarketTypeInv, PluginRows, MarketTypeOK, TogetherTyped
<1>10. MemoryInv /\ NumbersGiven => MemoryTypeOK BY NumbersTold DEF MemoryInv
<1>11. PageInv => PageTypeOK BY PageTold
<1>12. /\ RuntimeTypeOK /\ WorkspaceTypeOK /\ MemoryTypeOK /\ MarketTypeOK /\ PageTypeOK /\ StreamTypeOK
       /\ Focus
       => TypesOK
  BY DEF TypesOK
<1> QED BY <1>1, <1>2, <1>3, <1>4, <1>5, <1>6, <1>7, <1>8, <1>9, <1>10, <1>11, <1>12, StreamTyped, PTL
=============================================================================
