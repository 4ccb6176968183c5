---------------------------- MODULE Marketplace ----------------------------
(***************************************************************************)
(* gateway/api/v1/plugins.py and models/plugin.py: publishing plugins and  *)
(* installing them.  A call is one request; what it reads is read in one   *)
(* or two SELECTs, and what it writes is committed at its end.  Nothing is *)
(* locked and the tables have no unique index but their primary keys, so   *)
(* what a call has read may be out of date when it commits.  A plugin is   *)
(* named by the call that publishes it, an installation by the call that   *)
(* makes it.                                                               *)
(***************************************************************************)
EXTENDS Integers, FiniteSets

CONSTANTS
    Publishes,      \* the calls of POST /plugins
    PluginName,     \* [Publishes -> the name in the request]
    Installs,       \* the calls of POST /plugins/{id}/install
    Uninstalls,     \* the calls of DELETE /plugins/{id}/uninstall
    OfPlugin,       \* [Installs \cup Uninstalls -> the plugin of the request]
    OfTenant,       \* [Installs \cup Uninstalls -> the tenant of the request]
    MaxStatusEdits  \* model bound: PUT and DELETE /plugins/{id}

ASSUME MarketAssumption ==
    /\ OfPlugin \in [Installs \cup Uninstalls -> Publishes]
    /\ Installs \cap Uninstalls = {} /\ Publishes \cap (Installs \cup Uninstalls) = {}
    /\ "no installation" \notin Installs

PluginCalls == Publishes \cup Installs \cup Uninstalls
PluginStatuses == {"published", "unpublished", "archived"}
NoInstall == "no installation"

VARIABLES
    plugins,        \* [Publishes -> [status, install_count]]: "absent" before it is committed
    installed,      \* the installations there are
    phase,          \* [PluginCalls -> where a call is]
    countRead,      \* [PluginCalls -> the install_count it has read]
    rowRead,        \* [Uninstalls -> the installation it will delete]
    statusEdits,    \* status changes so far
    together        \* history: the plugins on which two installs or uninstalls were under way at once

marketVars == <<plugins, installed, phase, countRead, rowRead, statusEdits, together>>

Published(p) == plugins[p].status # "absent"
Rows(p, tenant) == {i \in installed : OfPlugin[i] = p /\ OfTenant[i] = tenant}
RowsOf(p) == {i \in installed : OfPlugin[i] = p}
Working(p) == {c \in Installs \cup Uninstalls : OfPlugin[c] = p /\ phase[c] \notin {"idle", "answered", "refused"}}
Turns(c, to) == phase' = [phase EXCEPT ![c] = to]
SetCount(p, n) == plugins' = [plugins EXCEPT ![p] = [status |-> @.status, install_count |-> n]]

MarketInit ==
    /\ plugins = [p \in Publishes |-> [status |-> "absent", install_count |-> 0]]
    /\ installed = {}
    /\ phase = [c \in PluginCalls |-> "idle"]
    /\ countRead = [c \in PluginCalls |-> 0]
    /\ rowRead = [c \in Uninstalls |-> NoInstall]
    /\ statusEdits = 0 /\ together = {}

-----------------------------------------------------------------------------
(* Publishing.  scalar_one_or_none raises when two plugins have the name.  *)

PublishChecks(p) ==
    /\ phase[p] = "idle"
    /\ Turns(p, IF \E q \in Publishes : Published(q) /\ PluginName[q] = PluginName[p] THEN "refused" ELSE "inserting")
    /\ UNCHANGED <<plugins, installed, countRead, rowRead, statusEdits, together>>

PublishInserts(p) ==
    /\ phase[p] = "inserting"
    /\ plugins' = [plugins EXCEPT ![p] = [status |-> "published", install_count |-> 0]]
    /\ Turns(p, "answered")
    /\ UNCHANGED <<installed, countRead, rowRead, statusEdits, together>>

\* update_plugin sets any status, unpublish_plugin that of a plugin taken off: the UPDATE names no count.
StatusChanges(p, status) ==
    /\ Published(p) /\ plugins[p].status # status /\ statusEdits < MaxStatusEdits
    /\ plugins' = [plugins EXCEPT ![p] = [status |-> status, install_count |-> @.install_count]]
    /\ statusEdits' = statusEdits + 1
    /\ UNCHANGED <<installed, phase, countRead, rowRead, together>>

-----------------------------------------------------------------------------
(* Installing: the plugin is read, then the tenant's installation of it is *)
(* looked for, then both the new row and the count are committed.          *)

\* A call under way is joined by another on the same plugin.
Joins(c) == together' = together \cup (IF Working(OfPlugin[c]) = {} THEN {} ELSE {OfPlugin[c]})

InstallReads(c) ==
    LET p == OfPlugin[c] IN
    /\ phase[c] = "idle" /\ Published(p)
    /\ Turns(c, IF plugins[p].status = "published" THEN "checking" ELSE "refused")
    /\ countRead' = [countRead EXCEPT ![c] = plugins[p].install_count]
    /\ Joins(c)
    /\ UNCHANGED <<plugins, installed, rowRead, statusEdits>>

InstallChecks(c) ==
    /\ phase[c] = "checking"
    /\ Turns(c, IF Rows(OfPlugin[c], OfTenant[c]) = {} THEN "committing" ELSE "refused")
    /\ UNCHANGED <<plugins, installed, countRead, rowRead, statusEdits, together>>

InstallCommits(c) ==
    /\ phase[c] = "committing" /\ c \in Installs
    /\ installed' = installed \cup {c}
    /\ SetCount(OfPlugin[c], countRead[c] + 1)
    /\ Turns(c, "answered")
    /\ UNCHANGED <<countRead, rowRead, statusEdits, together>>

-----------------------------------------------------------------------------
(* Uninstalling: the installation is looked for, then the plugin is read,  *)
(* then the row is deleted and the count written.                          *)

\* No row is a 404; two make scalar_one_or_none raise, and every later uninstall of the tenant too.
UninstallFinds(c) ==
    LET found == Rows(OfPlugin[c], OfTenant[c]) IN
    /\ phase[c] = "idle" /\ Published(OfPlugin[c])
    /\ Turns(c, IF Cardinality(found) = 1 THEN "reading" ELSE "refused")
    /\ rowRead' = [rowRead EXCEPT ![c] = IF Cardinality(found) = 1 THEN CHOOSE i \in found : TRUE ELSE NoInstall]
    /\ Joins(c)
    /\ UNCHANGED <<plugins, installed, countRead, statusEdits>>

UninstallReads(c) ==
    /\ phase[c] = "reading"
    /\ countRead' = [countRead EXCEPT ![c] = plugins[OfPlugin[c]].install_count]
    /\ Turns(c, "committing")
    /\ UNCHANGED <<plugins, installed, rowRead, statusEdits, together>>

\* A variant of UninstallCommits that deletes the row and leaves the count.
UninstallKeepsCount(c) ==
    /\ phase[c] = "committing" /\ c \in Uninstalls
    /\ installed' = installed \ {rowRead[c]}
    /\ Turns(c, "answered")
    /\ UNCHANGED <<plugins, countRead, rowRead, statusEdits, together>>

\* A variant of UninstallCommits that takes one off whatever it has read.
UninstallCountsDown(c) ==
    /\ phase[c] = "committing" /\ c \in Uninstalls
    /\ installed' = installed \ {rowRead[c]}
    /\ SetCount(OfPlugin[c], countRead[c] - 1)
    /\ Turns(c, "answered")
    /\ UNCHANGED <<countRead, rowRead, statusEdits, together>>

\* max(0, count - 1); a count read as 0 is not changed, so the UPDATE does not name it.  A row another
\* uninstall has deleted meanwhile is no error.
UninstallCommits(c) ==
    /\ phase[c] = "committing" /\ c \in Uninstalls
    /\ installed' = installed \ {rowRead[c]}
    /\ IF countRead[c] = 0 THEN UNCHANGED plugins ELSE SetCount(OfPlugin[c], countRead[c] - 1)
    /\ Turns(c, "answered")
    /\ UNCHANGED <<countRead, rowRead, statusEdits, together>>

MarketNext ==
    \/ \E p \in Publishes :
        PublishChecks(p) \/ PublishInserts(p) \/ (\E status \in PluginStatuses : StatusChanges(p, status))
    \/ \E c \in Installs : InstallReads(c) \/ InstallChecks(c) \/ InstallCommits(c)
    \/ \E c \in Uninstalls : UninstallFinds(c) \/ UninstallReads(c) \/ UninstallCommits(c)

MarketSpec == MarketInit /\ [][MarketNext]_marketVars

-----------------------------------------------------------------------------
MarketTypeOK ==
    /\ \A p \in Publishes : plugins[p].status \in PluginStatuses \cup {"absent"} /\ plugins[p].install_count \in Nat
    /\ installed \subseteq Installs /\ together \subseteq Publishes
    /\ phase \in [PluginCalls -> {"idle", "inserting", "checking", "reading", "committing", "answered", "refused"}]
    /\ rowRead \in [Uninstalls -> Installs \cup {NoInstall}]

\* The count a plugin is listed with is the number of tenants that have it, and no tenant has it twice,
\* as long as no two installs or uninstalls of the plugin were under way together, whatever happens to
\* its status meanwhile (plugins.py:174 to 226, 229 to 258: reads, checks and the commit are apart).
CountsInstallations ==
    \A p \in Publishes \ together :
        /\ plugins[p].install_count = Cardinality(RowsOf(p))
        /\ \A i, j \in RowsOf(p) : OfTenant[i] = OfTenant[j] => i = j
=============================================================================
