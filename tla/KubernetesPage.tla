--------------------------- MODULE KubernetesPage ---------------------------
(***************************************************************************)
(* The Kubernetes view: one component behind seven routes (tabs), reused   *)
(* when the tab changes.  A table shows the resources of the namespace its *)
(* last answer was asked for; a write names a resource of the table and    *)
(* the namespace selected when it is sent.                                 *)
(***************************************************************************)
EXTENDS Console, SequencesExt

CONSTANTS Tabs, Namespaces, InitialNs, Names,
          Workloads,    \* the deployments of a namespace, in the order listed
          VersionLists, \* answers about collected runtime versions
          WebMain,      \* the deployment that hosts several business apps
          Rank          \* localeCompare: the place of an identifier

ContentKinds == {"logs", "image", "configmap"}
FormKinds == {"image", "resources", "service", "configmap"}
PromptKinds == {"restart", "scale", "deleteService"}
WriteKinds == FormKinds \cup PromptKinds

TabOf == [k \in WriteKinds \cup {"logs"} |->
            CASE k \in {"service", "deleteService"} -> "services"
              [] k = "configmap" -> "configmaps"
              [] k = "logs" -> "pods"
              [] OTHER -> "deployments"]

\* The tabs whose load awaits the metrics server after the resources.
Metered == Tabs \cap {"overview", "nodes", "pods"}

(***************************************************************************)
(* The deployment table.  A version row is [dep, app, code, role, path].   *)
(***************************************************************************)
runtimeAppIdentifier(r, dep) ==
    CASE dep # WebMain -> dep
      [] r.app = WebMain \/ r.role = "main" -> WebMain
      [] r.code # None -> r.code
      [] r.path # None -> r.path
      [] OTHER -> r.app

\* The places of a deployment's versions in the list.
runtimeVersionsForDeployment(versions, dep) ==
    {i \in DOMAIN versions : versions[i].dep = dep}

\* The versions of WebMain's own application first, then by identifier; the sort
\* is stable.
inOrder(versions, dep) ==
    LET place(i) == LET id == runtimeAppIdentifier(versions[i], dep)
                    IN  IF id = WebMain THEN 0 ELSE Rank[id]
    IN  SetToSortSeq(runtimeVersionsForDeployment(versions, dep),
            LAMBDA i, j : place(i) < place(j) \/ (place(i) = place(j) /\ i < j))

sortedRuntimeVersions(versions, dep) ==
    [i \in 1 .. Cardinality(runtimeVersionsForDeployment(versions, dep)) |->
        versions[inOrder(versions, dep)[i]]]

\* One row per deployment, except WebMain: one per collected version.
rowsOf(versions, dep) ==
    LET sorted == sortedRuntimeVersions(versions, dep)
        own == {i \in DOMAIN sorted : sorted[i].app = dep}
        row(i) == [dep |-> dep, app |-> runtimeAppIdentifier(sorted[i], dep),
                   collected |-> TRUE]
    IN  CASE sorted = <<>> -> <<[dep |-> dep, app |-> dep, collected |-> FALSE]>>
          [] dep = WebMain -> [i \in DOMAIN sorted |-> row(i)]
          [] OTHER -> <<row(IF own = {} THEN 1 ELSE Min(own))>>

deploymentTableRows(deps, versions) ==
    FlattenSeq([i \in DOMAIN deps |-> rowsOf(versions, deps[i])])

\* The rowspan of the merged columns at row i.
deploymentTableSpanMethod(rows, i) ==
    IF i > 1 /\ rows[i - 1].dep = rows[i].dep
    THEN 0
    ELSE LET other == {j \in i + 1 .. Len(rows) : rows[j].dep # rows[i].dep}
         IN  (IF other = {} THEN Len(rows) + 1
              ELSE CHOOSE j \in other : \A k \in other : j <= k) - i

-----------------------------------------------------------------------------
Dialogs == [kind : WriteKinds \cup {"logs"}, name : Names, ns : Namespaces]
Contents == [name : Names, ns : Namespaces]

\* The view starts on one of the namespaces; the null value is none of them, no
\* dialog and no page.
KubernetesConstants ==
    InitialNs \in Namespaces /\ None \notin Namespaces \cup Dialogs \cup {"Kubernetes"}

\* Deployments and their versions come as lists.
TablesAreLists == \A l \in VersionLists \cup {Workloads} : l \in Seq(Range(l))

\* The refs of a fresh component; the route says which tab it shows.
Fresh(tab) ==
    [ns |-> InitialNs, tab |-> tab, listed |-> FALSE, loading |-> FALSE,
     rows |-> [t \in Tabs |-> None], top |-> None, versions |-> <<>>, sync |-> None,
     dialog |-> None, body |-> None, busy |-> FALSE, due |-> 0, calm |-> TRUE]

LoadCall(refs) == Call("load", [tab |-> refs.tab, ns |-> refs.ns])

\* loadTab up to its first await.
loadTab(refs) == [refs EXCEPT !.loading = TRUE]

\* onMounted: waits for the settings, unless the store already has them (ns);
\* assigning another namespace wakes its watcher before the list is answered.
onMounted(tab, ns) ==
    LET refs == [Fresh(tab) EXCEPT !.ns = ns]
    IN  CASE ns = None -> Mount("Kubernetes", Fresh(tab), None,
                                <<Call("settings", None)>>)
          [] ns = InitialNs -> Mount("Kubernetes", refs, None,
                                     <<Call("namespaces", None)>>)
          [] OTHER -> Mount("Kubernetes", loadTab(refs), None,
                            <<Call("namespaces", None), LoadCall(refs)>>)

Enter == \E tab \in Tabs, ns \in Namespaces \cup {None} : onMounted(tab, ns)

Here == page = "Kubernetes"

\* Reload timers outlive the view, but only load into refs that are gone.
Leave == Here /\ LeaveWith({}, {})

\* fetchSettings answered (a failure leaves the default in the store).
SettingsArrive(i) ==
    /\ Here /\ i \in Indices("settings")
    /\ \E ns \in Namespaces :
          LET refs == [view EXCEPT !.ns = ns, !.calm = @ /\ view.dialog = None]
          IN  IF ns = view.ns
              THEN view' = refs /\ Reply(i, <<Call("namespaces", None)>>)
              ELSE view' = loadTab(refs)
                   /\ Reply(i, <<Call("namespaces", None), LoadCall(refs)>>)
    /\ Answer

\* The list of namespaces, or its fallback; then the first load of onMounted.
NamespacesArrive(i) ==
    /\ Here /\ i \in Indices("namespaces")
    /\ view' = loadTab([view EXCEPT !.listed = TRUE])
    /\ Reply(i, <<LoadCall(view)>>)
    /\ Answer

-----------------------------------------------------------------------------
(* Loads: the two watchers, the refresh button and the delayed reloads.    *)

SelectNamespace(ns) ==
    /\ Here /\ view.listed /\ view.dialog = None /\ ns # view.ns
    /\ LET refs == [view EXCEPT !.ns = ns]
       IN  view' = loadTab(refs) /\ Send(<<LoadCall(refs)>>)
    /\ User

\* A route of another tab (the side menu, or "back" even under a dialog).
SelectTab(tab) ==
    /\ Here /\ tab # view.tab
    /\ LET refs == [view EXCEPT !.tab = tab]
       IN  view' = loadTab(refs) /\ Send(<<LoadCall(refs)>>)
    /\ User

Refresh ==
    /\ Here /\ ~view.loading /\ view.dialog = None
    /\ view' = loadTab(view) /\ Send(<<LoadCall(view)>>)
    /\ User

\* setTimeout(loadTab, ...): armed by every write that succeeded.
ReloadDue ==
    /\ Here /\ view.due > 0
    /\ view' = loadTab([view EXCEPT !.due = @ - 1])
    /\ Send(<<LoadCall(view)>>)
    /\ Answer

\* loadTab after its first await: the rows, or nothing new; "finally" ends the
\* overlay unless the metrics of the tab are still to be asked for.
RowsArrive(i, ok) ==
    /\ Here /\ i \in Indices("load")
    /\ LET c == calls[i]
           more == ok /\ c.arg.tab \in Metered
       IN  /\ \E vs \in IF ok /\ c.arg.tab = "deployments" THEN VersionLists
                        ELSE {view.versions} :
                 view' = [view EXCEPT
                            !.rows[c.arg.tab] = IF ok THEN c.arg.ns ELSE @,
                            !.versions = vs,
                            !.loading = more /\ @,
                            !.calm = @ /\ ok /\ c.last]
           /\ Reply(i, IF more THEN <<Call("top", [tab |-> c.arg.tab, ns |-> view.ns])>>
                       ELSE <<>>)
    /\ Answer

\* The metrics, or an empty list; then "finally".
MetricsArrive(i, ok) ==
    /\ Here /\ i \in Indices("top")
    /\ view' = [view EXCEPT
                  !.top = CASE calls[i].arg.tab # "pods" -> @
                            [] ok -> calls[i].arg.ns
                            [] OTHER -> None,
                  !.loading = FALSE,
                  !.calm = @ /\ calls[i].last /\ Indices("load") = {}]
    /\ Reply(i, <<>>) /\ Answer

-----------------------------------------------------------------------------
(* Dialogs: at most one is open, above everything else.                    *)

\* A button of a row: the overlay of a load covers the tables.
Row(tab) == /\ Here /\ view.tab = tab /\ view.rows[tab] # None
            /\ ~view.loading /\ view.dialog = None

Subject(k, n) == [kind |-> k, name |-> n, ns |-> view.rows[TabOf[k]]]

Ask(k, n) ==
    /\ Row(TabOf[k])
    /\ view' = [view EXCEPT !.dialog = Subject(k, n)]
    /\ UNCHANGED calls /\ User

\* A dialog whose content is asked for when it opens.
OpenAndLoad(k, n) ==
    /\ Row(TabOf[k])
    /\ view' = [view EXCEPT !.dialog = Subject(k, n), !.body = None, !.busy = TRUE]
    /\ Send(<<Call(k, [name |-> n, ns |-> view.ns])>>) /\ User

handleRestart(n) == Ask("restart", n)
handleScale(n) == Ask("scale", n)
handleUpdateResources(n) == Ask("resources", n)
handleEditService(n) == Ask("service", n)
handleDeleteService(n) == Ask("deleteService", n)
handleViewLogs(n) == OpenAndLoad("logs", n)
handleUpdateImage(n) == OpenAndLoad("image", n)
handleEditConfigMap(n) == OpenAndLoad("configmap", n)

\* What a dialog asked for is answered: it goes into the refs of its kind,
\* whatever name that dialog shows by now.
ContentArrives(i, ok) ==
    /\ Here /\ calls[i].op \in ContentKinds
    /\ LET c == calls[i]
           shown == view.dialog # None /\ view.dialog.kind = c.op
       IN  view' = [view EXCEPT !.body = IF shown /\ ok THEN c.arg ELSE @,
                                !.busy = @ /\ ~shown,
                                !.calm = @ /\ c.last]
    /\ Reply(i, <<>>) /\ Answer

CloseDialog ==
    /\ Here /\ view.dialog # None
    /\ view' = [view EXCEPT !.dialog = None, !.body = None, !.busy = FALSE]
    /\ UNCHANGED calls /\ User

Open(k) == Here /\ view.dialog # None /\ view.dialog.kind = k

\* A write: the name of the dialog, the namespace selected now, the data it
\* holds now ("from" and "data" say whose they are).
Submit(k, data) ==
    /\ Open(k)
    /\ view' = IF k \in PromptKinds THEN [view EXCEPT !.dialog = None] ELSE view
    /\ Send(<<Call("write", [kind |-> k, name |-> view.dialog.name, ns |-> view.ns,
                             from |-> view.dialog.ns, data |-> data])>>)
    /\ User

Own == [name |-> view.dialog.name, ns |-> view.dialog.ns]

ConfirmPrompt == \E k \in PromptKinds : Submit(k, Own)
handleSubmitImage ==
    Open("image") /\ \E data \in {Own, view.body} \ {None} : Submit("image", data)
handleSubmitResources == Submit("resources", Own)
handleSubmitService == Submit("service", Own)
handleSaveConfigMap == Submit("configmap", view.body)

\* A write is answered: success closes the dialog of its kind, if open.
WriteAnswered(i, ok) ==
    /\ Here /\ i \in Indices("write")
    /\ LET k == calls[i].arg.kind
           closes == ok /\ k \in FormKinds /\ view.dialog # None /\ view.dialog.kind = k
       IN  view' = [view EXCEPT !.due = IF ok THEN @ + 1 ELSE @,
                                !.dialog = IF closes THEN None ELSE @,
                                !.body = IF closes THEN None ELSE @,
                                !.busy = @ /\ ~closes]
    /\ Reply(i, <<>>) /\ Answer

\* The versions of one deployment, or of "all": the key says which button spins.
handleSyncRuntimeVersions(key) ==
    /\ Here /\ view.tab = "deployments" /\ view.sync # key /\ view.dialog = None
    /\ key # "all" => ~view.loading /\ view.rows["deployments"] # None
    /\ view' = [view EXCEPT !.sync = key]
    /\ Send(<<Call("sync", [key |-> key, ns |-> view.ns])>>) /\ User

VersionsSynced(i, ok) ==
    /\ Here /\ i \in Indices("sync")
    /\ \E vs \in IF ok THEN VersionLists ELSE {view.versions} :
          view' = [view EXCEPT !.versions = vs, !.sync = None]
    /\ Reply(i, <<>>) /\ Answer

-----------------------------------------------------------------------------
UserActs ==
    \/ \E ns \in Namespaces : SelectNamespace(ns)
    \/ \E tab \in Tabs : SelectTab(tab)
    \/ Refresh
    \/ \E n \in Names :
          \/ handleRestart(n) \/ handleScale(n) \/ handleUpdateResources(n)
          \/ handleEditService(n) \/ handleDeleteService(n)
          \/ handleViewLogs(n) \/ handleUpdateImage(n) \/ handleEditConfigMap(n)
    \/ CloseDialog \/ ConfirmPrompt \/ handleSubmitImage \/ handleSubmitResources
    \/ handleSubmitService \/ handleSaveConfigMap
    \/ \E key \in Names \cup {"all"} : handleSyncRuntimeVersions(key)

Arrivals ==
    \E i \in DOMAIN calls :
        \/ SettingsArrive(i) \/ NamespacesArrive(i)
        \/ \E ok \in BOOLEAN :
              \/ RowsArrive(i, ok) \/ MetricsArrive(i, ok) \/ ContentArrives(i, ok)
              \/ WriteAnswered(i, ok) \/ VersionsSynced(i, ok)

Next == Here /\ (UserActs \/ Arrivals \/ ReloadDue)

-----------------------------------------------------------------------------
TypeOK ==
    Here =>
    /\ view.ns \in Namespaces /\ view.tab \in Tabs
    /\ view.rows \in [Tabs -> Namespaces \cup {None}]
    /\ view.top \in Namespaces \cup {None}
    /\ view.sync \in Names \cup {"all", None}
    /\ view.versions \in VersionLists \cup {<<>>}
    /\ view.dialog \in Dialogs \cup {None} /\ view.body \in Contents \cup {None}
    /\ view.due \in Nat
    /\ {view.listed, view.loading, view.busy, view.calm} \subseteq BOOLEAN

(***************************************************************************)
(* An overlay or a spinner has a call in flight whose answer ends it: no   *)
(* failure, close or tab change leaves the page covered for good           *)
(* (loading, imageLoading and cmLoading, versionSyncing).                  *)
(***************************************************************************)
BusyEnds ==
    Here =>
    /\ view.loading => InFlight({"load", "top"})
    /\ view.busy => InFlight({view.dialog.kind})
    /\ view.sync # None => InFlight({"sync"})

(***************************************************************************)
(* As long as every load succeeded and none was overtaken by a newer one   *)
(* for something else, a write goes to the namespace its row was listed    *)
(* in, and carries the data of the resource it names.                      *)
(***************************************************************************)
WritesOwnSubject ==
    Here /\ view.calm =>
    \A i \in Indices("write") :
        LET w == calls[i].arg
        IN  w.from = w.ns /\ w.data \in {None, [name |-> w.name, ns |-> w.ns]}

(***************************************************************************)
(* Every row of the deployment table lies under exactly one merged cell,   *)
(* and the buttons of that cell act on the row's own deployment.           *)
(***************************************************************************)
MergedCellsAgree ==
    Here /\ view.rows["deployments"] # None =>
    LET rows == deploymentTableRows(Workloads, view.versions)
        span == [i \in DOMAIN rows |-> deploymentTableSpanMethod(rows, i)]
    IN  \A j \in DOMAIN rows :
            \E i \in 1 .. j :
                /\ i + span[i] > j /\ rows[i].dep = rows[j].dep
                /\ \A k \in DOMAIN rows \ {i} : k <= j => k + span[k] <= j
==============================================================================
