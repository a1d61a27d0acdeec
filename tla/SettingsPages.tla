--------------------------- MODULE SettingsPages ---------------------------
(***************************************************************************)
(* The views of the settings menu.  Four of them are a table with a form   *)
(* in a dialog (applications, build configurations, configuration items,   *)
(* webhooks); two are one form over the key/value settings of the server   *)
(* (general, which shares its view with the webhooks, and environment).    *)
(***************************************************************************)
EXTENDS Console

CONSTANTS Ids,       \* rows a table can have (a bound)
          Contents,  \* what a row can hold
          Searches, PageNos,
          Probes     \* the sections of the environment that can be tested

On(p) == page = p

Tables == {"Apps", "BuildConfigs", "ConfigItems", "Settings"}
Forms == {"Settings", "Environment"}

\* What a row holds is something, lists begin with page 1, and the mark of nothing
\* is no view.
SettingsConstants == Contents # {} /\ 1 \in PageNos /\ None \notin Tables \cup Forms

\* v-loading covers the table (the other two have no such ref), or the form.
Overlaid == page \in {"Apps", "BuildConfigs"}

\* What the server holds, and what the settings store of the console was told.
Served == [rows : [Ids -> Contents \cup {None}],
           value : {"stored", "default", "typed", "read"},
           store : {"stored", "default", "typed", "read"}]

AtFirst(rows) == [rows |-> rows, value |-> "stored", store |-> "stored"]

\* A list is served at some time between its call ("seen") and its answer.
List(refs, rows) ==
    Call("list", [page |-> refs.page, search |-> refs.search, seen |-> rows])

\* The refs of the table views (the last four are those of the general form).
TableRefs(busy) ==
    [rows |-> None, page |-> 1, search |-> None, typing |-> FALSE,
     loading |-> busy, edit |-> None, form |-> None, calm |-> TRUE,
     tab |-> None, value |-> "default", edited |-> FALSE, saving |-> FALSE]

EnterTable(p) ==
    \E rows \in [Ids -> {CHOOSE c \in Contents : TRUE, None}] :
       LET refs == TableRefs(p \in {"Apps", "BuildConfigs"}) IN
       Mount(p, refs, AtFirst(rows), <<List(refs, rows)>>)

EnterApps == EnterTable("Apps")
EnterBuildConfigs == EnterTable("BuildConfigs")
EnterConfigItems == EnterTable("ConfigItems")

-----------------------------------------------------------------------------
(* The table and its controls                                              *)

Reload(refs, rows) == [refs EXCEPT !.loading = Overlaid, !.typing = FALSE]

RowsArrive(i, ok) ==
    /\ page \in Tables /\ i \in Indices("list")
    /\ \E served \in {calls[i].arg.seen, world.rows} :
          view' = [view EXCEPT
                     !.rows = IF ok THEN [calls[i].arg EXCEPT !.seen = served] ELSE None,
                     !.loading = FALSE, !.calm = Calmly(i, ok)]
    /\ Reply(i, <<>>) /\ Answer

Reloads(refs) ==
    /\ view' = Reload(refs, world.rows)
    /\ Send(<<List(refs, world.rows)>>) /\ User

\* The text of the box counts from its first letter for whatever loads next.
TypeSearch(text) ==
    /\ On("Apps") /\ view.form = None
    /\ view' = [view EXCEPT !.search = text, !.typing = TRUE]
    /\ UNCHANGED calls /\ User

handleSearch == On("Apps") /\ view.form = None /\ Reloads([view EXCEPT !.page = 1])

\* faulty: the page turns, the rows stay.
Bug_handlePageChange(n) ==
    /\ On("Apps") /\ view.form = None /\ n # view.page
    /\ view' = [view EXCEPT !.page = n] /\ UNCHANGED calls /\ User

handlePageChange(n) ==
    On("Apps") /\ view.form = None /\ n # view.page /\ Reloads([view EXCEPT !.page = n])

handleSizeChange == On("Apps") /\ view.form = None /\ Reloads([view EXCEPT !.page = 1])

-----------------------------------------------------------------------------
(* The form of a row                                                       *)

HasTable == page \in Tables /\ (page = "Settings" => view.tab = "notifications")

\* faulty: the row edited last is not forgotten.
Bug_handleAdd ==
    /\ HasTable /\ view.form = None
    /\ view' = [view EXCEPT !.form = [of |-> None, content |-> None]]
    /\ UNCHANGED calls /\ User

\* "edit" is editingApp, or editMode; the form has its own idea of its row.
handleAdd ==
    /\ HasTable /\ view.form = None
    /\ view' = [view EXCEPT !.edit = None, !.form = [of |-> None, content |-> None]]
    /\ UNCHANGED calls /\ User

OnRow(id) ==
    /\ HasTable /\ view.form = None /\ ~view.loading
    /\ view.rows # None /\ view.rows.seen[id] # None

handleEdit(id) ==
    /\ OnRow(id)
    /\ view' = [view EXCEPT !.edit = id,
                            !.form = [of |-> id, content |-> view.rows.seen[id]]]
    /\ UNCHANGED calls /\ User

\* Typing into the form is not counted as a click.
FillForm(c) ==
    /\ page \in Tables /\ view.form # None /\ view.form.content # c
    /\ view' = [view EXCEPT !.form.content = c]
    /\ UNCHANGED <<page, calls, world, clicks>>

CloseForm ==
    /\ page \in Tables /\ view.form # None
    /\ view' = [view EXCEPT !.form = None] /\ UNCHANGED calls /\ User

\* Refused while a required field is empty; nothing keeps the button from a
\* second click.
handleSave ==
    /\ page \in Tables /\ view.form # None /\ view.form.content # None
    /\ Send(<<Call("save", [id |-> view.edit, form |-> view.form])>>)
    /\ UNCHANGED view /\ User

\* A node port of 0 is left out of the request (nodePort || undefined), and
\* what an update leaves out the server keeps.
Stored(old, c) == IF page = "Apps" /\ c = 0 /\ old # None THEN old ELSE c

\* The row an accepted call writes: its own, or a new one.
Written(id) ==
    IF id = None THEN {n \in Ids : world.rows[n] = None}
    ELSE {n \in {id} : world.rows[n] # None}

Writes(rows) == world' = [world EXCEPT !.rows = rows]

\* A write that was answered: the rows are loaded again.  One whose answer was
\* lost may have been served all the same.
Wrote(i, ok, rows, refs) ==
    /\ Writes(rows)
    /\ view' = IF ok THEN Reload(refs, rows)
               ELSE [view EXCEPT !.calm = @ /\ rows = world.rows]
    /\ Reply(i, IF ok THEN <<List(refs, rows)>> ELSE <<>>)
    /\ UNCHANGED <<page, clicks>>

\* A success closes whatever form is open by then.
RowSaved(i, ok) ==
    /\ page \in Tables /\ i \in Indices("save")
    /\ \/ \E n \in Written(calls[i].arg.id) :
             Wrote(i, ok, [world.rows EXCEPT ![n] = Stored(@, calls[i].arg.form.content)],
                   [view EXCEPT !.form = None])
       \/ ~ok /\ Wrote(i, FALSE, world.rows, view)

\* After the confirmation box.
handleDelete(id) ==
    /\ OnRow(id)
    /\ Send(<<Call("delete", id)>>) /\ UNCHANGED view /\ User

RowDeleted(i, ok) ==
    /\ page \in Tables /\ i \in Indices("delete")
    /\ \/ Wrote(i, ok, [world.rows EXCEPT ![calls[i].arg] = None], view)
       \/ ~ok /\ Wrote(i, FALSE, world.rows, view)

handleTestNotify(id) ==
    /\ On("Settings") /\ OnRow(id)
    /\ Send(<<Call("test", id)>>) /\ UNCHANGED view /\ User

TestAnswered(i) ==
    /\ On("Settings") /\ i \in Indices("test")
    /\ UNCHANGED view /\ Reply(i, <<>>) /\ Answer

-----------------------------------------------------------------------------
(* SettingsView: the general form and the webhooks behind two routes       *)

loadGeneral == Call("settings", world.value)

\* loadForTab; the general form shows its defaults until it is answered.
EnterSettings(tab) ==
    \E rows \in [Ids -> {CHOOSE c \in Contents : TRUE, None}] :
       LET refs == [TableRefs(FALSE) EXCEPT !.tab = tab] IN
       Mount("Settings", refs, AtFirst(rows),
             <<IF tab = "general" THEN Call("settings", "stored") ELSE List(refs, rows)>>)

\* The router keeps the view: only activeTab changes, and its watch loads.
SwitchTab(tab) ==
    /\ On("Settings") /\ tab # view.tab
    /\ view' = [view EXCEPT !.tab = tab]
    /\ Send(<<IF tab = "general" THEN loadGeneral ELSE List(view, world.rows)>>)
    /\ User

\* "edited": something was typed or filled in since the form was loaded or sent.
TypeSetting ==
    /\ page \in Forms /\ view.value # "typed"
    /\ On("Settings") => view.tab = "general" /\ view.form = None
    /\ On("Environment") => ~view.loading
    /\ view' = [view EXCEPT !.value = "typed", !.edited = TRUE]
    /\ UNCHANGED calls /\ User

\* Every key of the form, whatever was typed meanwhile, is what was served.
SettingsArrive(i, ok) ==
    /\ page \in Forms /\ i \in Indices("settings")
    /\ \E served \in {calls[i].arg, world.value} :
          view' = IF ok THEN [view EXCEPT !.value = served, !.edited = FALSE,
                                          !.loading = FALSE,
                                          !.calm = Calmly(i, ok) /\ ~InFlight({"put"})]
                  ELSE [view EXCEPT !.loading = FALSE, !.calm = FALSE]
    /\ Reply(i, <<>>) /\ Answer

PutSettings(refs) ==
    /\ view' = [refs EXCEPT !.edited = FALSE]
    /\ Send(<<Call("put", view.value)>>) /\ User

handleSaveGeneral ==
    /\ On("Settings") /\ view.tab = "general" /\ view.form = None
    /\ PutSettings(view)

-----------------------------------------------------------------------------
(* SettingsEnvironmentView                                                 *)

EnterEnvironment ==
    Mount("Environment",
          [value |-> "default", edited |-> FALSE, loading |-> TRUE,
           saving |-> FALSE, testing |-> None, reading |-> FALSE, listing |-> FALSE,
           calm |-> TRUE],
          AtFirst([n \in Ids |-> None]), <<Call("settings", "stored")>>)

OnForm == On("Environment") /\ ~view.loading

saveSettings ==
    /\ OnForm /\ ~view.saving
    /\ PutSettings([view EXCEPT !.saving = TRUE])

\* A load that is still out may bring back what the put replaced; the order in
\* which two puts are answered is the order in which they were served.
SettingsPut(i, ok) ==
    /\ page \in Forms /\ i \in Indices("put")
    /\ \E value \in {calls[i].arg} \cup (IF ok THEN {} ELSE {world.value}) :
          world' = [world EXCEPT !.value = value]
    /\ view' = [view EXCEPT !.edited = @ \/ ~ok,
                            !.calm = Calmly(i, ok) /\ ~InFlight({"settings"}),
                            !.saving = @ /\ ok]
    /\ Reply(i, IF ok /\ On("Environment") THEN <<Call("store", None)>> ELSE <<>>)
    /\ UNCHANGED <<page, clicks>>

\* fetchSettings of the settings store never throws.
StoreArrives(i, ok) ==
    /\ On("Environment") /\ i \in Indices("store")
    /\ world' = IF ok THEN [world EXCEPT !.store = world.value] ELSE world
    /\ view' = [view EXCEPT !.saving = FALSE, !.calm = Calmly(i, ok)]
    /\ Reply(i, <<>>) /\ UNCHANGED <<page, clicks>>

\* The section tested last is the one that shows it is being tested.
testConnection(type) ==
    /\ OnForm /\ view.testing # type
    /\ view' = [view EXCEPT !.testing = type]
    /\ Send(<<Call("probe", type)>>) /\ User

ProbeAnswered(i) ==
    /\ On("Environment") /\ i \in Indices("probe")
    /\ view' = [view EXCEPT !.testing = None] /\ Reply(i, <<>>) /\ Answer

handleReadKubeconfig ==
    /\ OnForm /\ ~view.reading
    /\ view' = [view EXCEPT !.reading = TRUE]
    /\ Send(<<Call("kubeconfig", None)>>) /\ User

\* The file, if there is one, goes into the form.
KubeconfigArrives(i, found) ==
    /\ On("Environment") /\ i \in Indices("kubeconfig")
    /\ view' = IF found THEN [view EXCEPT !.value = "read", !.edited = TRUE, !.reading = FALSE]
               ELSE [view EXCEPT !.reading = FALSE]
    /\ Reply(i, <<>>) /\ Answer

handleLoadNamespaces ==
    /\ OnForm /\ ~view.listing
    /\ view' = [view EXCEPT !.listing = TRUE]
    /\ Send(<<Call("namespaces", None)>>) /\ User

\* The first namespace is filled in where the form has none.
NamespacesArrive(i, fills) ==
    /\ On("Environment") /\ i \in Indices("namespaces")
    /\ view' = [view EXCEPT !.listing = FALSE,
                            !.value = IF fills THEN "typed" ELSE @,
                            !.edited = @ \/ fills]
    /\ Reply(i, <<>>) /\ Answer

-----------------------------------------------------------------------------
Enter ==
    \/ EnterApps \/ EnterBuildConfigs \/ EnterConfigItems \/ EnterEnvironment
    \/ \E tab \in {"general", "notifications"} : EnterSettings(tab)

Leave == page \in Tables \cup Forms /\ LeaveWith({}, {})

UserActs ==
    \/ \E text \in Searches : TypeSearch(text)
    \/ \E n \in PageNos : handlePageChange(n)
    \/ handleSearch \/ handleSizeChange
    \/ handleAdd \/ CloseForm \/ handleSave
    \/ \E c \in Contents : FillForm(c)
    \/ \E id \in Ids : handleEdit(id) \/ handleDelete(id) \/ handleTestNotify(id)
    \/ \E tab \in {"general", "notifications"} : SwitchTab(tab)
    \/ TypeSetting \/ handleSaveGeneral \/ saveSettings
    \/ \E type \in Probes : testConnection(type)
    \/ handleReadKubeconfig \/ handleLoadNamespaces

Arrivals ==
    \E i \in DOMAIN calls :
       \/ TestAnswered(i) \/ ProbeAnswered(i)
       \/ \E ok \in BOOLEAN :
             \/ RowsArrive(i, ok) \/ RowSaved(i, ok) \/ RowDeleted(i, ok)
             \/ SettingsArrive(i, ok) \/ SettingsPut(i, ok) \/ StoreArrives(i, ok)
             \/ KubeconfigArrives(i, ok) \/ NamespacesArrive(i, ok)

Next == page \in Tables \cup Forms /\ (UserActs \/ Arrivals)

-----------------------------------------------------------------------------
FormType == [of : Ids \cup {None}, content : Contents \cup {None}]

TypeOK ==
    /\ page \in Tables \cup Forms => world \in Served
    /\ page \in Tables =>
         /\ view.rows = None \/ view.rows.seen \in [Ids -> Contents \cup {None}]
         /\ view.page \in PageNos /\ view.search \in Searches \cup {None}
         /\ view.edit \in Ids \cup {None} /\ view.form \in FormType \cup {None}
         /\ {view.loading, view.typing, view.calm} \subseteq BOOLEAN
    /\ On("Environment") =>
         /\ view.testing \in Probes \cup {None}
         /\ {view.edited, view.loading, view.saving, view.reading, view.listing,
             view.calm} \subseteq BOOLEAN

BusyEnds ==
    /\ page \in Tables /\ view.loading => InFlight({"list"})
    /\ On("Environment") =>
         /\ view.loading => InFlight({"settings"})
         /\ view.saving => InFlight({"put", "store"})
         /\ view.testing # None => \E i \in Indices("probe") : calls[i].arg = view.testing
         /\ view.reading => InFlight({"kubeconfig"})
         /\ view.listing => InFlight({"namespaces"})

\* The row an update goes to is the one the form was filled from, and a form
\* that was opened empty makes a new row.
WritesOwnSubject ==
    page \in Tables =>
    \A i \in Indices("save") : calls[i].arg.id = calls[i].arg.form.of

\* Once everything is answered, in turn, the table shows what the server holds
\* for the page and the text of its controls.
RowsOfControls ==
    page \in Tables /\ calls = <<>> /\ view.calm /\ view.tab # "general" =>
    /\ view.rows.seen = world.rows /\ view.rows.page = view.page
    /\ view.typing \/ view.rows.search = view.search

\* A form nobody edited since it was loaded or saved is what the server holds,
\* and the namespace the rest of the console works in is the saved one.
FormIsServed ==
    page \in Forms /\ calls = <<>> /\ view.calm =>
    /\ view.edited \/ (On("Settings") /\ view.tab = "notifications")
         \/ view.value = world.value
    /\ On("Environment") => world.store = world.value
==============================================================================
