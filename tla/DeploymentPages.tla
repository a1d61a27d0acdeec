--------------------------- MODULE DeploymentPages ---------------------------
(***************************************************************************)
(* The four views of deployment: the components with their switches and    *)
(* dialogs, the global configuration with the offline bundle, the list of  *)
(* runs with the dialog that starts one, and one run with its log stream.  *)
(***************************************************************************)
EXTENDS Console

CONSTANTS Components,
          PipelinesOf,  \* the pipeline components of each component, a sequence
          Modes         \* the operations of the dialog of a run

Pipes == UNION {Range(PipelinesOf[c]) : c \in Components}

On(p) == page = p
Views == {"Components", "Global", "Runs", "RunDetail"}

\* Every component is made of some pipeline components, a deployment is one of the
\* operations, and the null value is none of all these.
DeploymentConstants ==
    /\ PipelinesOf \in [Components -> Seq(Pipes)]
    /\ \A c \in Components : PipelinesOf[c] # <<>>
    /\ "deploy" \in Modes /\ None \notin Components \cup Pipes \cup Views

-----------------------------------------------------------------------------
(* DeploymentComponentsView.  "world" is the set of components the server  *)
(* has enabled.  Host ids and parameters are represented by the component  *)
(* (or pipeline component) whose they are.  "open" holds the dialogs shown,*)
(* the topmost last: two of them open by themselves, when an answer comes. *)

load(enabled) ==
    Mount("Components",
          [loading |-> TRUE, listed |-> FALSE, enabled |-> {}, open |-> <<>>,
           hosts |-> [of |-> None, sel |-> None, saving |-> FALSE],
           hostIds |-> [c \in Components |-> c],
           params |-> [pipes |-> <<>>, pipe |-> None, rows |-> None, saving |-> FALSE],
           tasks |-> [of |-> None, items |-> None, loading |-> FALSE],
           calm |-> TRUE],
          enabled, <<Call("components", None)>>)

ComponentsArrive(i, ok) ==
    /\ On("Components") /\ i \in Indices("components")
    /\ view' = [view EXCEPT !.loading = FALSE, !.listed = ok,
                            !.enabled = IF ok THEN world ELSE @]
    /\ Reply(i, <<>>) /\ Answer

\* The table: under every dialog, and without rows until they are listed.
Table == On("Components") /\ view.listed /\ view.open = <<>>

Flip(set, c) == IF c \in set THEN set \ {c} ELSE set \cup {c}

\* The switch flips its row first; the names of all enabled rows are sent.
toggleEnabled(c) ==
    /\ Table
    /\ view' = [view EXCEPT !.enabled = Flip(@, c)]
    /\ Send(<<Call("enable", [row |-> c, names |-> Flip(view.enabled, c)])>>) /\ User

\* faulty: a refused switch is not flipped back.
Bug_EnabledAnswered(i, ok, taken) ==
    /\ On("Components") /\ i \in Indices("enable") /\ (ok => taken)
    /\ view' = [view EXCEPT !.calm = @ /\ ok = taken /\ Indices("enable") = {i}]
    /\ world' = IF taken THEN calls[i].arg.names ELSE world
    /\ Reply(i, <<>>) /\ UNCHANGED <<page, clicks>>

\* The server takes the names, or refuses them, or takes them too late for the
\* answer; the last two flip the row back.
EnabledAnswered(i, ok, taken) ==
    /\ On("Components") /\ i \in Indices("enable") /\ (ok => taken)
    /\ view' = [view EXCEPT
                  !.enabled = IF ok THEN @ ELSE Flip(@, calls[i].arg.row),
                  !.calm = @ /\ ok = taken
                             /\ IF ok THEN \A j \in Indices("enable") : i <= j
                                      ELSE Indices("enable") = {i}]
    /\ world' = IF taken THEN calls[i].arg.names ELSE world
    /\ Reply(i, <<>>) /\ UNCHANGED <<page, clicks>>

Shown(d) == On("Components") /\ view.open # <<>> /\ view.open[Len(view.open)] = d

Opened(d) == IF d \in Range(view.open) THEN view.open ELSE Append(view.open, d)
Closed(d) == IF d \in Range(view.open)
             THEN Without(view.open, CHOOSE k \in DOMAIN view.open : view.open[k] = d)
             ELSE view.open

CloseTop ==
    /\ On("Components") /\ view.open # <<>>
    /\ view' = [view EXCEPT !.open = SubSeq(@, 1, Len(@) - 1)] /\ UNCHANGED calls /\ User

openHosts(c) ==
    /\ Table
    /\ view' = [view EXCEPT !.hosts.of = c]
    /\ Send(<<Call("targets", c)>>) /\ User

\* The hosts saved for the row, or, on a failure, those its row was listed with.
TargetsArrive(i, ok) ==
    /\ On("Components") /\ i \in Indices("targets")
    /\ LET c == calls[i].arg
       IN  view' = [view EXCEPT !.hosts.sel = IF ok THEN c ELSE view.hostIds[c],
                                !.open = Opened("hosts"), !.calm = @ /\ calls[i].last]
    /\ Reply(i, <<>>) /\ Answer

saveHosts ==
    /\ Shown("hosts") /\ ~view.hosts.saving
    /\ view' = [view EXCEPT !.hosts.saving = TRUE]
    /\ Send(<<Call("putTargets", [of |-> view.hosts.of, hosts |-> view.hosts.sel])>>)
    /\ User

\* After the await the row and the selection are read again: when another row's
\* hosts were asked for meanwhile, that row gets the ids that were saved.
HostsSaved(i, ok) ==
    /\ On("Components") /\ i \in Indices("putTargets")
    /\ LET shown == [of |-> view.hosts.of, hosts |-> view.hosts.sel]
           idle == [view EXCEPT !.hosts.saving = FALSE, !.calm = @ /\ calls[i].arg = shown]
       IN  view' = IF ok THEN [idle EXCEPT !.hostIds[view.hosts.of] = view.hosts.sel,
                                           !.open = Closed("hosts")]
                   ELSE idle
    /\ Reply(i, <<>>) /\ Answer

\* openOverride: without a pipeline component there is nothing to wait for.
openOverride(c) ==
    /\ Table
    /\ LET pipes == PipelinesOf[c]
           p == IF pipes = <<>> THEN None ELSE Head(pipes)
           rows == IF p = None THEN None ELSE view.params.rows
       IN  /\ view' = [view EXCEPT !.params = [@ EXCEPT !.pipes = pipes, !.pipe = p,
                                                        !.rows = rows],
                                   !.open = IF p = None THEN Opened("params") ELSE @]
           /\ Send(IF p = None THEN <<>> ELSE <<Call("override", [of |-> p, opens |-> TRUE])>>)
    /\ User

\* Another pipeline component is picked in the dialog.
loadOverrideRows(p) ==
    /\ Shown("params") /\ p \in Range(view.params.pipes) \ {view.params.pipe}
    /\ view' = [view EXCEPT !.params.pipe = p]
    /\ Send(<<Call("override", [of |-> p, opens |-> FALSE])>>) /\ User

\* A failure shows an empty list.
OverrideArrives(i, ok) ==
    /\ On("Components") /\ i \in Indices("override")
    /\ LET o == calls[i].arg
       IN  view' = [view EXCEPT !.params.rows = IF ok THEN o.of ELSE None,
                                !.open = IF o.opens THEN Opened("params") ELSE @,
                                !.calm = @ /\ calls[i].last]
    /\ Reply(i, <<>>) /\ Answer

\* The defaults of the pipeline component selected when they come.
restoreDefaults ==
    /\ Shown("params")
    /\ Send(<<Call("defaults", None)>>) /\ UNCHANGED view /\ User

DefaultsArrive(i, ok) ==
    /\ On("Components") /\ i \in Indices("defaults")
    /\ view' = IF ok THEN [view EXCEPT !.params.rows = view.params.pipe] ELSE view
    /\ Reply(i, <<>>) /\ Answer

\* "early": the rows of the selection are still on their way.
saveOverride ==
    /\ Shown("params") /\ ~view.params.saving
    /\ view' = [view EXCEPT !.params.saving = TRUE]
    /\ Send(<<Call("putOverride", [of |-> view.params.pipe, rows |-> view.params.rows,
                                   early |-> InFlight({"override"})])>>)
    /\ User

\* faulty: no finally, a failure leaves the button spinning.
Bug_OverrideSaved(i, ok) ==
    /\ On("Components") /\ i \in Indices("putOverride")
    /\ view' = IF ok THEN [view EXCEPT !.params.saving = FALSE, !.open = Closed("params")]
               ELSE view
    /\ Reply(i, <<>>) /\ Answer

OverrideSaved(i, ok) ==
    /\ On("Components") /\ i \in Indices("putOverride")
    /\ view' = [view EXCEPT !.params.saving = FALSE,
                            !.open = IF ok THEN Closed("params") ELSE @]
    /\ Reply(i, <<>>) /\ Answer

openTasks(c) ==
    /\ Table
    /\ view' = [view EXCEPT !.tasks = [@ EXCEPT !.of = c, !.loading = TRUE],
                            !.open = Opened("tasks")]
    /\ Send(<<Call("tasks", c)>>) /\ User

TasksArrive(i, ok) ==
    /\ On("Components") /\ i \in Indices("tasks")
    /\ view' = [view EXCEPT !.tasks.items = IF ok THEN calls[i].arg ELSE None,
                            !.tasks.loading = FALSE, !.calm = @ /\ calls[i].last]
    /\ Reply(i, <<>>) /\ Answer

-----------------------------------------------------------------------------
(* DeploymentGlobalConfigView: two cards, each under an overlay of its own.*)

EnterGlobal ==
    Mount("Global",
          [loading |-> TRUE, cfg |-> "defaults", saving |-> FALSE, offline |-> TRUE,
           initializing |-> FALSE, verifying |-> FALSE, alert |-> FALSE, calm |-> TRUE],
          None, <<Call("config", None), Call("offline", "mount")>>)

ConfigArrives(i, ok) ==
    /\ On("Global") /\ i \in Indices("config")
    /\ view' = [view EXCEPT !.cfg = IF ok THEN "server" ELSE @, !.loading = FALSE,
                            !.calm = @ /\ ok]
    /\ Reply(i, <<>>) /\ Answer

save ==
    /\ On("Global") /\ ~view.loading /\ ~view.saving /\ ~view.alert
    /\ view' = [view EXCEPT !.saving = TRUE]
    /\ Send(<<Call("putConfig", view.cfg)>>) /\ User

initialize ==
    /\ On("Global") /\ ~view.offline /\ ~view.initializing /\ ~view.alert
    /\ view' = [view EXCEPT !.initializing = TRUE]
    /\ Send(<<Call("install", None)>>) /\ User

\* Installed: the status is asked for again, and only its answer ends the spinner.
InstallAnswered(i, ok) ==
    /\ On("Global") /\ i \in Indices("install")
    /\ view' = [view EXCEPT !.offline = ok \/ @, !.initializing = ok]
    /\ Reply(i, IF ok THEN <<Call("offline", "install")>> ELSE <<>>) /\ Answer

loadOffline(i) ==
    /\ On("Global") /\ i \in Indices("offline")
    /\ view' = [view EXCEPT !.offline = FALSE,
                            !.initializing = @ /\ calls[i].arg # "install"]
    /\ Reply(i, <<>>) /\ Answer

verify ==
    /\ On("Global") /\ ~view.offline /\ ~view.verifying /\ ~view.alert
    /\ view' = [view EXCEPT !.verifying = TRUE]
    /\ Send(<<Call("verify", None)>>) /\ User

\* Missing files are listed in a box that has to be closed.
VerifyAnswered(i, missing) ==
    /\ On("Global") /\ i \in Indices("verify")
    /\ view' = [view EXCEPT !.verifying = missing, !.alert = missing]
    /\ Reply(i, <<>>) /\ Answer

CloseAlert ==
    /\ On("Global") /\ view.alert
    /\ view' = [view EXCEPT !.verifying = FALSE, !.alert = FALSE]
    /\ UNCHANGED calls /\ User

ConfigSaved(i) ==
    /\ On("Global") /\ i \in Indices("putConfig")
    /\ view' = [view EXCEPT !.saving = FALSE]
    /\ Reply(i, <<>>) /\ Answer

-----------------------------------------------------------------------------
(* DeploymentRunsView: the list, and the dialog that starts a run.         *)

EmptyForm == [mode |-> "deploy", component |-> None, hosts |-> None, dry |-> FALSE]

EnterRuns ==
    \E blocked \in SUBSET Components :
        Mount("Runs",
              [loading |-> TRUE, dialog |-> FALSE, fetching |-> FALSE, listed |-> FALSE,
               submitting |-> FALSE, previewing |-> FALSE, preview |-> None,
               form |-> EmptyForm, blocked |-> blocked, calm |-> TRUE],
              None, <<Call("runs", None)>>)

\* The refresh button and the pagination.
loadRuns ==
    /\ On("Runs") /\ ~view.dialog
    /\ Load("runs", view, None) /\ User

RunsArrive(i) ==
    /\ On("Runs") /\ i \in Indices("runs")
    /\ view' = [view EXCEPT !.loading = FALSE]
    /\ Reply(i, <<>>) /\ Answer

openDialog ==
    /\ On("Runs") /\ ~view.dialog
    /\ view' = [view EXCEPT !.dialog = TRUE, !.fetching = TRUE, !.preview = None,
                            !.form = EmptyForm]
    /\ Send(<<Call("choices", None)>>) /\ User

ChoicesArrive(i, ok) ==
    /\ On("Runs") /\ i \in Indices("choices")
    /\ view' = [view EXCEPT !.fetching = FALSE, !.listed = @ \/ ok]
    /\ Reply(i, <<>>) /\ Answer

CloseDialog ==
    /\ On("Runs") /\ view.dialog
    /\ view' = [view EXCEPT !.dialog = FALSE] /\ UNCHANGED calls /\ User

\* The overlay covers the form, not the buttons under it.
Form == On("Runs") /\ view.dialog /\ ~view.fetching

\* faulty: the plan of the last operation stays.
Bug_PickMode(m) ==
    /\ Form /\ m # view.form.mode
    /\ view' = [view EXCEPT !.form = [@ EXCEPT !.mode = m, !.component = None, !.hosts = None]]
    /\ UNCHANGED calls /\ User

\* watch(form.mode): what was picked for another operation is dropped.
PickMode(m) ==
    /\ Form /\ m # view.form.mode
    /\ view' = [view EXCEPT !.preview = None,
                            !.form = [@ EXCEPT !.mode = m, !.component = None, !.hosts = None]]
    /\ UNCHANGED calls /\ User

\* faulty: the hosts of the last component stay.
Bug_onComponentChange(c) ==
    /\ Form /\ view.listed /\ view.form.mode # "cleanup" /\ c # view.form.component
    /\ view' = [view EXCEPT !.preview = None, !.form.component = c]
    /\ Send(<<Call("formTargets", c)>>) /\ User

onComponentChange(c) ==
    /\ Form /\ view.listed /\ view.form.mode # "cleanup" /\ c # view.form.component
    /\ view' = [view EXCEPT !.preview = None,
                            !.form = [@ EXCEPT !.component = c, !.hosts = None]]
    /\ Send(<<Call("formTargets", c)>>) /\ User

FormTargetsArrive(i, ok) ==
    /\ On("Runs") /\ i \in Indices("formTargets")
    /\ view' = IF ok THEN [view EXCEPT !.form.hosts = calls[i].arg,
                                       !.calm = @ /\ calls[i].last]
               ELSE view
    /\ Reply(i, <<>>) /\ Answer

PickDryRun ==
    /\ Form
    /\ view' = [view EXCEPT !.form.dry = ~@] /\ UNCHANGED calls /\ User

\* A component that is not "not_deployed" blocks a real deployment.
blockedByState ==
    /\ view.form.mode = "deploy" /\ ~view.form.dry
    /\ view.listed /\ view.form.component \in view.blocked

buildBody ==
    [mode |-> view.form.mode, dry |-> view.form.dry,
     component |-> IF view.form.mode = "cleanup" THEN None ELSE view.form.component,
     hosts |-> IF view.form.mode = "cleanup" THEN None ELSE view.form.hosts]

doPreview ==
    /\ On("Runs") /\ view.dialog /\ ~view.previewing
    /\ view' = [view EXCEPT !.previewing = TRUE, !.preview = None]
    /\ Send(<<Call("preview", buildBody)>>) /\ User

Plan(body) == [mode |-> body.mode, component |-> body.component]

PreviewArrives(i, ok) ==
    /\ On("Runs") /\ i \in Indices("preview")
    /\ LET plan == Plan(calls[i].arg)
       IN  view' = [view EXCEPT !.previewing = FALSE,
                                !.preview = IF ok THEN plan ELSE @,
                                !.calm = @ /\ plan = Plan(buildBody)]
    /\ Reply(i, <<>>) /\ Answer

doSubmit ==
    /\ On("Runs") /\ view.dialog /\ ~view.submitting /\ ~blockedByState
    /\ view' = [view EXCEPT !.submitting = TRUE]
    /\ Send(<<Call("createRun", buildBody)>>) /\ User

\* A success closes the dialog and goes to the run (Leave, then Enter).
RunCreated(i, ok) ==
    /\ On("Runs") /\ i \in Indices("createRun")
    /\ view' = [view EXCEPT !.submitting = FALSE, !.dialog = @ /\ ~ok]
    /\ Reply(i, <<>>) /\ Answer

-----------------------------------------------------------------------------
(* DeploymentRunDetailView.  "world" is the status of the run; a call for  *)
(* it carries the status it was sent at, the earliest it may answer with.  *)

loadRun == Call("run", world)

EnterRunDetail ==
    \E status \in {"running", "ended"} :
        Mount("RunDetail", [run |-> None, es |-> "none", calm |-> TRUE], status,
              <<Call("firstRun", status)>>)

\* loadRun answered; the first time, onMounted goes on with the history.
RunArrives(i, ok) ==
    /\ calls[i].op \in {"run", "firstRun"}
    /\ LET first == calls[i].op = "firstRun"
       IN  /\ \/ /\ On("RunDetail")
                 /\ \E s \in {calls[i].arg, world} :
                       view' = [view EXCEPT !.run = IF ok THEN s ELSE @,
                                            !.calm = Calmly(i, ok)]
              \/ page = None /\ first /\ UNCHANGED view
           /\ Reply(i, IF first /\ ok THEN <<Call("history", None)>> ELSE <<>>)
    /\ Answer

\* subscribe: the stream is opened whether or not the view is still there.
HistoryArrives(i, ok) ==
    /\ i \in Indices("history")
    /\ \/ /\ On("RunDetail") /\ view' = IF ok THEN [view EXCEPT !.es = "open"] ELSE view
          /\ UNCHANGED world
       \/ /\ page = None /\ ok /\ world' = world \cup {Residue("stream", TRUE)} /\ UNCHANGED view
       \/ page = None /\ ~ok /\ UNCHANGED <<view, world>>
    /\ Reply(i, <<>>) /\ UNCHANGED <<page, clicks>>

\* The run ends on the server; only then its stream says so.
RunEnds ==
    /\ On("RunDetail") /\ world = "running" /\ world' = "ended"
    /\ UNCHANGED <<page, view, calls, clicks>>

StreamDone ==
    /\ On("RunDetail") /\ view.es = "open" /\ world = "ended"
    /\ view' = [view EXCEPT !.es = "done"]
    /\ Send(<<loadRun>>) /\ Answer

\* es.onerror closes for good: the browser does not reconnect.
StreamFails ==
    /\ On("RunDetail") /\ view.es = "open"
    /\ view' = [view EXCEPT !.es = "lost"] /\ UNCHANGED calls /\ Answer

handleCancel ==
    /\ On("RunDetail") /\ view.run = "running"
    /\ Send(<<Call("cancelRun", None)>>) /\ UNCHANGED view /\ User

CancelAnswered(i, ok) ==
    /\ On("RunDetail") /\ i \in Indices("cancelRun")
    /\ Reply(i, IF ok THEN <<loadRun>> ELSE <<>>) /\ UNCHANGED view /\ Answer

\* The route of the new run shows the same component, and runId stays.
handleRollback ==
    /\ On("RunDetail") /\ view.run = "ended"
    /\ Send(<<Call("rollbackRun", None)>>) /\ UNCHANGED view /\ User

RollbackAnswered(i) ==
    /\ On("RunDetail") /\ i \in Indices("rollbackRun")
    /\ Reply(i, <<>>) /\ UNCHANGED view /\ Answer

\* onBeforeUnmount closes the stream there is; a mount still under way goes on.
LeaveRunDetail ==
    /\ On("RunDetail")
    /\ LeaveWith({}, {"firstRun", "history"})

LeavePlain == (On("Components") \/ On("Global") \/ On("Runs")) /\ LeaveWith({}, {})

-----------------------------------------------------------------------------
Enter ==
    \/ \E enabled \in SUBSET Components : load(enabled)
    \/ EnterGlobal \/ EnterRuns \/ EnterRunDetail
Leave == LeavePlain \/ LeaveRunDetail

UserActs ==
    \/ \E c \in Components :
          \/ toggleEnabled(c) \/ openHosts(c) \/ openOverride(c) \/ openTasks(c)
          \/ onComponentChange(c)
          \/ \E p \in Range(PipelinesOf[c]) : loadOverrideRows(p)
    \/ CloseTop \/ saveHosts \/ restoreDefaults \/ saveOverride
    \/ save \/ initialize \/ verify \/ CloseAlert
    \/ loadRuns \/ openDialog \/ CloseDialog \/ PickDryRun \/ doPreview \/ doSubmit
    \/ \E m \in Modes : PickMode(m)
    \/ handleCancel \/ handleRollback

Arrivals ==
    \/ \E i \in DOMAIN calls :
          \/ ConfigSaved(i) \/ loadOffline(i) \/ RunsArrive(i) \/ RollbackAnswered(i)
          \/ \E ok \in BOOLEAN :
                \/ ComponentsArrive(i, ok) \/ TargetsArrive(i, ok) \/ HostsSaved(i, ok)
                \/ OverrideArrives(i, ok) \/ DefaultsArrive(i, ok) \/ OverrideSaved(i, ok)
                \/ TasksArrive(i, ok) \/ ConfigArrives(i, ok) \/ InstallAnswered(i, ok)
                \/ VerifyAnswered(i, ok) \/ ChoicesArrive(i, ok) \/ PreviewArrives(i, ok)
                \/ FormTargetsArrive(i, ok) \/ RunCreated(i, ok) \/ RunArrives(i, ok)
                \/ HistoryArrives(i, ok) \/ CancelAnswered(i, ok)
                \/ \E taken \in BOOLEAN : EnabledAnswered(i, ok, taken)
    \/ RunEnds \/ StreamDone \/ StreamFails

Next ==
    \/ page \in Views /\ UserActs
    \/ page \in Views \cup {None} /\ Arrivals

-----------------------------------------------------------------------------
TypeOK ==
    /\ On("Components") =>
         /\ view.enabled \subseteq Components /\ world \subseteq Components
         /\ view.open \in Seq({"hosts", "params", "tasks"})
         /\ view.hosts \in [of : Components \cup {None}, sel : Components \cup {None},
                            saving : BOOLEAN]
         /\ view.hostIds \in [Components -> Components]
         /\ view.params.pipe \in Pipes \cup {None}
         /\ view.params.rows \in Pipes \cup {None}
         /\ view.tasks \in [of : Components \cup {None}, items : Components \cup {None},
                            loading : BOOLEAN]
         /\ {view.loading, view.listed, view.params.saving, view.calm} \subseteq BOOLEAN
    /\ On("Global") =>
         /\ view.cfg \in {"defaults", "server"}
         /\ {view.loading, view.saving, view.offline, view.initializing, view.verifying,
             view.alert, view.calm} \subseteq BOOLEAN
    /\ On("Runs") =>
         /\ view.form \in [mode : Modes, component : Components \cup {None},
                           hosts : Components \cup {None}, dry : BOOLEAN]
         /\ view.preview \in [mode : Modes, component : Components \cup {None}] \cup {None}
         /\ {view.loading, view.dialog, view.fetching, view.listed, view.submitting,
             view.previewing, view.calm} \subseteq BOOLEAN
    /\ On("RunDetail") =>
         /\ view.run \in {"running", "ended", None} /\ world \in {"running", "ended"}
         /\ view.es \in {"none", "open", "done", "lost"} /\ view.calm \in BOOLEAN

\* An overlay or a spinner has a call in flight, or a box to close, that ends it.
BusyEnds ==
    /\ On("Components") =>
         /\ view.loading => InFlight({"components"})
         /\ view.hosts.saving => InFlight({"putTargets"})
         /\ view.params.saving => InFlight({"putOverride"})
         /\ view.tasks.loading => InFlight({"tasks"})
    /\ On("Global") =>
         /\ view.loading => InFlight({"config"})
         /\ view.saving => InFlight({"putConfig"})
         /\ view.offline => InFlight({"offline"})
         /\ view.initializing => InFlight({"install", "offline"})
         /\ view.verifying => InFlight({"verify"}) \/ view.alert
    /\ On("Runs") =>
         /\ view.loading => InFlight({"runs"})
         /\ view.fetching => InFlight({"choices"})
         /\ view.submitting => InFlight({"createRun"})
         /\ view.previewing => InFlight({"preview"})

(***************************************************************************)
(* When nothing is in flight, the switches show what the server has        *)
(* enabled, as long as no two saves crossed, none failed while another was *)
(* under way, and none was taken by the server after the browser gave up.  *)
(***************************************************************************)
SwitchesMatchServer ==
    On("Components") /\ view.listed /\ view.calm /\ ~InFlight({"enable"}) =>
    view.enabled = world

(***************************************************************************)
(* As long as no answer was overtaken by the one to a later question (nor  *)
(* a save of hosts by a look at another row's):                            *)
(* hosts are saved for the component they were shown for, parameters for   *)
(* the pipeline component they were shown for (unless saved while they     *)
(* were on their way), the configuration only after it was loaded, and a   *)
(* run is started with the hosts of its own component.                     *)
(***************************************************************************)
WritesOwnSubject ==
    /\ On("Components") /\ view.calm =>
         /\ \A i \in Indices("putTargets") : calls[i].arg.of = calls[i].arg.hosts
         /\ \A i \in Indices("putOverride") :
               LET w == calls[i].arg IN w.early \/ w.rows \in {w.of, None}
    /\ On("Global") /\ view.calm => \A i \in Indices("putConfig") : calls[i].arg = "server"
    /\ On("Runs") /\ view.calm =>
         \A i \in Indices("createRun") \cup Indices("preview") :
            LET w == calls[i].arg IN w.component = None \/ w.hosts \in {w.component, None}

\* The plan previewed is that of the operation and component now picked,
\* unless they were changed while it was on its way.
PreviewOfForm ==
    On("Runs") /\ view.calm /\ view.preview # None => view.preview = Plan(buildBody)

\* Once the stream has ended and what it set off is answered, the badge of the
\* run is no longer "running" (no answer failed or came out of order).
BadgeAfterStream ==
    On("RunDetail") /\ view.calm /\ view.es = "done" /\ ~InFlight({"run"}) =>
    view.run = "ended"
==============================================================================
