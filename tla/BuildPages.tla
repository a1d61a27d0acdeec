----------------------------- MODULE BuildPages -----------------------------
(***************************************************************************)
(* The five views of the build side: the tasks with their dialogs, the     *)
(* build records, the build queue with the batches that wait for their     *)
(* deployment, one pipeline with its log stream, and the dashboard.        *)
(***************************************************************************)
EXTENDS Console

CONSTANTS TaskIds,
          Filters,    \* what is typed or chosen above a list
          Pages,      \* page numbers
          RecordsOf,  \* for each waiting batch, the pipelines of its records
          Stages

On(p) == page = p
Views == {"Tasks", "Releases", "Queue", "Pipeline", "Dashboard"}

-----------------------------------------------------------------------------
(* TaskListView and ReleaseListView: rows by filter and page number.  A    *)
(* search of the tasks goes back to page 1, one of the records does not.   *)

List == page \in {"Tasks", "Releases"}

EnterTasks ==
    \E loaded \in BOOLEAN :
        Mount("Tasks",
              [loading |-> TRUE, filter |-> None, page |-> 1, rows |-> None,
               selected |-> {}, dialog |-> None, box |-> None, calm |-> TRUE],
              None,
              <<IF loaded THEN Call("list", [filter |-> None, page |-> 1])
                ELSE Call("settings", None)>>)

EnterReleases ==
    \E app \in Filters \cup {None} :
        Mount("Releases",
              [loading |-> TRUE, filter |-> app, page |-> 1, rows |-> None,
               selected |-> {}, dialog |-> None, box |-> None, calm |-> TRUE],
              None, <<Call("list", [filter |-> app, page |-> 1])>>)

ListCall(refs) == Call("list", [filter |-> refs.filter, page |-> refs.page])

Covered(refs) == [refs EXCEPT !.loading = TRUE]

\* The settings came, or their default stays; then loadAll.
SettingsArrive(i) ==
    /\ On("Tasks") /\ i \in Indices("settings")
    /\ view' = Covered(view) /\ Reply(i, <<ListCall(view)>>) /\ Answer

Uncovered == List /\ view.dialog = None /\ view.box = None

\* handleSearch, and clearAppFilter of the records.
Search(filter) ==
    /\ Uncovered
    /\ LET refs == [view EXCEPT !.filter = filter,
                                !.page = IF On("Tasks") \/ filter = None THEN 1 ELSE @]
       IN  view' = Covered(refs) /\ Send(<<ListCall(refs)>>)
    /\ User

handlePageChange(n) ==
    /\ Uncovered /\ view.rows # None /\ n # view.page
    /\ LET refs == [view EXCEPT !.page = n]
       IN  view' = Covered(refs) /\ Send(<<ListCall(refs)>>)
    /\ User

\* Rows, or none; new rows end the selection of the old ones.
loadAll(i, ok) ==
    /\ List /\ i \in Indices("list")
    /\ view' = [view EXCEPT !.rows = IF ok THEN calls[i].arg ELSE None,
                            !.loading = FALSE, !.selected = {},
                            !.calm = @ /\ view.dialog = None]
    /\ Reply(i, <<>>) /\ Answer

Row == Uncovered /\ ~view.loading /\ view.rows # None

handleSelectionChange(t) ==
    /\ On("Tasks") /\ Row
    /\ view' = [view EXCEPT !.selected = IF t \in @ THEN @ \ {t} ELSE @ \cup {t}]
    /\ UNCHANGED calls /\ User

Dialog(kind, tasks) == [view EXCEPT !.dialog = [kind |-> kind, tasks |-> tasks]]

\* The form of an edit, and the branch of an execution, come from the row.
handleEdit(t) ==
    /\ On("Tasks") /\ Row
    /\ view' = Dialog("edit", {t}) /\ UNCHANGED calls /\ User

handleExecute(t) ==
    /\ On("Tasks") /\ Row
    /\ view' = Dialog("execute", {t}) /\ UNCHANGED calls /\ User

\* Above the table: never covered by its overlay.
handleBatchExecute ==
    /\ On("Tasks") /\ Uncovered /\ view.selected # {}
    /\ view' = Dialog("batch", view.selected) /\ UNCHANGED calls /\ User

handleCreate ==
    /\ On("Tasks") /\ Uncovered
    /\ view' = Dialog("create", {}) /\ UNCHANGED calls /\ User

CloseDialog ==
    /\ On("Tasks") /\ view.dialog # None
    /\ view' = [view EXCEPT !.dialog = None] /\ UNCHANGED calls /\ User

\* handleSaveCreate, handleSaveEdit and handleSubmitExecute.  No button is
\* disabled meanwhile.  A batch names the tasks selected by then ("picked" are
\* those of its dialog).
Submit ==
    /\ On("Tasks") /\ view.dialog # None
    /\ LET d == view.dialog
       IN  Send(<<Call("submit", [kind |-> d.kind, picked |-> d.tasks,
                                  tasks |-> IF d.kind = "batch" THEN view.selected
                                            ELSE d.tasks])>>)
    /\ UNCHANGED view /\ User

\* Success closes the dialog of the kind; an execution goes to the queue.
Submitted(i, ok) ==
    /\ On("Tasks") /\ i \in Indices("submit")
    /\ LET kind == calls[i].arg.kind
           same == view.dialog # None /\ view.dialog.kind = kind
           reloads == ok /\ kind \in {"create", "edit"}
       IN  /\ view' = [view EXCEPT !.dialog = IF ok /\ same THEN None ELSE @,
                                   !.loading = @ \/ reloads]
           /\ Reply(i, IF reloads THEN <<ListCall(view)>> ELSE <<>>)
    /\ Answer

\* handleDelete of a row, and handleDeploy of a record that waits for it.
AskAbout(kind) ==
    /\ Row /\ (kind = "deploy" => On("Releases"))
    /\ view' = [view EXCEPT !.box = kind] /\ UNCHANGED calls /\ User

AnswerBox(yes) ==
    /\ List /\ view.box # None
    /\ view' = [view EXCEPT !.box = None]
    /\ Send(IF yes THEN <<Call("touch", view.box)>> ELSE <<>>) /\ User

Touched(i, ok) ==
    /\ List /\ i \in Indices("touch")
    /\ view' = [view EXCEPT !.loading = @ \/ ok]
    /\ Reply(i, IF ok THEN <<ListCall(view)>> ELSE <<>>) /\ Answer

-----------------------------------------------------------------------------
(* BuildQueueView.  "world" is the set of pipelines whose image is ready.  *)

Batches == DOMAIN RecordsOf

\* The pipelines of a batch, each once, in the order of its records.
pipelineIds(records) ==
    LET ids[k \in 0 .. Len(records)] ==
          IF k = 0 THEN <<>>
          ELSE IF records[k] \in {None} \cup Range(ids[k - 1]) THEN ids[k - 1]
          ELSE Append(ids[k - 1], records[k])
    IN  ids[Len(records)]

Ready == UNION {Range(pipelineIds(RecordsOf[b])) : b \in Batches}

EnterQueue ==
    Mount("Queue",
          [loading |-> TRUE, timer |-> FALSE, shown |-> FALSE, drawer |-> None,
           records |-> None, box |-> None, triggered |-> {}],
          Ready, <<Call("firstQueue", None)>>)

\* load: both lists or none; the first time, onMounted goes on and sets the
\* timer, whether or not the view is still there.
load(i, ok) ==
    /\ calls[i].op \in {"queue", "firstQueue"}
    /\ LET first == calls[i].op = "firstQueue"
       IN  \/ /\ On("Queue")
              /\ view' = [view EXCEPT !.shown = ok, !.loading = FALSE, !.timer = @ \/ first]
              /\ UNCHANGED world
           \/ /\ page = None /\ first
              /\ world' = world \cup {Residue("interval", TRUE)} /\ UNCHANGED view
    /\ Reply(i, <<>>) /\ UNCHANGED <<page, clicks>>

\* setInterval(load, 5000), whether or not the last one was answered.
QueueTick ==
    /\ On("Queue") /\ view.timer
    /\ Send(<<Call("queue", None)>>) /\ UNCHANGED view /\ Answer

QueueRow == On("Queue") /\ view.shown /\ ~view.loading /\ view.drawer = None /\ view.box = None

showBatchDetail(b) ==
    /\ QueueRow
    /\ view' = [view EXCEPT !.drawer = b, !.records = None]
    /\ Send(<<Call("detail", b)>>) /\ User

\* The batch and its records come together, whichever was asked for last.
DetailArrives(i, ok) ==
    /\ On("Queue") /\ i \in Indices("detail")
    /\ LET b == calls[i].arg
       IN  view' = IF ok THEN [view EXCEPT !.records = b,
                                           !.drawer = IF @ = None THEN None ELSE b]
                   ELSE view
    /\ Reply(i, <<>>) /\ Answer

CloseDrawer ==
    /\ On("Queue") /\ view.drawer # None
    /\ view' = [view EXCEPT !.drawer = None] /\ UNCHANGED calls /\ User

\* handleCancel of a queued pipeline ("cancel"), handleDeployBatch of a batch.
AskQueue(what) ==
    /\ QueueRow
    /\ view' = [view EXCEPT !.box = what] /\ UNCHANGED calls /\ User

AnswerQueue(yes) ==
    /\ On("Queue") /\ view.box # None
    /\ view' = [view EXCEPT !.box = None]
    /\ Send(CASE ~yes -> <<>>
              [] view.box = "cancel" -> <<Call("cancelQueued", None)>>
              [] OTHER -> <<Call("records", view.box)>>)
    /\ User

QueuedCanceled(i, ok) ==
    /\ On("Queue") /\ i \in Indices("cancelQueued")
    /\ Reply(i, IF ok THEN <<Call("queue", None)>> ELSE <<>>) /\ UNCHANGED view /\ Answer

\* One after the other; when none is left, the batch is reported as triggered.
DeployNext(i, b, rest) ==
    IF rest = <<>>
    THEN /\ view' = [view EXCEPT !.triggered = @ \cup {b}]
         /\ Reply(i, <<Call("queue", None)>>)
    ELSE /\ Reply(i, <<Call("deploy", [batch |-> b, ids |-> rest])>>)
         /\ UNCHANGED view

handleDeployBatch(i, ok) ==
    /\ On("Queue") /\ i \in Indices("records")
    /\ LET b == calls[i].arg
       IN  IF ok THEN DeployNext(i, b, pipelineIds(RecordsOf[b]))
           ELSE Reply(i, <<>>) /\ UNCHANGED view
    /\ Answer

\* faulty: the loop goes on after a failure.
Bug_DeployAnswered(i, ok) ==
    /\ On("Queue") /\ i \in Indices("deploy")
    /\ LET d == calls[i].arg
       IN  /\ world' = world \ (IF ok THEN {Head(d.ids)} ELSE {})
           /\ DeployNext(i, d.batch, Tail(d.ids))
    /\ UNCHANGED <<page, clicks>>

\* The server deploys a pipeline that is ready; the first failure ends the rest.
DeployAnswered(i, ok) ==
    /\ On("Queue") /\ i \in Indices("deploy")
    /\ LET d == calls[i].arg
           done == Head(d.ids) \in world
       IN  /\ ok => done
           /\ \/ done /\ world' = world \ {Head(d.ids)}
              \/ ~ok /\ UNCHANGED world
           /\ IF ok THEN DeployNext(i, d.batch, Tail(d.ids))
              ELSE Reply(i, <<>>) /\ UNCHANGED view
    /\ UNCHANGED <<page, clicks>>

LeaveQueue ==
    /\ On("Queue")
    /\ LeaveWith({}, IF view.timer THEN {} ELSE {"firstQueue"})

-----------------------------------------------------------------------------
(* PipelineDetailView.  "world" is the status of the pipeline; a call for  *)
(* it carries the status it was sent at, the earliest it may answer with.  *)

EnterPipeline ==
    \E s \in {"PENDING", "RUNNING", "ended"} :
        Mount("Pipeline",
              [loading |-> TRUE, task |-> None, stage |-> None, log |-> None,
               mixed |-> FALSE, covered |-> FALSE, es |-> "none", timer |-> FALSE,
               calm |-> TRUE],
              s, <<Call("firstTask", s)>>)

\* onMounted: the failed, the running or the last stage is selected.
FirstTaskArrives(i, ok) ==
    /\ i \in Indices("firstTask")
    /\ \/ /\ On("Pipeline") /\ ok
          /\ \E s \in {calls[i].arg, world}, stage \in Stages :
                /\ view' = [view EXCEPT !.task = s, !.stage = stage, !.covered = TRUE]
                /\ Reply(i, <<Call("firstLogs", stage)>>)
       \/ /\ On("Pipeline") /\ ~ok
          /\ view' = [view EXCEPT !.loading = FALSE] /\ Reply(i, <<>>)
       \/ /\ page = None /\ UNCHANGED view
          /\ Reply(i, IF ok THEN <<Call("firstLogs", calls[i].arg)>> ELSE <<>>)
    /\ Answer

\* Of a running pipeline the stream is opened and the poll started, whether or
\* not the view is still there (the task that came first decides).
FirstLogsArrive(i, ok) ==
    /\ i \in Indices("firstLogs")
    /\ \/ /\ On("Pipeline")
          /\ LET runs == view.task = "RUNNING"
             IN  view' = [view EXCEPT !.log = IF ok THEN calls[i].arg ELSE None,
                                      !.covered = FALSE, !.loading = FALSE,
                                      !.es = IF runs THEN "open" ELSE @, !.timer = runs]
          /\ UNCHANGED world
       \/ /\ page = None /\ UNCHANGED view
          /\ world' = world \cup {Residue(kind, TRUE) :
                                  kind \in IF calls[i].arg = "RUNNING"
                                           THEN {"stream", "interval"} ELSE {}}
    /\ Reply(i, <<>>) /\ UNCHANGED <<page, clicks>>

\* The overlay of the mount covers the page.
selectStage(s) ==
    /\ On("Pipeline") /\ ~view.loading /\ view.task # None /\ s # view.stage
    /\ view' = [view EXCEPT !.stage = s, !.covered = TRUE]
    /\ Send(<<Call("logs", s)>>) /\ User

LogsArrive(i, ok) ==
    /\ On("Pipeline") /\ i \in Indices("logs")
    /\ view' = [view EXCEPT !.log = IF ok THEN calls[i].arg ELSE None, !.mixed = FALSE,
                            !.covered = FALSE, !.calm = @ /\ calls[i].last]
    /\ Reply(i, <<>>) /\ Answer

\* A live line goes under whatever stage is shown.
LogLine ==
    /\ On("Pipeline") /\ view.es = "open" /\ world = "RUNNING"
    /\ view' = [view EXCEPT !.mixed = TRUE] /\ UNCHANGED calls /\ Answer

\* The server starts the pipeline and ends it; its stream then says so.
ServerMoves ==
    /\ On("Pipeline") /\ world # "ended"
    /\ world' = IF world = "PENDING" THEN "RUNNING" ELSE "ended"
    /\ UNCHANGED <<page, view, calls, clicks>>

StreamDone ==
    /\ On("Pipeline") /\ view.es = "open" /\ world = "ended"
    /\ view' = [view EXCEPT !.es = "done", !.timer = FALSE]
    /\ Send(<<Call("task", world)>>) /\ Answer

\* startPolling: every 3 s.
Poll ==
    /\ On("Pipeline") /\ view.timer
    /\ Send(<<Call("poll", world)>>) /\ UNCHANGED view /\ Answer

\* refreshPipeline, which swallows a failure; a poll then stops itself when
\* the task shown is neither running nor pending.
refreshPipeline(i, ok) ==
    /\ On("Pipeline") /\ calls[i].op \in {"task", "poll"}
    /\ \E s \in {calls[i].arg, world} :
          LET shown == IF ok THEN s ELSE view.task
          IN  view' = [view EXCEPT !.task = shown,
                         !.timer = @ /\ (calls[i].op = "poll" => shown # "ended"),
                         !.calm = @ /\ s = world /\ (ok \/ calls[i].op = "poll")]
    /\ Reply(i, <<>>) /\ Answer

LeavePipeline == On("Pipeline") /\ LeaveWith({}, {"firstTask", "firstLogs"})

-----------------------------------------------------------------------------
(* DashboardView                                                           *)

EnterDashboard ==
    Mount("Dashboard", [loading |-> TRUE, stats |-> FALSE], None, <<Call("dashboard", None)>>)

DashboardArrives(i, ok) ==
    /\ On("Dashboard") /\ i \in Indices("dashboard")
    /\ view' = [loading |-> FALSE, stats |-> ok]
    /\ Reply(i, <<>>) /\ Answer

-----------------------------------------------------------------------------
Enter == EnterTasks \/ EnterReleases \/ EnterQueue \/ EnterPipeline \/ EnterDashboard
Leave == \/ LeaveQueue \/ LeavePipeline
         \/ (List \/ On("Dashboard")) /\ LeaveWith({}, {})

UserActs ==
    \/ \E filter \in Filters \cup {None} : Search(filter)
    \/ \E n \in Pages : handlePageChange(n)
    \/ \E t \in TaskIds : handleSelectionChange(t) \/ handleEdit(t) \/ handleExecute(t)
    \/ handleBatchExecute \/ handleCreate \/ CloseDialog \/ Submit \/ CloseDrawer
    \/ \E kind \in {"delete", "deploy"} : AskAbout(kind)
    \/ \E yes \in BOOLEAN : AnswerBox(yes) \/ AnswerQueue(yes)
    \/ \E b \in Batches : showBatchDetail(b)
    \/ \E what \in Batches \cup {"cancel"} : AskQueue(what)
    \/ \E s \in Stages : selectStage(s)

Arrivals ==
    \/ \E i \in DOMAIN calls :
          \/ SettingsArrive(i)
          \/ \E ok \in BOOLEAN :
                \/ loadAll(i, ok) \/ Submitted(i, ok) \/ Touched(i, ok)
                \/ load(i, ok) \/ DetailArrives(i, ok) \/ QueuedCanceled(i, ok)
                \/ handleDeployBatch(i, ok) \/ DeployAnswered(i, ok)
                \/ FirstTaskArrives(i, ok) \/ FirstLogsArrive(i, ok) \/ LogsArrive(i, ok)
                \/ refreshPipeline(i, ok) \/ DashboardArrives(i, ok)
    \/ QueueTick \/ LogLine \/ ServerMoves \/ StreamDone \/ Poll

Next ==
    \/ page \in Views /\ UserActs
    \/ page \in Views \cup {None} /\ Arrivals

-----------------------------------------------------------------------------
(* What the constants are taken to be.                                     *)

\* The null value is nothing else.
NoneApart ==
    None \notin Views \cup Batches \cup {"cancel", "PENDING", "RUNNING", "ended"}

\* The server sends the records of a batch as a list.
RecordsAreLists == \A b \in Batches : RecordsOf[b] \in Seq(Range(RecordsOf[b]))

-----------------------------------------------------------------------------
Dialogs == [kind : {"execute", "batch", "create", "edit"}, tasks : SUBSET TaskIds]
ListArgs == [filter : Filters \cup {None}, page : Pages]

TypeOK ==
    /\ List =>
         /\ [filter |-> view.filter, page |-> view.page] \in ListArgs
         /\ view.rows \in ListArgs \cup {None} /\ view.selected \subseteq TaskIds
         /\ view.dialog \in Dialogs \cup {None} /\ view.box \in {"delete", "deploy", None}
         /\ {view.loading, view.calm} \subseteq BOOLEAN
    /\ On("Queue") =>
         /\ {view.drawer, view.records} \subseteq Batches \cup {None}
         /\ view.box \in Batches \cup {"cancel", None}
         /\ view.triggered \subseteq Batches /\ world \subseteq Ready
         /\ {view.loading, view.timer, view.shown} \subseteq BOOLEAN
    /\ On("Pipeline") =>
         /\ {view.stage, view.log} \subseteq Stages \cup {None}
         /\ {view.task, world} \subseteq {"PENDING", "RUNNING", "ended", None}
         /\ view.es \in {"none", "open", "done"}
         /\ {view.loading, view.mixed, view.covered, view.timer, view.calm} \subseteq BOOLEAN
    /\ On("Dashboard") => view \in [loading : BOOLEAN, stats : BOOLEAN]

\* An overlay has a call in flight whose answer ends it.
BusyEnds ==
    /\ List /\ view.loading => InFlight({"list", "settings"})
    /\ On("Queue") /\ view.loading => InFlight({"firstQueue"})
    /\ On("Pipeline") /\ view.loading => InFlight({"firstTask", "firstLogs"})
    /\ On("Pipeline") /\ view.covered => InFlight({"firstLogs", "logs"})
    /\ On("Dashboard") /\ view.loading => InFlight({"dashboard"})

\* A batch execution names the tasks that were selected when its dialog opened,
\* unless the list was loaded again under the dialog.
WritesOwnSubject ==
    On("Tasks") /\ view.calm =>
    \A i \in Indices("submit") : calls[i].arg.tasks = calls[i].arg.picked

\* The records in the drawer are those of the batch it names, in whatever order
\* the answers for several batches come.
DrawerMatches ==
    On("Queue") /\ view.drawer # None => view.records \in {None, view.drawer}

\* A batch is reported as triggered only when the server deployed every
\* pipeline of its records, though another run over the same batch may have
\* taken some of them, and any of the calls may have failed.
ReportedIsDeployed ==
    On("Queue") =>
    \A b \in view.triggered : Range(RecordsOf[b]) \cap world = {}

(***************************************************************************)
(* The page of a running pipeline follows it: as long as the pipeline is   *)
(* shown as running its poll goes on, or the final refresh is in flight;   *)
(* and the log shown is that of the stage selected.  (The final refresh    *)
(* did not fail, no answer was late.)                                      *)
(***************************************************************************)
FollowsPipeline ==
    On("Pipeline") /\ view.calm /\ ~view.loading =>
    /\ view.task = "RUNNING" => view.timer \/ InFlight({"task"})
    /\ view.covered \/ view.log \in {view.stage, None}
==============================================================================
