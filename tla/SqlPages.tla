------------------------------ MODULE SqlPages ------------------------------
(***************************************************************************)
(* The three PostgreSQL views: the execution of SQL change files, with its *)
(* boxes that confirm risks; the change of a column under dependent views, *)
(* a task driven through its statuses; and the instance.                   *)
(***************************************************************************)
EXTENDS Console, SequencesExt

CONSTANTS Files,
          Risks,      \* for each file, those among "WARN" and "BLOCKED" it has
          Uploads,    \* selections of the file input: sequences of files
          MaxEntries, MaxSize,
          Tasks,      \* ids the server may give to column changes
          Found       \* the statuses of tasks found by a visit (a bound)

On(p) == page = p
Views == {"Sql", "ViewDeps", "Instance"}

Busy == {"EXECUTING", "RESTORING"}
Statuses == Busy \cup {"CREATED", "ANALYZED", "PRECHECK_PASSED", "PRECHECK_FAILED",
                       "SUCCESS", "FAILED", "RESTORED", "RESTORE_FAILED"}

\* The entries of an upload name files, and the null value is no file, task or box.
SqlConstants ==
    /\ Uploads \subseteq Seq([zip : BOOLEAN, entries : Seq([name : Files, size : Nat])])
    /\ Found \subseteq Statuses
    /\ None \notin Files \cup Tasks \cup Views \cup {"force", "warn"}

-----------------------------------------------------------------------------
(* PostgreSQLSQLExecutionView.  "boxes" holds the confirmations shown, the *)
(* newest last; a box blocks everything under it.  A box of an execution   *)
(* carries its file (None: the batch) and whether force was confirmed.     *)

\* An upload is [zip, entries], an entry [name, size]; None: it is refused.
TotalSize(entries) == FoldLeft(LAMBDA n, e : n + e.size, 0, entries)

readSQLUploadFile(file) ==
    LET fits(S) == \A i \in S : file.entries[i].size <= MaxSize
        names == {file.entries[i].name : i \in DOMAIN file.entries}
    IN  CASE ~file.zip /\ fits({1}) -> file.entries
          [] /\ file.zip /\ Len(file.entries) <= MaxEntries
             /\ TotalSize(file.entries) <= MaxSize
             /\ Cardinality(names) = Len(file.entries) -> file.entries
          [] OTHER -> None

EnterSql ==
    Mount("Sql",
          [form |-> None, picked |-> 0, current |-> None, batch |-> FALSE, force |-> FALSE,
           parsing |-> FALSE, executing |-> FALSE, importing |-> FALSE,
           covered |-> {"todo", "done"}, boxes |-> <<>>,
           whitelist |-> [shown |-> FALSE, saving |-> FALSE, enabled |-> "empty"],
           calm |-> TRUE],
          None,
          <<Call("lists", [of |-> {"todo", "done", "batches"}, ends |-> None]),
            Call("whitelist", None)>>)

\* Lists asked for together and the flag that ends with them (None: none).
loadLists(of, ends) == Call("lists", [of |-> of, ends |-> ends])

Cover(refs, of) == [refs EXCEPT !.covered = @ \cup (of \cap {"todo", "done"})]

ListsArrive(i) ==
    /\ On("Sql") /\ i \in Indices("lists")
    /\ LET l == calls[i].arg
       IN  view' = [view EXCEPT !.covered = @ \ l.of,
                                !.parsing = @ /\ l.ends # "parsing",
                                !.executing = @ /\ l.ends # "executing",
                                !.importing = @ /\ l.ends # "importing"]
    /\ Reply(i, <<>>) /\ Answer

Free == On("Sql") /\ view.boxes = <<>> /\ ~view.whitelist.shown

\* The pagination of a list.
TurnPage(list) ==
    /\ Free
    /\ view' = Cover(view, {list}) /\ Send(<<loadLists({list}, None)>>) /\ User

OpenWhitelist ==
    /\ Free
    /\ view' = [view EXCEPT !.whitelist.shown = TRUE] /\ UNCHANGED calls /\ User

EditWhitelist ==
    /\ On("Sql") /\ view.whitelist.shown /\ view.whitelist.enabled = "server"
    /\ view' = [view EXCEPT !.whitelist.enabled = "edited"] /\ UNCHANGED calls /\ User

CloseWhitelist ==
    /\ On("Sql") /\ view.whitelist.shown
    /\ view' = [view EXCEPT !.whitelist.shown = FALSE] /\ UNCHANGED calls /\ User

WhitelistArrives(i, ok) ==
    /\ On("Sql") /\ i \in Indices("whitelist")
    /\ view' = IF ok THEN [view EXCEPT !.whitelist.enabled = "server"]
               ELSE [view EXCEPT !.calm = FALSE]
    /\ Reply(i, <<>>) /\ Answer

\* "early": the list it replaces has not come yet.
handleSaveSQLForceWhitelist ==
    /\ On("Sql") /\ view.whitelist.shown /\ ~view.whitelist.saving
    /\ view' = [view EXCEPT !.whitelist.saving = TRUE]
    /\ Send(<<Call("putWhitelist", [list |-> view.whitelist.enabled,
                                    early |-> InFlight({"whitelist"})])>>)
    /\ User

WhitelistSaved(i, ok) ==
    /\ On("Sql") /\ i \in Indices("putWhitelist")
    /\ view' = IF ok THEN [view EXCEPT !.whitelist = [shown |-> FALSE, saving |-> FALSE,
                                                      enabled |-> "server"]]
               ELSE [view EXCEPT !.whitelist.saving = FALSE]
    /\ Reply(i, <<>>) /\ Answer

\* All files of the input are read, or the selection is dropped.
handleFileChange(files) ==
    /\ Free
    /\ LET read == [k \in DOMAIN files |-> readSQLUploadFile(files[k])]
           all == FlattenSeq(read)
       IN  view' = IF None \in Range(read) \/ all = <<>> THEN view
                   ELSE [view EXCEPT !.picked = Len(all), !.form = all[1].name]
    /\ UNCHANGED calls /\ User

\* What is typed in the editor stands for a file too.
Type(f) ==
    /\ Free /\ f # view.form
    /\ view' = [view EXCEPT !.form = f] /\ UNCHANGED calls /\ User

ToggleForce ==
    /\ Free
    /\ view' = [view EXCEPT !.force = ~@] /\ UNCHANGED calls /\ User

\* With several files picked the batch is parsed, whatever the editor shows.
handleParse ==
    /\ Free /\ ~view.parsing /\ (view.picked > 1 \/ view.form # None)
    /\ view' = [view EXCEPT !.parsing = TRUE]
    /\ Send(<<IF view.picked > 1 THEN Call("parseBatch", None)
              ELSE Call("parse", view.form)>>)
    /\ User

Parsed(i, ok) ==
    /\ On("Sql") /\ i \in Indices("parse")
    /\ view' = IF ok THEN Cover([view EXCEPT !.current = calls[i].arg], {"todo"})
               ELSE [view EXCEPT !.parsing = FALSE]
    /\ Reply(i, IF ok THEN <<loadLists({"todo"}, "parsing")>> ELSE <<>>) /\ Answer

handleParseBatch(i, ok) ==
    /\ On("Sql") /\ i \in Indices("parseBatch")
    /\ view' = IF ok THEN Cover([view EXCEPT !.batch = TRUE], {"todo"})
               ELSE [view EXCEPT !.parsing = FALSE]
    /\ Reply(i, IF ok THEN <<loadLists({"todo", "batches"}, "parsing")>> ELSE <<>>)
    /\ Answer

\* The executions: the statements first, then what is to be confirmed.
handleExecuteContent ==
    /\ Free /\ ~view.executing /\ view.form # None
    /\ view' = [view EXCEPT !.executing = TRUE]
    /\ Send(<<Call("statements", view.form)>>) /\ User

\* The button is busy meanwhile; the link of a row never is.
handleExecuteFile(f, link) ==
    /\ Free /\ IF link THEN "todo" \notin view.covered ELSE ~view.executing /\ f = view.current
    /\ view' = [view EXCEPT !.executing = TRUE]
    /\ Send(<<Call("statements", f)>>) /\ User

Box(kind, f, forced) == [kind |-> kind, file |-> f, forced |-> forced]
Show(box) == [view EXCEPT !.boxes = Append(@, box)]
Rest == [view EXCEPT !.boxes = Front(@)]

Run(f, forced, warn) ==
    Call("execute", [file |-> f, force |-> view.force, forced |-> forced, warn |-> warn])

\* buildConfirmedOptions: first the blocked statements, when they are forced ...
buildConfirmedOptions(i, ok) ==
    /\ On("Sql") /\ i \in Indices("statements")
    /\ LET f == calls[i].arg
           kind == IF view.force /\ "BLOCKED" \in Risks[f] THEN "force"
                   ELSE IF "WARN" \in Risks[f] THEN "warn" ELSE None
       IN  /\ view' = CASE ~ok -> [view EXCEPT !.executing = FALSE]
                        [] ok /\ kind = None -> view
                        [] OTHER -> Show(Box(kind, f, FALSE))
           /\ Reply(i, IF ok /\ kind = None THEN <<Run(f, FALSE, FALSE)>> ELSE <<>>)
    /\ Answer

Asked(kind) == On("Sql") /\ view.boxes # <<>> /\ Last(view.boxes).kind = kind

\* ... then those with a warning.
ConfirmForce ==
    /\ Asked("force")
    /\ LET f == Last(view.boxes).file
           more == "WARN" \in Risks[f]
       IN  /\ view' = IF more THEN [Rest EXCEPT !.boxes = Append(@, Box("warn", f, TRUE))]
                      ELSE Rest
           /\ Send(IF more THEN <<>> ELSE <<Run(f, TRUE, FALSE)>>)
    /\ User

ConfirmWarn ==
    /\ Asked("warn")
    /\ view' = Rest
    /\ Send(<<Run(Last(view.boxes).file, Last(view.boxes).forced, TRUE)>>) /\ User

\* A dismissed box rejects; an execution of a file ends there.
Dismiss ==
    /\ On("Sql") /\ view.boxes # <<>>
    /\ view' = [Rest EXCEPT !.executing = @ /\ Last(view.boxes).kind \notin {"force", "warn"}]
    /\ UNCHANGED calls /\ User

\* A batch is confirmed as a whole, and its warnings with it.
handleExecuteBatch ==
    /\ Free
    /\ view' = Show(Box("batch", None, FALSE)) /\ UNCHANGED calls /\ User

ConfirmBatch ==
    /\ Asked("batch") \/ Asked("forceBatch")
    /\ LET forced == Last(view.boxes).kind = "forceBatch"
           more == view.force /\ ~forced
       IN  /\ view' = IF more THEN [Rest EXCEPT !.boxes = Append(@, Box("forceBatch", None, TRUE))]
                      ELSE [Rest EXCEPT !.executing = TRUE]
           /\ Send(IF more THEN <<>> ELSE <<Run(None, forced, TRUE)>>)
    /\ User

Executed(i, ok) ==
    /\ On("Sql") /\ i \in Indices("execute")
    /\ LET f == calls[i].arg.file
           shown == IF f = None THEN [view EXCEPT !.batch = TRUE]
                    ELSE [view EXCEPT !.current = f]
       IN  view' = IF ok THEN Cover(shown, {"todo", "done"})
                   ELSE [view EXCEPT !.executing = FALSE]
    /\ Reply(i, IF ok THEN <<loadLists({"todo", "done", "batches"}, "executing")>> ELSE <<>>)
    /\ Answer

\* handleCancelExecution and handleCancelBatch, of what is shown as RUNNING.
handleCancel ==
    /\ Free /\ (view.current # None \/ view.batch)
    /\ Send(<<Call("cancel", None)>>) /\ UNCHANGED view /\ User

handleOpen(f) ==
    /\ Free /\ (view.batch \/ view.covered # {"todo", "done"})
    /\ Send(<<Call("open", [file |-> f, reload |-> FALSE])>>) /\ UNCHANGED view /\ User

Opened(i, ok) ==
    /\ On("Sql") /\ i \in Indices("open")
    /\ LET o == calls[i].arg
           shown == [view EXCEPT !.current = o.file, !.form = o.file]
           more == ok /\ o.reload
       IN  /\ view' = CASE ~ok -> view
                        [] more -> Cover(shown, {"todo", "done"})
                        [] OTHER -> shown
           /\ Reply(i, IF more THEN <<loadLists({"todo", "done"}, None)>> ELSE <<>>)
    /\ Answer

handleOpenBatch ==
    /\ Free
    /\ Send(<<Call("openBatch", None)>>) /\ UNCHANGED view /\ User

\* cancelSQLBatch answers with the batch too.
BatchAnswered(i, ok) ==
    /\ On("Sql") /\ calls[i].op \in {"openBatch", "cancel"}
    /\ view' = [view EXCEPT !.batch = @ \/ (ok /\ calls[i].op = "openBatch")]
    /\ Reply(i, <<>>) /\ Answer

\* handleSkipFile and handleDeleteFile.
AskFile(kind, f) ==
    /\ Free /\ "todo" \notin view.covered
    /\ view' = Show(Box(kind, f, FALSE)) /\ UNCHANGED calls /\ User

ConfirmFile(kind) ==
    /\ Asked(kind)
    /\ view' = Rest /\ Send(<<Call(kind, Last(view.boxes).file)>>) /\ User

FileTouched(i, ok) ==
    /\ On("Sql") /\ calls[i].op \in {"skipFile", "deleteFile", "import"}
    /\ LET of == IF calls[i].op = "skipFile" THEN {"todo", "done"} ELSE {"todo"}
           ends == IF calls[i].op = "import" THEN "importing" ELSE None
       IN  /\ view' = CASE ok -> Cover(view, of)
                        [] ~ok /\ ends = "importing" -> [view EXCEPT !.importing = FALSE]
                        [] OTHER -> view
           /\ Reply(i, IF ok THEN <<loadLists(of, ends)>> ELSE <<>>)
    /\ Answer

handleImportServerSQL ==
    /\ Free /\ ~view.importing
    /\ view' = [view EXCEPT !.importing = TRUE]
    /\ Send(<<Call("import", None)>>) /\ User

\* A statement of the file shown; then the file shown by then is opened again.
handleSkipStatement ==
    /\ Free /\ view.current # None
    /\ Send(<<Call("skipStatement", view.current)>>) /\ UNCHANGED view /\ User

StatementSkipped(i, ok) ==
    /\ On("Sql") /\ i \in Indices("skipStatement")
    /\ Reply(i, IF ok THEN <<Call("open", [file |-> view.current, reload |-> TRUE])>>
                ELSE <<>>)
    /\ UNCHANGED view /\ Answer

-----------------------------------------------------------------------------
(* PostgreSQLViewDependencyChangeView.  "world" maps the tasks the server  *)
(* has to their statuses; a task that was analysed has dependent views.    *)

Operations == {"analyze", "precheck", "execute", "restore"}

EnterViewDeps ==
    \E done \in SUBSET Tasks : \E s \in [done -> Found] :
        Mount("ViewDeps",
              [loading |-> TRUE, current |-> None, status |-> None, plan |-> None,
               doing |-> {}, calm |-> TRUE],
              s, <<Call("tasks", None)>>)

\* The list of tasks, for its own sake or at the end of an operation.
loadTasks(refs, op, i) ==
    /\ view' = [refs EXCEPT !.loading = TRUE]
    /\ Reply(i, <<Call("tasks", op)>>)

TasksArrive(i) ==
    /\ On("ViewDeps") /\ i \in Indices("tasks")
    /\ view' = [view EXCEPT !.loading = FALSE, !.doing = @ \ {calls[i].arg}]
    /\ Reply(i, <<>>) /\ Answer

\* Refresh and the pagination.
ReloadTasks ==
    /\ On("ViewDeps")
    /\ Load("tasks", view, None) /\ User

handleCreateTask ==
    /\ On("ViewDeps")
    /\ Send(<<Call("create", None)>>) /\ UNCHANGED view /\ User

TaskCreated(i, ok) ==
    /\ On("ViewDeps") /\ i \in Indices("create")
    /\ IF ok
       THEN \E t \in Tasks \ DOMAIN world :
               /\ world' = [u \in DOMAIN world \cup {t} |->
                               IF u = t THEN "CREATED" ELSE world[u]]
               /\ loadTasks([view EXCEPT !.current = t, !.status = "CREATED", !.plan = None],
                            None, i)
       ELSE Reply(i, <<>>) /\ UNCHANGED <<view, world>>
    /\ UNCHANGED <<page, clicks>>

\* A call that reads a task carries the status it was sent at.
ReadTask(op, t) == Call(op, [task |-> t, status |-> world[t]])

handleOpenTask(t) ==
    /\ On("ViewDeps") /\ ~view.loading /\ t \in DOMAIN world
    /\ Send(<<ReadTask("openTask", t)>>) /\ UNCHANGED view /\ User

TaskOpened(i, ok) ==
    /\ On("ViewDeps") /\ i \in Indices("openTask")
    /\ LET o == calls[i].arg
       IN  \E s \in {o.status, world[o.task]} :
              view' = IF ok THEN [view EXCEPT !.current = o.task, !.status = s, !.plan = None,
                                              !.calm = @ /\ s = world[o.task]]
                      ELSE view
    /\ Reply(i, <<>>) /\ Answer

\* canAnalyze, canPrecheck, canExecute, canRestore: by the status shown.
Can(op) ==
    /\ On("ViewDeps") /\ view.current # None /\ op \notin view.doing
    /\ CASE op = "analyze" -> view.status \notin Busy
         [] op = "precheck" -> view.status \notin Busy \cup {"CREATED"}
         [] op = "execute" -> view.status = "PRECHECK_PASSED"
         [] op = "restore" -> view.status \in {"FAILED", "RESTORE_FAILED", "SUCCESS", "RESTORED"}

\* handleAnalyze, handlePrecheck, handleExecute and handleRestore (confirmed).
operate(op) ==
    /\ Can(op)
    /\ view' = [view EXCEPT !.doing = @ \cup {op}]
    /\ Send(<<Call("operate", [op |-> op, task |-> view.current])>>) /\ User

\* What the server lets an operation do, and how it may end.
Allows(op, s) ==
    CASE op = "analyze" -> TRUE
      [] op = "precheck" -> s # "CREATED"
      [] op = "execute" -> s = "PRECHECK_PASSED"
      [] op = "restore" -> s \notin Busy \cup {"CREATED"}

Outcome(op, s, ok) ==
    CASE ~Allows(op, s) -> {}
      [] op = "analyze" -> {IF ok THEN "ANALYZED" ELSE s}
      [] op = "precheck" -> {IF ok THEN "PRECHECK_PASSED" ELSE "PRECHECK_FAILED"}
      [] op = "execute" -> IF ok THEN {"SUCCESS"}
                           ELSE {"PRECHECK_FAILED", "FAILED", "RESTORED", "RESTORE_FAILED"}
      [] op = "restore" -> {IF ok THEN "RESTORED" ELSE "RESTORE_FAILED"}

Answered(i, t, ok) ==
    LET c == calls[i].arg
        shown == [view EXCEPT !.current = t, !.status = world'[t],
                              !.plan = IF c.op = "analyze" THEN None ELSE @,
                              !.calm = @ /\ t = view.current]
    IN  IF ok THEN loadTasks(shown, c.op, i)
        ELSE /\ Reply(i, <<Call("refresh", [task |-> view.current, op |-> c.op,
                                            status |-> world'[view.current]])>>)
             /\ UNCHANGED view

\* The server answers in time: it did it, failed, or refused.
OperationAnswered(i, ok) ==
    /\ On("ViewDeps") /\ i \in Indices("operate")
    /\ LET t == calls[i].arg.task
           outcome == Outcome(calls[i].arg.op, world[t], ok)
       IN  \/ \E s \in outcome : world' = [world EXCEPT ![t] = s] /\ Answered(i, t, ok)
           \/ outcome = {} /\ ~ok /\ UNCHANGED world /\ Answered(i, t, FALSE)
    /\ UNCHANGED <<page, clicks>>

\* The 30 s of axios are over first: the server is at it still ...
OperationTimesOut(i) ==
    /\ On("ViewDeps") /\ i \in Indices("operate")
    /\ LET c == calls[i].arg
       IN  /\ c.op \in {"execute", "restore"} /\ Allows(c.op, world[c.task])
           /\ world' = [world EXCEPT ![c.task] = IF c.op = "execute" THEN "EXECUTING"
                                                 ELSE "RESTORING"]
           /\ Answered(i, c.task, FALSE)
    /\ UNCHANGED <<page, clicks>>

\* ... and ends later, when nobody asks.
OperationEnds(t) ==
    /\ On("ViewDeps") /\ t \in DOMAIN world /\ world[t] \in Busy
    /\ \E s \in {"SUCCESS", "FAILED", "RESTORED", "RESTORE_FAILED"} :
          world' = [world EXCEPT ![t] = s]
    /\ view' = [view EXCEPT !.calm = FALSE]
    /\ UNCHANGED <<page, calls, clicks>>

\* refreshCurrentTask: after a failure; a failure of its own ends the operation.
refreshCurrentTask(i, ok) ==
    /\ On("ViewDeps") /\ i \in Indices("refresh")
    /\ LET o == calls[i].arg
       IN  IF ok
           THEN \E s \in {o.status, world[o.task]} :
                   loadTasks([view EXCEPT !.current = o.task, !.status = s,
                                          !.calm = @ /\ s = world[o.task]
                                                     /\ o.task = view.current],
                             o.op, i)
           ELSE /\ view' = [view EXCEPT !.doing = @ \ {o.op}, !.calm = FALSE]
                /\ Reply(i, <<>>)
    /\ Answer

\* handleExportPlan and handleExportRestorePlan share one spinner.
handleExportPlan ==
    /\ On("ViewDeps") /\ view.current # None /\ "export" \notin view.doing
    /\ view' = [view EXCEPT !.doing = @ \cup {"export"}]
    /\ Send(<<Call("plan", view.current)>>) /\ User

PlanArrives(i, ok) ==
    /\ On("ViewDeps") /\ i \in Indices("plan")
    /\ view' = [view EXCEPT !.doing = @ \ {"export"},
                            !.plan = IF ok THEN calls[i].arg ELSE @,
                            !.calm = @ /\ calls[i].arg = view.current]
    /\ Reply(i, <<>>) /\ Answer

-----------------------------------------------------------------------------
(* PostgreSQLInstanceView: an overlay over the whole page.                 *)

EnterInstance ==
    Mount("Instance", [loading |-> TRUE], None, <<Call("instance", None)>>)

loadInstance == On("Instance") /\ ~view.loading /\ Load("instance", view, None) /\ User

InstanceArrives(i) ==
    /\ On("Instance") /\ i \in Indices("instance")
    /\ view' = [view EXCEPT !.loading = FALSE]
    /\ Reply(i, <<>>) /\ Answer

-----------------------------------------------------------------------------
Enter == EnterSql \/ EnterViewDeps \/ EnterInstance
Leave == page \in Views /\ LeaveWith({}, {})

UserActs ==
    \/ \E list \in {"todo", "done", "batches"} : TurnPage(list)
    \/ OpenWhitelist \/ EditWhitelist \/ CloseWhitelist \/ handleSaveSQLForceWhitelist
    \/ \E files \in Uploads : handleFileChange(files)
    \/ ToggleForce \/ handleParse \/ handleExecuteContent
    \/ ConfirmForce \/ ConfirmWarn \/ Dismiss \/ handleExecuteBatch \/ ConfirmBatch
    \/ handleCancel \/ handleOpenBatch \/ handleImportServerSQL \/ handleSkipStatement
    \/ \E f \in Files :
          \/ Type(f) \/ handleOpen(f)
          \/ \E link \in BOOLEAN : handleExecuteFile(f, link)
          \/ \E kind \in {"skipFile", "deleteFile"} : AskFile(kind, f)
    \/ \E kind \in {"skipFile", "deleteFile"} : ConfirmFile(kind)
    \/ ReloadTasks \/ handleCreateTask \/ handleExportPlan
    \/ \E t \in Tasks : handleOpenTask(t)
    \/ \E op \in Operations : operate(op)
    \/ loadInstance

Arrivals ==
    \/ \E i \in DOMAIN calls :
          \/ ListsArrive(i) \/ TasksArrive(i) \/ OperationTimesOut(i) \/ InstanceArrives(i)
          \/ \E ok \in BOOLEAN :
                \/ WhitelistArrives(i, ok) \/ WhitelistSaved(i, ok) \/ Parsed(i, ok)
                \/ handleParseBatch(i, ok) \/ buildConfirmedOptions(i, ok) \/ Executed(i, ok)
                \/ Opened(i, ok) \/ BatchAnswered(i, ok) \/ FileTouched(i, ok)
                \/ StatementSkipped(i, ok) \/ TaskCreated(i, ok) \/ TaskOpened(i, ok)
                \/ OperationAnswered(i, ok) \/ refreshCurrentTask(i, ok) \/ PlanArrives(i, ok)
    \/ \E t \in Tasks : OperationEnds(t)

Next ==
    \/ page \in Views /\ UserActs
    \/ page \in Views \cup {None} /\ Arrivals

-----------------------------------------------------------------------------
Boxes == [kind : {"force", "warn", "batch", "forceBatch", "skipFile", "deleteFile"},
          file : Files \cup {None}, forced : BOOLEAN]

TypeOK ==
    /\ On("Sql") =>
         /\ {view.form, view.current} \subseteq Files \cup {None}
         /\ view.picked \in Nat /\ view.covered \subseteq {"todo", "done"}
         /\ view.boxes \in Seq(Boxes)
         /\ view.whitelist \in [shown : BOOLEAN, saving : BOOLEAN,
                                enabled : {"empty", "server", "edited"}]
         /\ {view.batch, view.force, view.parsing, view.executing, view.importing,
             view.calm} \subseteq BOOLEAN
    /\ On("ViewDeps") =>
         /\ view.current \in DOMAIN world \cup {None} /\ DOMAIN world \subseteq Tasks
         /\ \A t \in DOMAIN world : world[t] \in Statuses
         /\ view.status \in Statuses \cup {None} /\ view.plan \in Tasks \cup {None}
         /\ view.doing \subseteq Operations \cup {"export"}
         /\ {view.loading, view.calm} \subseteq BOOLEAN
    /\ On("Instance") => view.loading \in BOOLEAN

Ends(flag) == \E i \in Indices("lists") : calls[i].arg.ends = flag

\* An overlay or a spinner has a call in flight, or a box to answer, that ends it.
BusyEnds ==
    /\ On("Sql") =>
         /\ \A list \in view.covered : \E i \in Indices("lists") : list \in calls[i].arg.of
         /\ view.parsing => InFlight({"parse", "parseBatch"}) \/ Ends("parsing")
         /\ view.executing => InFlight({"statements", "execute"}) \/ Ends("executing")
                              \/ \E k \in DOMAIN view.boxes :
                                    view.boxes[k].kind \in {"force", "warn"}
         /\ view.importing => InFlight({"import"}) \/ Ends("importing")
         /\ view.whitelist.saving => InFlight({"putWhitelist"})
    /\ On("ViewDeps") =>
         /\ view.loading => InFlight({"tasks"})
         /\ \A op \in view.doing :
               \E i \in DOMAIN calls :
                  CASE calls[i].op \in {"operate", "refresh"} -> calls[i].arg.op = op
                    [] calls[i].op = "tasks" -> calls[i].arg = op
                    [] calls[i].op = "plan" -> op = "export"
                    [] OTHER -> FALSE
    /\ On("Instance") /\ view.loading => InFlight({"instance"})

(***************************************************************************)
(* Blocked statements are forced, and statements with a warning are run,   *)
(* only after a box said so of this very file, however the options were    *)
(* changed and other files were run meanwhile; a batch is forced only      *)
(* after its second box.                                                   *)
(***************************************************************************)
RunsAsConfirmed ==
    On("Sql") =>
    \A i \in Indices("execute") :
        LET r == calls[i].arg
            risks == IF r.file = None THEN {"WARN", "BLOCKED"} ELSE Risks[r.file]
        IN  /\ r.force /\ "BLOCKED" \in risks => r.forced
            /\ "WARN" \in risks => r.warn

\* The whitelist of forced statements is only replaced by one made from it,
\* unless it was saved before it came, or never came.
WritesOwnSubject ==
    On("Sql") /\ view.calm =>
    \A i \in Indices("putWhitelist") : calls[i].arg.early \/ calls[i].arg.list # "empty"

(***************************************************************************)
(* When nothing is in flight the status shown, which decides what may be   *)
(* done next, is the status of the task, and the plan shown is its plan -  *)
(* also after failures.  (No answer came late, for a task no longer shown, *)
(* and no operation outlasted its call.)                                   *)
(***************************************************************************)
StatusIsServed ==
    On("ViewDeps") /\ view.calm /\ view.current # None
    /\ ~InFlight({"operate", "refresh", "openTask"}) =>
    view.status = world[view.current] /\ view.plan \in {None, view.current}
==============================================================================
