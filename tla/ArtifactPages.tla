--------------------------- MODULE ArtifactPages ---------------------------
(***************************************************************************)
(* The five views of the artifacts: their import with the download jobs,   *)
(* the list of the artifacts, the versions they form, one version with its *)
(* deployment, and the choice of a version to deploy as a batch.           *)
(***************************************************************************)
EXTENDS Console

Seqs == INSTANCE SequencesExt

CONSTANTS Jobs,       \* download jobs the server can run
          Listings,   \* the tables a version may come with: sets of rows
          Rank,       \* the order of names, as localeCompare has it
          Versions,
          DirOf,      \* the local directory of a version, or None
          FilesOf     \* the deployable files of a version

On(p) == page = p
Views == {"Collect", "Artifacts", "Versions", "Version", "Batch"}

\* The mark of nothing is no view, no job and no version.
NoneApart == None \notin Views \cup Jobs \cup Versions

\* A version comes with so many items, and no more.
ListingsAreFinite == \A rows \in Listings : IsFiniteSet(rows)

-----------------------------------------------------------------------------
(* ArtifactCollectView.  "world" is the set of jobs that run.  "timer" is  *)
(* the job of the timer pollTimer refers to, "loose" those of the armed    *)
(* ones it does not refer to any more.                                     *)

EnterCollect ==
    \E running \in SUBSET Jobs :
        Mount("Collect",
              [mode |-> "upload", configured |-> FALSE, listed |-> FALSE, loading |-> FALSE,
               uploading |-> FALSE, job |-> None, runs |-> FALSE, timer |-> None, loose |-> <<>>,
               started |-> running, calm |-> TRUE],
              running, <<Call("settings", None)>>)

\* loadSettingsAndRemoteRoot: a configured server is listed at once in the mode
\* that shows it; restoreActiveDownloadJob follows.
loadSettingsAndRemoteRoot(i, ok) ==
    /\ page \in {"Collect", None} /\ i \in Indices("settings")
    /\ \/ /\ On("Collect") /\ ok
          /\ view' = [view EXCEPT !.configured = TRUE, !.loading = @ \/ view.mode = "download"]
          /\ Reply(i, IF view.mode = "download" THEN <<Call("firstDir", None)>>
                      ELSE <<Call("active", None)>>)
       \/ /\ On("Collect") => ~ok
          /\ Reply(i, <<Call("active", None)>>) /\ UNCHANGED view
    /\ Answer

\* pollDownload up to its await: the timer pollTimer refers to is cleared.
pollDownload(refs) == [refs EXCEPT !.timer = None]

Poll(j, runs) == Call("poll", [job |-> j, runs |-> runs])

\* One of the jobs that run, or none.  The mode it sets may wake the watcher.
restoreActiveDownloadJob(i, ok) ==
    /\ page \in {"Collect", None} /\ i \in Indices("active")
    /\ \/ /\ On("Collect") /\ ok
          /\ LET lists == view.mode = "upload" /\ view.configured /\ ~view.listed
             IN  \E j \in world :
                    /\ view' = [pollDownload(view) EXCEPT
                                  !.job = j, !.runs = TRUE, !.mode = "download",
                                  !.loading = @ \/ lists]
                    /\ Reply(i, IF lists THEN <<Poll(j, TRUE), Call("dir", None)>>
                                ELSE <<Poll(j, TRUE)>>)
       \/ /\ On("Collect") => ~ok \/ world = {}
          /\ \E j \in Jobs :
                Reply(i, IF page = None /\ ok THEN <<Poll(j, TRUE)>> ELSE <<>>)
          /\ UNCHANGED view
    /\ Answer

\* The segmented control; its watcher lists a directory that was never listed.
SwitchMode(mode) ==
    /\ On("Collect") /\ mode # view.mode
    /\ LET lists == mode = "download" /\ view.configured /\ ~view.listed
       IN  /\ view' = [view EXCEPT !.mode = mode, !.loading = @ \/ lists]
           /\ Send(IF lists THEN <<Call("dir", None)>> ELSE <<>>)
    /\ User

\* loadRemoteDir of the crumbs, of remoteGoUp and of a row (handleRemoteNavigate
\* is under the overlay, the crumbs are not).
loadRemoteDir ==
    /\ On("Collect") /\ view.mode = "download" /\ view.configured
    /\ view' = [view EXCEPT !.loading = TRUE]
    /\ Send(<<Call("dir", None)>>) /\ User

DirArrives(i, ok) ==
    /\ calls[i].op \in {"dir", "firstDir"}
    /\ \/ /\ On("Collect")
          /\ \E some \in IF ok THEN BOOLEAN ELSE {view.listed} :
                view' = [view EXCEPT !.listed = some, !.loading = FALSE]
       \/ page = None /\ UNCHANGED view
    /\ Reply(i, IF calls[i].op = "firstDir" THEN <<Call("active", None)>> ELSE <<>>)
    /\ Answer

\* A row of a directory: its job is created, whatever other job runs.
handleRemoteDownload ==
    /\ On("Collect") /\ view.mode = "download" /\ view.listed /\ ~view.loading
    /\ Send(<<Call("start", None)>>) /\ UNCHANGED view /\ User

DownloadStarted(i, ok) ==
    /\ On("Collect") /\ i \in Indices("start")
    /\ \/ \E j \in Jobs \ view.started :
             /\ ok /\ world' = world \cup {j}
             /\ view' = [pollDownload(view) EXCEPT
                           !.job = j, !.runs = TRUE, !.started = @ \cup {j}]
             /\ Reply(i, <<Poll(j, TRUE)>>)
       \/ ~ok /\ Reply(i, <<>>) /\ UNCHANGED <<view, world>>
    /\ UNCHANGED <<page, clicks>>

\* faulty: a poll that found the job running is the last one.
Bug_Arm(refs, j) == refs

Arm(refs, j) ==
    [refs EXCEPT !.timer = j,
                 !.loose = IF refs.timer = None THEN @ ELSE Append(@, refs.timer)]

\* The rest of pollDownload: the job answered is shown, and one that runs is
\* asked for again in a second, whether or not the view is still there; a
\* failure ends the poll.
ProgressArrives(i, ok) ==
    /\ i \in Indices("poll")
    /\ LET c == calls[i].arg
       IN  \/ /\ On("Collect") /\ ok
              /\ \E runs \in {c.runs, c.job \in world} :
                    LET told == [view EXCEPT !.job = c.job, !.runs = runs]
                    IN  view' = IF runs THEN Arm(told, c.job) ELSE told
              /\ UNCHANGED world
           \/ /\ On("Collect") /\ ~ok
              /\ view' = [view EXCEPT !.calm = FALSE] /\ UNCHANGED world
           \/ /\ page = None /\ UNCHANGED view
              /\ world' = IF ok /\ c.runs THEN world \cup {Residue("timer", TRUE)} ELSE world
    /\ Reply(i, <<>>) /\ UNCHANGED <<page, clicks>>

\* The timer of job j fires; "rest" are the loose ones that stay armed.
Fires(j, rest) ==
    /\ view' = pollDownload([view EXCEPT !.loose = rest])
    /\ Send(<<Poll(j, j \in world)>>) /\ Answer

TimerFires == On("Collect") /\ view.timer # None /\ Fires(view.timer, view.loose)

LooseTimerFires(k) ==
    On("Collect") /\ k \in DOMAIN view.loose /\ Fires(view.loose[k], Without(view.loose, k))

JobEnds ==
    /\ On("Collect")
    /\ \E j \in world : world' = world \ {j}
    /\ UNCHANGED <<page, view, calls, clicks>>

\* Nothing is disabled while files are uploaded; success leaves for the versions.
uploadEntries ==
    /\ On("Collect") /\ view.mode = "upload"
    /\ view' = [view EXCEPT !.uploading = TRUE]
    /\ Send(<<Call("upload", None)>>) /\ User

UploadFails(i) ==
    /\ On("Collect") /\ i \in Indices("upload")
    /\ view' = [view EXCEPT !.uploading = FALSE]
    /\ Reply(i, <<>>) /\ Answer

\* The hook clears the timer it refers to; the poll of an answer still to come
\* goes on without the view.
LeaveCollect ==
    /\ On("Collect")
    /\ LeaveWith({Residue("timer", TRUE) : k \in DOMAIN view.loose},
                 {"settings", "firstDir", "active", "poll"})

-----------------------------------------------------------------------------
(* ArtifactListView and ArtifactBatchesView                                *)

ListCall(refs) == Call("artifacts", [latest |-> refs.latest, page |-> refs.page,
                                     size |-> IF refs.latest THEN 500 ELSE refs.size])

EnterList ==
    LET refs == [loading |-> TRUE, latest |-> TRUE, page |-> 1, size |-> 50, rows |-> None,
                 calm |-> TRUE]
    IN  Mount("Artifacts", refs, None, <<ListCall(refs)>>)

EnterVersions == Mount("Versions", [loading |-> TRUE], None, <<Call("versions", None)>>)

\* Neither the switch nor the pagination is under the overlay.
LoadList(refs) ==
    /\ On("Artifacts")
    /\ view' = [refs EXCEPT !.loading = TRUE] /\ Send(<<ListCall(refs)>>) /\ User

handleLatestChange == LoadList([view EXCEPT !.latest = ~@, !.page = 1])
handlePageChange(n) == On("Artifacts") /\ n # view.page /\ LoadList([view EXCEPT !.page = n])
handleSizeChange(n) == On("Artifacts") /\ n # view.size /\ LoadList([view EXCEPT !.size = n, !.page = 1])

ListArrives(i, ok) ==
    /\ On("Artifacts") /\ i \in Indices("artifacts")
    /\ view' = [view EXCEPT !.rows = IF ok THEN calls[i].arg ELSE None, !.loading = FALSE,
                            !.calm = Calmly(i, ok)]
    /\ Reply(i, <<>>) /\ Answer

loadBatches ==
    /\ On("Versions") /\ ~view.loading
    /\ view' = [loading |-> TRUE] /\ Send(<<Call("versions", None)>>) /\ User

VersionsArrive(i) ==
    /\ On("Versions") /\ i \in Indices("versions")
    /\ view' = [loading |-> FALSE] /\ Reply(i, <<>>) /\ Answer

-----------------------------------------------------------------------------
(* ArtifactVersionDetailView.  "world" says whether the version was        *)
(* deployed; nothing on the server keeps its items from changing then.     *)

\* faulty: the last group is a row short.
Bug_Span(rows, i) ==
    IF i > 1 /\ rows[i - 1].target = rows[i].target THEN 0
    ELSE Cardinality({j \in i .. Len(rows) - 1 : rows[j].target = rows[i].target})

Span(rows, i) ==
    IF i > 1 /\ rows[i - 1].target = rows[i].target
    THEN 0
    ELSE LET other == {j \in i + 1 .. Len(rows) : rows[j].target # rows[i].target}
         IN  (IF other = {} THEN Len(rows) + 1
              ELSE CHOOSE j \in other : \A k \in other : j <= k) - i

WebApps == {"web-main", "web-cdr", "web-opm"}

deploymentTargetForItem(row) ==
    IF row.vue /\ row.app \notin WebApps THEN "web-main" ELSE row.app

deploymentTargetForRecord(row) ==
    IF row.deployment # None THEN row.deployment ELSE deploymentTargetForItem(row)

\* web-main before every other target, and before the other applications there.
First(a, b) ==
    IF a.target = b.target
    THEN IF "web-main" \in {a.app, b.app} THEN a.app = "web-main"
         ELSE Rank[a.file] <= Rank[b.file]
    ELSE \/ a.target = "web-main"
         \/ b.target # "web-main" /\ Rank[a.target] <= Rank[b.target]

Targeted(row, target) == [file |-> row.file, app |-> row.app, target |-> target]

\* The rows as sort leaves them.
InOrder(rows) == Seqs!SetToSortSeq(rows, First)
Table(rows) == [i \in 1 .. Cardinality(rows) |-> InOrder(rows)[i]]

buildVersionRows(rows) == Table({Targeted(r, deploymentTargetForItem(r)) : r \in rows})

buildDeployRecordRows(rows) ==
    Table({Targeted(r, deploymentTargetForRecord(r)) : r \in rows})

\* The two tables' merged cells, by the index of a row.
artifactSpanMethod(rows) == [i \in DOMAIN rows |-> Span(rows, i)]
deployRecordSpanMethod(rows) == [i \in DOMAIN rows |-> Span(rows, i)]

EnterDetail ==
    \E deployed \in BOOLEAN :
        Mount("Version",
              [loading |-> TRUE, covered |-> FALSE, items |-> {}, records |-> {},
               batch |-> FALSE, known |-> FALSE, operating |-> None, replacing |-> None,
               chooser |-> None, box |-> None, rolling |-> FALSE],
              deployed, <<Call("detail", None)>>)

Free == On("Version") /\ view.box = None /\ view.chooser = None

loadDetail ==
    /\ Free /\ ~view.loading
    /\ view' = [view EXCEPT !.loading = TRUE]
    /\ Send(<<Call("detail", None)>>) /\ User

\* What the version holds; its deployment is asked for next.
DetailArrives(i, ok) ==
    /\ On("Version") /\ i \in Indices("detail")
    /\ \E rows \in IF ok THEN Listings ELSE {view.items} :
          view' = [view EXCEPT !.items = rows, !.loading = FALSE, !.covered = @ \/ ok]
    /\ Reply(i, IF ok THEN <<Call("batch", world)>> ELSE <<>>) /\ Answer

loadDeployBatch ==
    /\ Free /\ ~view.covered
    /\ view' = [view EXCEPT !.covered = TRUE]
    /\ Send(<<Call("batch", world)>>) /\ User

\* A failure leaves what a version without a deployment shows.
BatchArrives(i, ok) ==
    /\ On("Version") /\ i \in Indices("batch")
    /\ \E deployed \in {calls[i].arg, world}, rows \in IF ok THEN Listings ELSE {{}} :
          view' = [view EXCEPT !.batch = ok /\ deployed, !.records = rows,
                               !.covered = FALSE, !.known = ok]
    /\ Reply(i, <<>>) /\ Answer

\* The buttons of a row, while no deployment is shown.  "sure" is history: the
\* deployment had been read by then, and no read or roll back of it was under way.
Row(r) == Free /\ ~view.loading /\ r \in view.items /\ ~view.batch /\ view.operating # r.file

Asked(kind, r) ==
    [kind |-> kind, file |-> r.file,
     sure |-> view.known /\ ~InFlight({"detail", "batch", "rollback"})]

Operate(ask, file) ==
    Send(<<Call("operate", [kind |-> ask.kind, file |-> file, of |-> ask.file,
                            sure |-> ask.sure, deployed |-> view.batch])>>)

handleRedownloadItem(r) ==
    /\ Row(r)
    /\ view' = [view EXCEPT !.operating = r.file]
    /\ Operate(Asked("redownload", r), r.file) /\ User

\* The file chooser of the browser is open until a file is chosen or not.
handleReplaceItem(r) ==
    /\ Row(r)
    /\ view' = [view EXCEPT !.replacing = r.file, !.chooser = Asked("replace", r)]
    /\ UNCHANGED calls /\ User

\* A file is dropped when a replacement answered meanwhile.
handleReplaceInput(chosen) ==
    /\ On("Version") /\ view.chooser # None
    /\ LET sends == chosen /\ view.replacing # None
       IN  /\ view' = [view EXCEPT !.chooser = None,
                                   !.operating = IF sends THEN view.replacing ELSE @]
           /\ IF sends THEN Operate(view.chooser, view.replacing) ELSE UNCHANGED calls
    /\ User

handleDeleteItem(r) ==
    /\ Row(r)
    /\ view' = [view EXCEPT !.box = Asked("delete", r)] /\ UNCHANGED calls /\ User

\* The version and its items come back; whichever item was operated on, none
\* is from now on.
applyVersionResult(i, ok) ==
    /\ On("Version") /\ i \in Indices("operate")
    /\ \E rows \in IF ok THEN Listings ELSE {view.items} :
          view' = [view EXCEPT !.items = rows, !.operating = None,
                     !.replacing = IF calls[i].arg.kind = "replace" THEN None ELSE @]
    /\ Reply(i, <<>>) /\ Answer

handleRollback ==
    /\ Free /\ view.batch /\ view.records # {} /\ ~view.rolling
    /\ view' = [view EXCEPT !.box = [kind |-> "rollback", file |-> None, sure |-> TRUE]]
    /\ UNCHANGED calls /\ User

\* The box is answered.  A roll back of a deployment that is not known any more
\* throws before it is sent.
AnswerBox(yes) ==
    /\ On("Version") /\ view.box # None
    /\ LET b == view.box
           rolls == yes /\ b.kind = "rollback" /\ view.batch
           deletes == yes /\ b.kind = "delete"
       IN  /\ view' = [view EXCEPT !.box = None, !.rolling = @ \/ rolls,
                                   !.operating = IF deletes THEN b.file ELSE @]
           /\ CASE rolls -> Send(<<Call("rollback", None)>>)
                [] deletes -> Operate(b, b.file)
                [] OTHER -> UNCHANGED calls
    /\ User

RolledBack(i, ok) ==
    /\ On("Version") /\ i \in Indices("rollback")
    /\ \E rows \in IF ok THEN Listings ELSE {view.records} :
          view' = [view EXCEPT !.batch = @ \/ ok, !.records = rows, !.rolling = FALSE]
    /\ Reply(i, <<>>) /\ Answer

\* Someone deploys the version.
Deployed ==
    /\ On("Version") /\ ~world /\ world' = TRUE
    /\ UNCHANGED <<page, view, calls, clicks>>

-----------------------------------------------------------------------------
(* BatchDeployView                                                         *)

Empty == [loading |-> FALSE, listed |-> FALSE, batch |-> None, dir |-> None,
          rows |-> None, chosen |-> {}, executing |-> FALSE]

\* onMounted: waits for the settings, unless the store has them; the link may
\* name a version, whose rows follow the list.
LinkedTo(v) == [Empty EXCEPT !.loading = TRUE, !.batch = v,
                             !.dir = IF v = None THEN None ELSE DirOf[v]]

EnterBatch ==
    \E v \in Versions \cup {None} :
        \/ Mount("Batch", Empty, None, <<Call("settings", v)>>)
        \/ Mount("Batch", LinkedTo(v), None, <<Call("firstReady", None)>>)

SettingsArrive(i) ==
    /\ On("Batch") /\ i \in Indices("settings")
    /\ view' = LinkedTo(calls[i].arg)
    /\ Reply(i, <<Call("firstReady", None)>>) /\ Answer

loadVersions ==
    /\ On("Batch") /\ view.batch = None /\ ~view.loading
    /\ view' = [view EXCEPT !.loading = TRUE]
    /\ Send(<<Call("ready", None)>>) /\ User

ReadyArrive(i, ok) ==
    /\ On("Batch") /\ calls[i].op \in {"ready", "firstReady"}
    /\ LET goesOn == ok /\ calls[i].op = "firstReady" /\ view.batch # None
       IN  /\ view' = [view EXCEPT !.listed = @ \/ ok, !.loading = goesOn]
           /\ Reply(i, IF goesOn THEN <<Call("pick", view.batch)>> ELSE <<>>)
    /\ Answer

\* A version of the list that has a directory.
selectVersion(v) ==
    /\ On("Batch") /\ view.batch = None /\ view.listed /\ ~view.loading /\ DirOf[v] # None
    /\ view' = [view EXCEPT !.batch = v, !.dir = DirOf[v], !.loading = TRUE]
    /\ Send(<<Call("pick", v)>>) /\ User

\* The version answered becomes the one chosen, with its deployable files.
loadVersionDetail(i, ok) ==
    /\ On("Batch") /\ i \in Indices("pick")
    /\ LET v == calls[i].arg
       IN  view' = IF ok THEN [view EXCEPT !.batch = v, !.rows = v, !.chosen = FilesOf[v],
                                           !.dir = IF DirOf[v] = None THEN @ ELSE DirOf[v],
                                           !.loading = FALSE]
                   ELSE [view EXCEPT !.loading = FALSE]
    /\ Reply(i, <<>>) /\ Answer

\* Above the overlay, even while a version is loaded or deployed.
resetSelection ==
    /\ On("Batch") /\ view.batch # None
    /\ view' = [view EXCEPT !.batch = None, !.dir = None, !.rows = None, !.chosen = {}]
    /\ UNCHANGED calls /\ User

ChooseFiles(files) ==
    /\ On("Batch") /\ view.rows # None /\ ~view.loading
    /\ files \subseteq FilesOf[view.rows]
    /\ view' = [view EXCEPT !.chosen = files] /\ UNCHANGED calls /\ User

executeDeploy ==
    /\ On("Batch") /\ view.chosen # {} /\ ~view.executing
    /\ view' = [view EXCEPT !.executing = TRUE]
    /\ Send(<<Call("execute", [batch |-> view.batch, dir |-> view.dir, rows |-> view.rows])>>)
    /\ User

\* Success leaves for the queue or the records.
ExecuteFails(i) ==
    /\ On("Batch") /\ i \in Indices("execute")
    /\ view' = [view EXCEPT !.executing = FALSE] /\ Reply(i, <<>>) /\ Answer

-----------------------------------------------------------------------------
Enter == EnterCollect \/ EnterList \/ EnterVersions \/ EnterDetail \/ EnterBatch
Leave == \/ LeaveCollect
         \/ page \in {"Artifacts", "Versions", "Version", "Batch"} /\ LeaveWith({}, {})

AllRows == UNION Listings

UserActs ==
    \/ \E mode \in {"upload", "download"} : SwitchMode(mode)
    \/ loadRemoteDir \/ handleRemoteDownload \/ uploadEntries
    \/ handleLatestChange \/ loadBatches
    \/ \E n \in 1 .. 2 : handlePageChange(n)
    \/ \E n \in {20, 50} : handleSizeChange(n)
    \/ loadDetail \/ loadDeployBatch \/ handleRollback
    \/ \E r \in AllRows : handleRedownloadItem(r) \/ handleReplaceItem(r) \/ handleDeleteItem(r)
    \/ \E yes \in BOOLEAN : handleReplaceInput(yes) \/ AnswerBox(yes)
    \/ loadVersions \/ resetSelection \/ executeDeploy
    \/ \E v \in Versions : selectVersion(v) \/ \E files \in SUBSET FilesOf[v] : ChooseFiles(files)

Arrivals ==
    \/ \E i \in DOMAIN calls :
          \/ UploadFails(i) \/ VersionsArrive(i) \/ SettingsArrive(i) \/ ExecuteFails(i)
          \/ \E ok \in BOOLEAN :
                \/ loadSettingsAndRemoteRoot(i, ok) \/ restoreActiveDownloadJob(i, ok)
                \/ DirArrives(i, ok) \/ DownloadStarted(i, ok) \/ ProgressArrives(i, ok)
                \/ ListArrives(i, ok) \/ DetailArrives(i, ok) \/ BatchArrives(i, ok)
                \/ applyVersionResult(i, ok) \/ RolledBack(i, ok)
                \/ ReadyArrive(i, ok) \/ loadVersionDetail(i, ok)
    \/ On("Collect") /\ \E k \in DOMAIN view.loose : LooseTimerFires(k)
    \/ TimerFires \/ JobEnds \/ Deployed

Next ==
    \/ page \in Views /\ UserActs
    \/ page \in Views \cup {None} /\ Arrivals

-----------------------------------------------------------------------------
Asks == [kind : {"delete", "replace", "rollback"}, file : {r.file : r \in AllRows} \cup {None},
         sure : BOOLEAN]
ListArgs == [latest : BOOLEAN, page : 1 .. 2, size : {20, 50, 500}]

TypeOK ==
    /\ On("Collect") =>
         /\ view.mode \in {"upload", "download"} /\ view.job \in Jobs \cup {None}
         /\ view.timer \in Jobs \cup {None} /\ view.loose \in Seq(Jobs)
         /\ world \subseteq view.started /\ view.started \subseteq Jobs
         /\ {view.configured, view.listed, view.loading, view.uploading, view.runs}
               \subseteq BOOLEAN
    /\ On("Artifacts") =>
         /\ [latest |-> view.latest, page |-> view.page, size |-> view.size] \in ListArgs
         /\ view.rows \in ListArgs \cup {None} /\ {view.loading, view.calm} \subseteq BOOLEAN
    /\ On("Version") =>
         /\ {view.items, view.records} \subseteq Listings \cup {{}}
         /\ {view.box, view.chooser} \subseteq Asks \cup {None}
         /\ {view.operating, view.replacing} \subseteq {r.file : r \in AllRows} \cup {None}
         /\ {view.loading, view.covered, view.batch, view.known, view.rolling, world}
               \subseteq BOOLEAN
    /\ On("Batch") =>
         /\ {view.batch, view.rows} \subseteq Versions \cup {None}
         /\ view.rows # None => view.chosen \subseteq FilesOf[view.rows]
         /\ {view.loading, view.listed, view.executing} \subseteq BOOLEAN

\* An overlay or a spinner has a call in flight whose answer ends it
\* (itemOperatingId, deployLoading, rollbacking, remoteLoading and the others).
BusyEnds ==
    /\ On("Collect") /\ view.loading => InFlight({"dir", "firstDir"})
    /\ On("Collect") /\ view.uploading => InFlight({"upload"})
    /\ On("Artifacts") /\ view.loading => InFlight({"artifacts"})
    /\ On("Versions") /\ view.loading => InFlight({"versions"})
    /\ On("Version") =>
         /\ view.loading => InFlight({"detail"})
         /\ view.covered => InFlight({"batch"})
         /\ view.rolling => InFlight({"rollback"})
         /\ view.operating # None =>
              \E i \in Indices("operate") : calls[i].arg.file = view.operating
    /\ On("Batch") =>
         /\ view.loading => InFlight({"ready", "firstReady", "pick"})
         /\ view.executing => InFlight({"execute"})

(***************************************************************************)
(* An operation on an item goes to the item whose button was pressed, and  *)
(* to a version shown without a deployment, if its deployment had been     *)
(* read when the button was pressed and no read or roll back of it was     *)
(* under way.  A batch names the version its files are of, and that        *)
(* version's directory if it has one, in whatever order the answers for    *)
(* several versions come.                                                  *)
(***************************************************************************)
WritesOwnSubject ==
    /\ On("Version") =>
         \A i \in Indices("operate") :
             LET o == calls[i].arg
             IN  o.file = o.of /\ (o.sure => ~o.deployed)
    /\ On("Batch") =>
         \A i \in Indices("execute") :
             LET e == calls[i].arg
             IN  e.batch = e.rows /\ DirOf[e.batch] \in {e.dir, None}

\* A download shown as running is being followed: as long as no poll failed, a
\* timer is armed or an answer is due, however many downloads were started.
DownloadFollowed ==
    On("Collect") /\ view.calm /\ view.runs =>
        view.timer # None \/ view.loose # <<>> \/ InFlight({"poll"})

\* With nothing in flight the list shows what its controls say, unless a load
\* failed or was overtaken.
RowsOfControls ==
    On("Artifacts") /\ view.calm /\ calls = <<>> => view.rows = ListCall(view).arg

\* Every row of both tables lies under exactly one merged cell, that of its own
\* deployment target.
MergedCellsAgree ==
    On("Version") =>
    \A t \in {"items", "records"} :
        LET rows == IF t = "items" THEN buildVersionRows(view.items)
                    ELSE buildDeployRecordRows(view.records)
            span == IF t = "items" THEN artifactSpanMethod(rows) ELSE deployRecordSpanMethod(rows)
        IN  \A j \in DOMAIN rows :
                \E i \in 1 .. j :
                    /\ i + span[i] > j /\ rows[i].target = rows[j].target
                    /\ \A k \in DOMAIN rows \ {i} : k <= j => k + span[k] <= j
=============================================================================
