-------------------------- MODULE ConsoleViewsProofs --------------------------
(***************************************************************************)
(* Theorems about the console as a whole, for every number of calls in     *)
(* flight, of clicks and of whatever the servers hold, and every order of  *)
(* the answers: which view a step leaves mounted, what a view that was     *)
(* left leaves behind, the session, and what every page promises.          *)
(***************************************************************************)
EXTENDS ConsoleViews, ConsoleProofs, FiniteSetTheorems

-----------------------------------------------------------------------------
(* Which view a step leaves mounted. *)

InShell == page \in {"Login", "Shell"}

LEMMA NoneIsNoView ==
  /\ None \notin Nat /\ None \notin {"Kubernetes", "Login", "Shell"}
  /\ None \notin V!Views /\ None \notin D!Views /\ None \notin Q!Views
  /\ None \notin B!Views /\ None \notin A!Views /\ None \notin T!Tables \cup T!Forms
  BY NoneAssumption DEF Views

LEMMA KubernetesStays ==
  ASSUME K!Next
  PROVE  page = "Kubernetes" /\ page' = page
<1>1. K!Refresh \/ K!CloseDialog \/ K!ConfirmPrompt \/ K!handleSubmitImage
      \/ K!handleSubmitResources => page' = page
  BY DEF K!Refresh, K!User, K!CloseDialog, K!ConfirmPrompt, K!Submit, K!handleSubmitImage,
     K!handleSubmitResources
<1>2. K!handleSubmitService \/ K!handleSaveConfigMap => page' = page
  BY DEF K!handleSubmitService, K!Submit, K!User, K!handleSaveConfigMap
<1>3. \A x : K!SelectNamespace(x) \/ K!SelectTab(x) \/ K!handleRestart(x)
             \/ K!handleScale(x) \/ K!handleUpdateResources(x) => page' = page
  BY DEF K!SelectNamespace, K!User, K!SelectTab, K!handleRestart, K!Ask, K!handleScale,
     K!handleUpdateResources
<1>4. \A x : K!handleEditService(x) \/ K!handleDeleteService(x) \/ K!handleViewLogs(x)
             \/ K!handleUpdateImage(x) \/ K!handleEditConfigMap(x) => page' = page
  BY DEF K!handleEditService, K!Ask, K!User, K!handleDeleteService, K!handleViewLogs,
     K!OpenAndLoad, K!handleUpdateImage, K!handleEditConfigMap
<1>5. \A x : K!handleSyncRuntimeVersions(x) => page' = page
  BY DEF K!handleSyncRuntimeVersions, K!User
<1>6. K!ReloadDue => page' = page
  BY DEF K!ReloadDue, K!Answer
<1>7. \A i : K!SettingsArrive(i) \/ K!NamespacesArrive(i) => page' = page
  BY DEF K!SettingsArrive, K!Answer, K!NamespacesArrive
<1>8. \A i, ok : K!RowsArrive(i, ok) \/ K!MetricsArrive(i, ok)
                 \/ K!ContentArrives(i, ok) \/ K!WriteAnswered(i, ok)
                 \/ K!VersionsSynced(i, ok) => page' = page
  BY DEF K!RowsArrive, K!Answer, K!MetricsArrive, K!ContentArrives, K!WriteAnswered,
     K!VersionsSynced
<1> QED
  BY <1>1, <1>2, <1>3, <1>4, <1>5, <1>6, <1>7, <1>8 DEF K!Next, K!UserActs, K!Arrivals, K!Here

LEMMA ServersStays ==
  ASSUME V!Next
  PROVE  page \in V!Views \cup {None} /\ Stays
<1>1. V!handleAdd \/ V!CloseServerForm \/ V!handleReadKey \/ V!handleSave
      \/ V!handleGoUp => page' = page
  BY DEF V!handleAdd, V!OpenServerForm, V!User, V!CloseServerForm, V!handleReadKey,
     V!handleSave, V!handleGoUp, V!loadFiles
<1>2. V!AskMkdir \/ V!AskRename \/ V!Dismiss \/ V!handleMkdir \/ V!handleRename => page' = page
  BY DEF V!AskMkdir, V!User, V!AskRename, V!Dismiss, V!handleMkdir, V!handleRename
<1>3. V!handleUpload \/ V!handleReconnect => page' = page
  BY DEF V!handleUpload, V!User, V!handleReconnect
<1>4. \A x : V!Search(x) \/ V!handleEdit(x) \/ V!handleDelete(x) \/ V!handleTest(x)
             \/ V!handleNavigate(x) => page' = page
  BY DEF V!Search, V!User, V!handleEdit, V!OpenServerForm, V!handleDelete, V!TouchServer,
     V!handleTest, V!handleNavigate, V!loadFiles
<1>5. \A x : V!handlePathClick(x) => page' = page
  BY DEF V!handlePathClick, V!loadFiles, V!User
<1>6. V!MonitorTick => Stays
  BY NoneIsNoView DEF V!MonitorTick, V!Answer, V!On, Stays
<1>7. \A i : V!FilesServerArrives(i) \/ V!MonitorServerArrives(i) \/ V!SocketOpens(i)
             \/ V!SocketCloses(i) => Stays
  BY NoneIsNoView DEF V!FilesServerArrives, V!Answer, V!MonitorServerArrives, V!SocketOpens,
     V!SocketCloses, V!On, Stays
<1>8. \A i, ok : V!ServersArrive(i, ok) \/ V!KeyArrives(i, ok) \/ V!ServerSaved(i, ok)
                 \/ V!ServerTouched(i, ok) \/ V!FilesArrive(i, ok) => Stays
  BY NoneIsNoView DEF V!ServersArrive, V!Answer, V!KeyArrives, V!ServerSaved, V!ServerTouched,
     V!FilesArrive, V!On, Stays
<1>9. \A i, ok : V!FilesChanged(i, ok) \/ V!TerminalServerArrives(i, ok)
                 \/ V!initTerminal(i, ok) \/ V!fetchMetrics(i, ok) => Stays
  BY NoneIsNoView DEF V!FilesChanged, V!Answer, V!TerminalServerArrives, V!initTerminal,
     V!fetchMetrics, V!On, V!Residue, V!Views, Stays
<1> QED
  BY NoneIsNoView, <1>1, <1>2, <1>3, <1>4, <1>5, <1>6, <1>7, <1>8, <1>9 DEF V!Next,
     V!UserActs, V!Arrivals, V!Views, Stays

LEMMA DeploymentStays ==
  ASSUME D!Next
  PROVE  page \in D!Views \cup {None} /\ Stays
<1>1. D!CloseTop \/ D!saveHosts \/ D!restoreDefaults \/ D!saveOverride \/ D!save => page' = page
  BY DEF D!CloseTop, D!User, D!saveHosts, D!restoreDefaults, D!saveOverride, D!save
<1>2. D!initialize \/ D!verify \/ D!CloseAlert \/ D!loadRuns \/ D!openDialog => page' = page
  BY DEF D!initialize, D!User, D!verify, D!CloseAlert, D!loadRuns, D!openDialog
<1>3. D!CloseDialog \/ D!PickDryRun \/ D!doPreview \/ D!doSubmit \/ D!handleCancel => page' = page
  BY DEF D!CloseDialog, D!User, D!PickDryRun, D!doPreview, D!doSubmit, D!handleCancel
<1>4. D!handleRollback => page' = page
  BY DEF D!handleRollback, D!User
<1>5. \A x : D!toggleEnabled(x) \/ D!openHosts(x) \/ D!openOverride(x)
             \/ D!openTasks(x) \/ D!onComponentChange(x) => page' = page
  BY DEF D!toggleEnabled, D!User, D!openHosts, D!openOverride, D!openTasks,
     D!onComponentChange
<1>6. \A x : D!loadOverrideRows(x) \/ D!PickMode(x) => page' = page
  BY DEF D!loadOverrideRows, D!User, D!PickMode
<1>7. D!RunEnds \/ D!StreamDone \/ D!StreamFails => Stays
  BY NoneIsNoView DEF D!RunEnds, D!StreamDone, D!Answer, D!StreamFails, D!On, D!Views, Stays
<1>8. \A i : D!ConfigSaved(i) \/ D!loadOffline(i) \/ D!RunsArrive(i)
             \/ D!RollbackAnswered(i) => Stays
  BY NoneIsNoView DEF D!ConfigSaved, D!Answer, D!loadOffline, D!RunsArrive,
     D!RollbackAnswered, D!On, Stays
<1>9. \A i, ok : D!ComponentsArrive(i, ok) \/ D!TargetsArrive(i, ok)
                 \/ D!HostsSaved(i, ok) \/ D!OverrideArrives(i, ok)
                 \/ D!DefaultsArrive(i, ok) => Stays
  BY NoneIsNoView DEF D!ComponentsArrive, D!Answer, D!TargetsArrive, D!HostsSaved,
     D!OverrideArrives, D!DefaultsArrive, D!On, Stays
<1>10. \A i, ok : D!OverrideSaved(i, ok) \/ D!TasksArrive(i, ok)
                  \/ D!ConfigArrives(i, ok) \/ D!InstallAnswered(i, ok)
                  \/ D!VerifyAnswered(i, ok) => Stays
  BY NoneIsNoView DEF D!OverrideSaved, D!Answer, D!TasksArrive, D!ConfigArrives,
     D!InstallAnswered, D!VerifyAnswered, D!verify, D!User, D!On, Stays
<1>11. \A i, ok : D!ChoicesArrive(i, ok) \/ D!PreviewArrives(i, ok)
                  \/ D!FormTargetsArrive(i, ok) \/ D!RunCreated(i, ok)
                  \/ D!RunArrives(i, ok) => Stays
  BY NoneIsNoView DEF D!ChoicesArrive, D!Answer, D!PreviewArrives, D!FormTargetsArrive,
     D!RunCreated, D!RunArrives, D!On, Stays
<1>12. \A i, ok : D!HistoryArrives(i, ok) \/ D!CancelAnswered(i, ok) => Stays
  BY NoneIsNoView DEF D!HistoryArrives, D!CancelAnswered, D!Answer, D!On, D!Residue, D!Views,
     Stays
<1>13. \A i, ok, taken : D!EnabledAnswered(i, ok, taken) => Stays
  BY NoneIsNoView DEF D!EnabledAnswered, D!On, D!Views, Stays
<1> QED
  BY NoneIsNoView, <1>1, <1>2, <1>3, <1>4, <1>5, <1>6, <1>7, <1>8, <1>9, <1>10, <1>11, <1>12,
     <1>13 DEF D!Next, D!UserActs, D!Arrivals, D!Views, Stays

LEMMA SqlStays ==
  ASSUME Q!Next
  PROVE  page \in Q!Views \cup {None} /\ Stays
<1>1. Q!OpenWhitelist \/ Q!EditWhitelist \/ Q!CloseWhitelist
      \/ Q!handleSaveSQLForceWhitelist \/ Q!ToggleForce => page' = page
  BY DEF Q!OpenWhitelist, Q!User, Q!EditWhitelist, Q!CloseWhitelist,
     Q!handleSaveSQLForceWhitelist, Q!ToggleForce
<1>2. Q!handleParse \/ Q!handleExecuteContent \/ Q!ConfirmForce \/ Q!ConfirmWarn
      \/ Q!Dismiss => page' = page
  BY DEF Q!handleParse, Q!User, Q!handleExecuteContent, Q!ConfirmForce, Q!ConfirmWarn,
     Q!Dismiss
<1>3. Q!handleExecuteBatch \/ Q!ConfirmBatch \/ Q!handleCancel \/ Q!handleOpenBatch
      \/ Q!handleImportServerSQL => page' = page
  BY DEF Q!handleExecuteBatch, Q!User, Q!ConfirmBatch, Q!handleCancel, Q!handleOpenBatch,
     Q!handleImportServerSQL
<1>4. Q!handleSkipStatement \/ Q!ReloadTasks \/ Q!handleCreateTask
      \/ Q!handleExportPlan \/ Q!loadInstance => page' = page
  BY DEF Q!handleSkipStatement, Q!User, Q!ReloadTasks, Q!handleCreateTask, Q!handleExportPlan,
     Q!loadInstance
<1>5. \A x : Q!TurnPage(x) \/ Q!handleFileChange(x) \/ Q!Type(x) \/ Q!handleOpen(x)
             \/ Q!ConfirmFile(x) => page' = page
  BY DEF Q!TurnPage, Q!User, Q!handleFileChange, Q!Type, Q!handleOpen, Q!ConfirmFile
<1>6. \A x : Q!handleOpenTask(x) \/ Q!operate(x) => page' = page
  BY DEF Q!handleOpenTask, Q!User, Q!operate
<1>7. \A x, y : Q!handleExecuteFile(x, y) \/ Q!AskFile(x, y) => page' = page
  BY DEF Q!handleExecuteFile, Q!User, Q!AskFile
<1>8. \A i : Q!ListsArrive(i) \/ Q!TasksArrive(i) \/ Q!OperationTimesOut(i)
             \/ Q!InstanceArrives(i) \/ Q!OperationEnds(i) => Stays
  BY NoneIsNoView DEF Q!ListsArrive, Q!Answer, Q!TasksArrive, Q!OperationTimesOut, Q!operate,
     Q!Answered, Q!User, Q!loadTasks, Q!InstanceArrives, Q!OperationEnds, Q!On, Q!Can, Q!Views,
     Stays
<1>9. \A i, ok : Q!WhitelistArrives(i, ok) \/ Q!WhitelistSaved(i, ok)
                 \/ Q!Parsed(i, ok) \/ Q!handleParseBatch(i, ok)
                 \/ Q!buildConfirmedOptions(i, ok) => Stays
  BY NoneIsNoView DEF Q!WhitelistArrives, Q!Answer, Q!WhitelistSaved, Q!Parsed,
     Q!handleParseBatch, Q!buildConfirmedOptions, Q!On, Stays
<1>10. \A i, ok : Q!Executed(i, ok) \/ Q!Opened(i, ok) \/ Q!BatchAnswered(i, ok)
                  \/ Q!FileTouched(i, ok) \/ Q!StatementSkipped(i, ok) => Stays
  BY NoneIsNoView DEF Q!Executed, Q!Answer, Q!Opened, Q!BatchAnswered, Q!FileTouched,
     Q!StatementSkipped, Q!On, Stays
<1>11. \A i, ok : Q!TaskCreated(i, ok) \/ Q!TaskOpened(i, ok)
                  \/ Q!OperationAnswered(i, ok) \/ Q!refreshCurrentTask(i, ok)
                  \/ Q!PlanArrives(i, ok) => Stays
  BY NoneIsNoView DEF Q!TaskCreated, Q!loadTasks, Q!TaskOpened, Q!Answer, Q!OperationAnswered,
     Q!operate, Q!Answered, Q!User, Q!refreshCurrentTask, Q!PlanArrives, Q!On, Q!Can, Q!Views,
     Stays
<1> QED
  BY NoneIsNoView, <1>1, <1>2, <1>3, <1>4, <1>5, <1>6, <1>7, <1>8, <1>9, <1>10, <1>11 DEF
     Q!Next, Q!UserActs, Q!Arrivals, Q!Views, Stays

LEMMA BuildsStays ==
  ASSUME B!Next
  PROVE  page \in B!Views \cup {None} /\ Stays
<1>1. B!handleBatchExecute \/ B!handleCreate \/ B!CloseDialog \/ B!Submit
      \/ B!CloseDrawer => page' = page
  BY DEF B!handleBatchExecute, B!User, B!handleCreate, B!CloseDialog, B!Submit, B!CloseDrawer
<1>2. \A x : B!Search(x) \/ B!handlePageChange(x) \/ B!handleSelectionChange(x)
             \/ B!handleEdit(x) \/ B!handleExecute(x) => page' = page
  BY DEF B!Search, B!User, B!handlePageChange, B!handleSelectionChange, B!handleEdit,
     B!handleExecute
<1>3. \A x : B!AskAbout(x) \/ B!AnswerBox(x) \/ B!AnswerQueue(x)
             \/ B!showBatchDetail(x) \/ B!AskQueue(x) => page' = page
  BY DEF B!AskAbout, B!User, B!AnswerBox, B!AnswerQueue, B!showBatchDetail, B!AskQueue
<1>4. \A x : B!selectStage(x) => page' = page
  BY DEF B!selectStage, B!User
<1>5. B!QueueTick \/ B!LogLine \/ B!ServerMoves \/ B!StreamDone \/ B!Poll => Stays
  BY NoneIsNoView DEF B!QueueTick, B!Answer, B!LogLine, B!ServerMoves, B!StreamDone, B!Poll,
     B!On, B!Views, Stays
<1>6. \A i : B!SettingsArrive(i) => Stays
  BY NoneIsNoView DEF B!SettingsArrive, B!Answer, B!On, Stays
<1>7. \A i, ok : B!loadAll(i, ok) \/ B!Submitted(i, ok) \/ B!Touched(i, ok)
                 \/ B!load(i, ok) \/ B!DetailArrives(i, ok) => Stays
  BY NoneIsNoView DEF B!loadAll, B!Answer, B!Submitted, B!Touched, B!load, B!DetailArrives,
     B!On, B!Residue, B!List, B!Views, Stays
<1>8. \A i, ok : B!QueuedCanceled(i, ok) \/ B!FirstTaskArrives(i, ok)
                 \/ B!LogsArrive(i, ok) \/ B!refreshPipeline(i, ok)
                 \/ B!DashboardArrives(i, ok) => Stays
  BY NoneIsNoView DEF B!QueuedCanceled, B!Answer, B!FirstTaskArrives, B!LogsArrive,
     B!refreshPipeline, B!DashboardArrives, B!On, Stays
<1>9. \A i, ok : B!handleDeployBatch(i, ok) => Stays
  BY NoneIsNoView DEF B!handleDeployBatch, B!DeployNext, B!Answer, B!On, Stays
<1>10. \A i, ok : B!DeployAnswered(i, ok) => Stays
  BY NoneIsNoView DEF B!DeployAnswered, B!DeployNext, B!On, B!Views, Stays
<1>11. \A i, ok : B!FirstLogsArrive(i, ok) => Stays
  BY NoneIsNoView DEF B!FirstLogsArrive, B!On, B!Residue, B!Views, Stays
<1> QED
  BY NoneIsNoView, <1>1, <1>2, <1>3, <1>4, <1>5, <1>6, <1>7, <1>8, <1>9, <1>10, <1>11 DEF
     B!Next, B!UserActs, B!Arrivals, B!Views, Stays

LEMMA SettingsStays ==
  ASSUME T!Next
  PROVE  page \in T!Tables \cup T!Forms /\ page' = page
<1>1. T!handleSearch \/ T!handleSizeChange \/ T!handleAdd \/ T!CloseForm
      \/ T!handleSave => page' = page
  BY DEF T!handleSearch, T!Reloads, T!User, T!handleSizeChange, T!handleAdd, T!CloseForm,
     T!handleSave
<1>2. T!TypeSetting \/ T!handleSaveGeneral \/ T!saveSettings \/ T!handleReadKubeconfig
      \/ T!handleLoadNamespaces => page' = page
  BY DEF T!TypeSetting, T!User, T!handleSaveGeneral, T!PutSettings, T!saveSettings,
     T!handleReadKubeconfig, T!handleLoadNamespaces
<1>3. \A x : T!TypeSearch(x) \/ T!handlePageChange(x) \/ T!FillForm(x)
             \/ T!handleEdit(x) \/ T!handleDelete(x) => page' = page
  BY DEF T!TypeSearch, T!User, T!handlePageChange, T!Reloads, T!FillForm, T!handleEdit,
     T!handleDelete
<1>4. \A x : T!handleTestNotify(x) \/ T!SwitchTab(x) \/ T!testConnection(x) => page' = page
  BY DEF T!handleTestNotify, T!User, T!SwitchTab, T!testConnection
<1>5. \A i : T!TestAnswered(i) \/ T!ProbeAnswered(i) => page' = page
  BY DEF T!TestAnswered, T!Answer, T!ProbeAnswered
<1>6. \A i, ok : T!RowsArrive(i, ok) \/ T!RowSaved(i, ok) \/ T!RowDeleted(i, ok)
                 \/ T!SettingsArrive(i, ok) \/ T!SettingsPut(i, ok) => page' = page
  BY DEF T!RowsArrive, T!Answer, T!RowSaved, T!Wrote, T!Writes, T!RowDeleted,
     T!SettingsArrive, T!SettingsPut
<1>7. \A i, ok : T!StoreArrives(i, ok) \/ T!KubeconfigArrives(i, ok)
                 \/ T!NamespacesArrive(i, ok) => page' = page
  BY DEF T!StoreArrives, T!KubeconfigArrives, T!Answer, T!NamespacesArrive
<1> QED
  BY <1>1, <1>2, <1>3, <1>4, <1>5, <1>6, <1>7 DEF T!Next, T!UserActs, T!Arrivals

LEMMA ShellStays ==
  ASSUME L!Next
  PROVE  InShell /\ InShell'
<1>0. InShell
  BY DEF L!Next, L!InApp, InShell
<1>1. L!handleContextClose \/ L!handleContextCloseOthers \/ L!handleContextCloseAll
      \/ L!OpenDrawer \/ L!handleMarkAllRead => page' = page
  BY DEF L!handleContextClose, L!handleTabClose, L!User, L!handleContextCloseOthers, L!Pushes,
     L!handleContextCloseAll, L!OpenDrawer, L!handleMarkAllRead
<1>2. L!CloseDialog \/ L!OpenProfile \/ L!handleSaveProfile \/ L!OpenPassword
      \/ L!handleSendCode => page' = page
  BY DEF L!CloseDialog, L!User, L!OpenProfile, L!handleSaveProfile, L!OpenPassword,
     L!handleSendCode
<1>3. L!handleSavePassword \/ L!handleLogout \/ L!handleLogin => page' = page
  BY DEF L!handleSavePassword, L!User, L!handleLogout, L!handleLogin
<1>4. \A x : L!Menu(x) \/ L!handleTabClick(x) \/ L!CloseIcon(x)
             \/ L!handleTabContextMenu(x) => page' = page
  BY DEF L!Menu, L!Pushes, L!User, L!handleTabClick, L!CloseIcon, L!handleTabClose,
     L!handleTabContextMenu
<1>5. L!NotifyTick \/ L!NewMessage \/ L!CountdownEnds \/ L!OtherTab => InShell'
  BY <1>0 DEF L!NotifyTick, L!NewMessage, L!CountdownEnds, L!Answer, L!OtherTab, InShell
<1>6. \A i : L!RouteSettles(i) \/ L!ChunkFails(i) \/ L!Unauthorized(i)
             \/ L!LoggedOut(i) \/ L!ShellOpens(i) => InShell'
  BY <1>0 DEF L!RouteSettles, L!ToLogin, L!ChunkFails, L!Answer, L!Unauthorized, L!Reload,
     L!LoggedOut, L!ShellOpens, InShell
<1>7. \A i : L!Unheard(i) \/ L!loadNotifications(i) => InShell'
  BY <1>0 DEF L!Unheard, L!Reload, L!Answer, L!loadNotifications, InShell
<1>8. \A i, ok : L!UnreadArrives(i, ok) \/ L!MarkedRead(i, ok)
                 \/ L!SettingsArrive(i, ok) \/ L!loadProfile(i, ok)
                 \/ L!ProfileSaved(i, ok) => InShell'
  BY <1>0 DEF L!UnreadArrives, L!Answer, L!MarkedRead, L!SettingsArrive, L!loadProfile,
     L!ProfileSaved, InShell
<1>9. \A i, ok : L!CodeSent(i, ok) \/ L!PasswordChanged(i, ok) \/ L!LoggedIn(i, ok) => InShell'
  BY <1>0 DEF L!CodeSent, L!Answer, L!PasswordChanged, L!Reload, L!LoggedIn, InShell
<1> QED
  BY <1>0, <1>1, <1>2, <1>3, <1>4, <1>5, <1>6, <1>7, <1>8, <1>9 DEF L!Next, L!UserActs,
     L!Arrivals, InShell, L!InApp

\* A view is mounted from the blank page, and leads back to it.
LEMMA Mounts ==
  /\ K!Enter => page' = "Kubernetes"
  /\ V!Enter => page' \in V!Views
  /\ D!Enter => page' \in D!Views
  /\ Q!Enter => page' \in Q!Views
  /\ A!Enter => page' \in A!Views
  /\ T!Enter => page' \in T!Tables \cup T!Forms
<1>1. K!Enter => page' = "Kubernetes"
  BY DEF K!Enter, K!onMounted, K!Mount
<1>2. V!Enter => page' \in V!Views
  BY DEF V!Enter, V!EnterServers, V!EnterFiles, V!EnterTerminal, V!EnterMonitor, V!Mount,
     V!Views
<1>3. D!Enter => page' \in D!Views
  BY DEF D!Enter, D!load, D!EnterGlobal, D!EnterRuns, D!EnterRunDetail, D!Mount, D!Views
<1>4. Q!Enter => page' \in Q!Views
  BY DEF Q!Enter, Q!EnterSql, Q!EnterViewDeps, Q!EnterInstance, Q!Mount, Q!Views
<1>5. A!Enter => page' \in A!Views
  BY DEF A!Enter, A!EnterCollect, A!EnterList, A!EnterVersions, A!EnterDetail, A!EnterBatch,
     A!Mount, A!Views
<1>6. T!Enter => page' \in T!Tables \cup T!Forms
  BY DEF T!Enter, T!EnterApps, T!EnterBuildConfigs, T!EnterConfigItems, T!EnterTable,
     T!EnterEnvironment, T!EnterSettings, T!Mount, T!Tables, T!Forms
<1> QED
  BY <1>1, <1>2, <1>3, <1>4, <1>5, <1>6

LEMMA MountsToo ==
  /\ B!Enter => page' \in B!Views
  /\ L!Enter => InShell'
<1>1. B!Enter => page' \in B!Views
  BY DEF B!Enter, B!EnterTasks, B!EnterReleases, B!EnterQueue, B!EnterPipeline,
     B!EnterDashboard, B!Mount, B!Views
<1>2. L!Enter => InShell'
  BY DEF L!Enter, L!EnterShell, L!EnterLogin, L!Mount, InShell
<1> QED
  BY <1>1, <1>2

LEMMA Unmounts ==
  ASSUME Leave PROVE page' = None
  BY DEF Leave, K!Leave, K!LeaveWith, V!Leave, V!LeavePlain, V!LeaveTerminal, V!LeaveMonitor,
     V!LeaveWith, D!Leave, D!LeavePlain, D!LeaveRunDetail, D!LeaveWith, Q!Leave, Q!LeaveWith,
     B!Leave, B!LeaveQueue, B!LeavePipeline, B!LeaveWith, A!Leave, A!LeaveCollect, A!LeaveWith,
     T!Leave, T!LeaveWith, L!Leave, L!LeaveWith

-----------------------------------------------------------------------------
(* The page modules are instanced here once more, with what is proved of   *)
(* them.  Two instances of a module with the same constants say the same;  *)
(* the provers see it with every definition expanded in both.              *)

BP == INSTANCE BuildPagesProofs WITH MaxClicks <- Clicks.builds, ArtifactClicks <- MaxClicks,
                                     DeployClicks <- Clicks.deployment
SP == INSTANCE AdminViewsProofs WITH ServerClicks <- Clicks.servers,
                                     KubernetesClicks <- Clicks.kubernetes,
                                     SqlClicks <- Clicks.sql

LEMMA SameBuildMounts ==
  /\ B!Enter => BP!Enter
  /\ B!Leave => BP!Leave
  BY Zenon DEF
    B!Enter, BP!Enter, B!Leave, BP!Leave, B!EnterTasks, BP!EnterTasks, B!EnterReleases,
    BP!EnterReleases, B!EnterQueue, BP!EnterQueue, B!EnterPipeline, BP!EnterPipeline,
    B!EnterDashboard, BP!EnterDashboard, B!LeaveQueue, BP!LeaveQueue, B!LeavePipeline,
    BP!LeavePipeline, B!List, BP!List, B!On, BP!On, B!LeaveWith, BP!LeaveWith, B!Mount,
    BP!Mount, B!Call, BP!Call, B!Ready, BP!Ready, B!Sent, BP!Sent, B!pipelineIds,
    BP!pipelineIds, B!Batches, BP!Batches, B!Outdates, BP!Outdates, B!Range, BP!Range

LEMMA SameBuilds ==
  /\ B!Next => BP!Next
  BY Zenon DEF
    B!Next, BP!Next, B!Views, BP!Views, B!UserActs, BP!UserActs, B!Arrivals, BP!Arrivals,
    B!Search, BP!Search, B!handlePageChange, BP!handlePageChange, B!handleSelectionChange,
    BP!handleSelectionChange, B!handleEdit, BP!handleEdit, B!handleExecute,
    BP!handleExecute, B!handleBatchExecute, BP!handleBatchExecute, B!handleCreate,
    BP!handleCreate, B!CloseDialog, BP!CloseDialog, B!Submit, BP!Submit, B!CloseDrawer,
    BP!CloseDrawer, B!AskAbout, BP!AskAbout, B!AnswerBox, BP!AnswerBox, B!AnswerQueue,
    BP!AnswerQueue, B!Batches, BP!Batches, B!showBatchDetail, BP!showBatchDetail,
    B!AskQueue, BP!AskQueue, B!selectStage, BP!selectStage, B!SettingsArrive,
    BP!SettingsArrive, B!loadAll, BP!loadAll, B!Submitted, BP!Submitted, B!Touched,
    BP!Touched, B!load, BP!load, B!DetailArrives, BP!DetailArrives, B!QueuedCanceled,
    BP!QueuedCanceled, B!handleDeployBatch, BP!handleDeployBatch, B!DeployAnswered,
    BP!DeployAnswered, B!FirstTaskArrives, BP!FirstTaskArrives, B!FirstLogsArrive,
    BP!FirstLogsArrive, B!LogsArrive, BP!LogsArrive, B!refreshPipeline, BP!refreshPipeline,
    B!DashboardArrives, BP!DashboardArrives, B!QueueTick, BP!QueueTick, B!LogLine,
    BP!LogLine, B!ServerMoves, BP!ServerMoves, B!StreamDone, BP!StreamDone, B!Poll, BP!Poll,
    B!Uncovered, BP!Uncovered, B!On, BP!On, B!Covered, BP!Covered, B!Send, BP!Send,
    B!ListCall, BP!ListCall, B!User, BP!User, B!Row, BP!Row, B!Dialog, BP!Dialog, B!Call,
    BP!Call, B!List, BP!List, B!QueueRow, BP!QueueRow, B!Indices, BP!Indices, B!Reply,
    BP!Reply, B!Answer, BP!Answer, B!Residue, BP!Residue, B!DeployNext, BP!DeployNext,
    B!pipelineIds, BP!pipelineIds, B!Sent, BP!Sent, B!Without, BP!Without, B!Outdates,
    BP!Outdates, B!Range, BP!Range

LEMMA SameBuildConstants ==
  /\ B!NoneApart => BP!NoneApart
  /\ B!RecordsAreLists => BP!RecordsAreLists
  BY Zenon DEF
    B!NoneApart, BP!NoneApart, B!RecordsAreLists, BP!RecordsAreLists, B!Views, BP!Views,
    B!Batches, BP!Batches, B!Range, BP!Range

LEMMA SameBuildPromises ==
  /\ BP!TypeOK => B!TypeOK
  /\ BP!BusyEnds => B!BusyEnds
  /\ BP!WritesOwnSubject => B!WritesOwnSubject
  /\ BP!DrawerMatches => B!DrawerMatches
  /\ BP!ReportedIsDeployed => B!ReportedIsDeployed
  /\ BP!FollowsPipeline => B!FollowsPipeline
  BY Zenon DEF
    BP!TypeOK, B!TypeOK, BP!BusyEnds, B!BusyEnds, BP!WritesOwnSubject, B!WritesOwnSubject,
    BP!DrawerMatches, B!DrawerMatches, BP!ReportedIsDeployed, B!ReportedIsDeployed,
    BP!FollowsPipeline, B!FollowsPipeline, BP!List, B!List, BP!ListArgs, B!ListArgs,
    BP!Dialogs, B!Dialogs, BP!On, B!On, BP!Batches, B!Batches, BP!Ready, B!Ready,
    BP!InFlight, B!InFlight, BP!Indices, B!Indices, BP!pipelineIds, B!pipelineIds, BP!Range,
    B!Range

LEMMA SameShellMounts ==
  /\ L!Enter => SP!Enter
  /\ L!Leave => SP!Leave
  BY Zenon DEF
    L!Enter, SP!Enter, L!Leave, SP!Leave, L!EnterShell, SP!EnterShell, L!EnterLogin,
    SP!EnterLogin, L!InApp, SP!InApp, L!LeaveWith, SP!LeaveWith, L!Call, SP!Call, L!Mount,
    SP!Mount, L!Layout, SP!Layout, L!World, SP!World, L!LoginRefs, SP!LoginRefs, L!Sent,
    SP!Sent, L!Home, SP!Home, L!Outdates, SP!Outdates

LEMMA SameShell ==
  /\ L!Next => SP!Next
  BY Zenon DEF
    L!Next, SP!Next, L!InApp, SP!InApp, L!UserActs, SP!UserActs, L!Arrivals, SP!Arrivals,
    L!Menu, SP!Menu, L!handleTabClick, SP!handleTabClick, L!CloseIcon, SP!CloseIcon,
    L!handleTabContextMenu, SP!handleTabContextMenu, L!handleContextClose,
    SP!handleContextClose, L!handleContextCloseOthers, SP!handleContextCloseOthers,
    L!handleContextCloseAll, SP!handleContextCloseAll, L!OpenDrawer, SP!OpenDrawer,
    L!handleMarkAllRead, SP!handleMarkAllRead, L!CloseDialog, SP!CloseDialog, L!OpenProfile,
    SP!OpenProfile, L!handleSaveProfile, SP!handleSaveProfile, L!OpenPassword,
    SP!OpenPassword, L!handleSendCode, SP!handleSendCode, L!handleSavePassword,
    SP!handleSavePassword, L!handleLogout, SP!handleLogout, L!handleLogin, SP!handleLogin,
    L!RouteSettles, SP!RouteSettles, L!ChunkFails, SP!ChunkFails, L!Unauthorized,
    SP!Unauthorized, L!LoggedOut, SP!LoggedOut, L!ShellOpens, SP!ShellOpens, L!Unheard,
    SP!Unheard, L!loadNotifications, SP!loadNotifications, L!UnreadArrives,
    SP!UnreadArrives, L!MarkedRead, SP!MarkedRead, L!SettingsArrive, SP!SettingsArrive,
    L!loadProfile, SP!loadProfile, L!ProfileSaved, SP!ProfileSaved, L!CodeSent, SP!CodeSent,
    L!PasswordChanged, SP!PasswordChanged, L!LoggedIn, SP!LoggedIn, L!NotifyTick,
    SP!NotifyTick, L!NewMessage, SP!NewMessage, L!CountdownEnds, SP!CountdownEnds,
    L!OtherTab, SP!OtherTab, L!OnTabs, SP!OnTabs, L!Pushes, SP!Pushes, L!handleTabClose,
    SP!handleTabClose, L!User, SP!User, L!closeContextMenu, SP!closeContextMenu, L!OnlyTab,
    SP!OnlyTab, L!Home, SP!Home, L!Part, SP!Part, L!NoDialog, SP!NoDialog, L!Send, SP!Send,
    L!Api, SP!Api, L!On, SP!On, L!InFlight, SP!InFlight, L!Indices, SP!Indices, L!ToLogin,
    SP!ToLogin, L!Without, SP!Without, L!WithTab, SP!WithTab, L!Reply, SP!Reply, L!Answer,
    SP!Answer, L!ApiOps, SP!ApiOps, L!Reload, SP!Reload, L!Layout, SP!Layout, L!LayoutCalls,
    SP!LayoutCalls, L!push, SP!push, L!Sent, SP!Sent, L!Call, SP!Call, L!LoginRefs,
    SP!LoginRefs, L!Orphan, SP!Orphan, L!Outdates, SP!Outdates, L!Range, SP!Range

LEMMA SameShellConstants ==
  /\ L!ShellConstants => SP!ShellConstants
  BY Zenon DEF
    L!ShellConstants, SP!ShellConstants, L!Home, SP!Home

LEMMA SameShellPromises ==
  /\ SP!TypeOK => L!TypeOK
  /\ SP!BusyEnds => L!BusyEnds
  /\ SP!RouteHasTab => L!RouteHasTab
  /\ SP!SessionKept => L!SessionKept
  /\ SP!WritesOwnSubject => L!WritesOwnSubject
  /\ SP!BadgeIsServed => L!BadgeIsServed
  BY Zenon DEF
    SP!TypeOK, L!TypeOK, SP!BusyEnds, L!BusyEnds, SP!RouteHasTab, L!RouteHasTab,
    SP!SessionKept, L!SessionKept, SP!WritesOwnSubject, L!WritesOwnSubject,
    SP!BadgeIsServed, L!BadgeIsServed, SP!InApp, L!InApp, SP!Sessions, L!Sessions, SP!On,
    L!On, SP!InFlight, L!InFlight, SP!ApiOps, L!ApiOps, SP!Indices, L!Indices, SP!Range,
    L!Range, SP!IsInjective, L!IsInjective

LEMMA SameServerMounts ==
  /\ V!Enter => SP!V!Enter
  /\ V!Leave => SP!V!Leave
  BY Zenon DEF
    V!Enter, SP!V!Enter, V!Leave, SP!V!Leave, V!EnterServers, SP!V!EnterServers,
    V!EnterFiles, SP!V!EnterFiles, V!EnterTerminal, SP!V!EnterTerminal, V!EnterMonitor,
    SP!V!EnterMonitor, V!LeavePlain, SP!V!LeavePlain, V!LeaveTerminal, SP!V!LeaveTerminal,
    V!LeaveMonitor, SP!V!LeaveMonitor, V!Mount, SP!V!Mount, V!Call, SP!V!Call, V!On,
    SP!V!On, V!LeaveWith, SP!V!LeaveWith, V!Residue, SP!V!Residue, V!Sent, SP!V!Sent,
    V!Outdates, SP!V!Outdates

LEMMA SameServers ==
  /\ V!Next => SP!V!Next
  BY Zenon DEF
    V!Next, SP!V!Next, V!Views, SP!V!Views, V!UserActs, SP!V!UserActs, V!Arrivals,
    SP!V!Arrivals, V!Search, SP!V!Search, V!handleAdd, SP!V!handleAdd, V!CloseServerForm,
    SP!V!CloseServerForm, V!handleReadKey, SP!V!handleReadKey, V!handleSave,
    SP!V!handleSave, V!handleEdit, SP!V!handleEdit, V!handleDelete, SP!V!handleDelete,
    V!handleTest, SP!V!handleTest, V!handleNavigate, SP!V!handleNavigate, V!handleGoUp,
    SP!V!handleGoUp, V!AskMkdir, SP!V!AskMkdir, V!AskRename, SP!V!AskRename, V!Dismiss,
    SP!V!Dismiss, V!handlePathClick, SP!V!handlePathClick, V!handleMkdir, SP!V!handleMkdir,
    V!handleRename, SP!V!handleRename, V!handleUpload, SP!V!handleUpload, V!handleReconnect,
    SP!V!handleReconnect, V!FilesServerArrives, SP!V!FilesServerArrives,
    V!MonitorServerArrives, SP!V!MonitorServerArrives, V!ServersArrive, SP!V!ServersArrive,
    V!KeyArrives, SP!V!KeyArrives, V!ServerSaved, SP!V!ServerSaved, V!ServerTouched,
    SP!V!ServerTouched, V!FilesArrive, SP!V!FilesArrive, V!FilesChanged, SP!V!FilesChanged,
    V!TerminalServerArrives, SP!V!TerminalServerArrives, V!initTerminal, SP!V!initTerminal,
    V!fetchMetrics, SP!V!fetchMetrics, V!MonitorTick, SP!V!MonitorTick, V!SocketOpens,
    SP!V!SocketOpens, V!SocketCloses, SP!V!SocketCloses, V!On, SP!V!On, V!Send, SP!V!Send,
    V!Call, SP!V!Call, V!User, SP!V!User, V!OpenServerForm, SP!V!OpenServerForm,
    V!TouchServer, SP!V!TouchServer, V!Parent, SP!V!Parent, V!loadFiles, SP!V!loadFiles,
    V!Closing, SP!V!Closing, V!InFlight, SP!V!InFlight, V!Indices, SP!V!Indices, V!Reply,
    SP!V!Reply, V!Answer, SP!V!Answer, V!Calmly, SP!V!Calmly, V!loadServers,
    SP!V!loadServers, V!Residue, SP!V!Residue, V!Sent, SP!V!Sent, V!Load, SP!V!Load,
    V!Without, SP!V!Without, V!Outdates, SP!V!Outdates

LEMMA SameServerConstants ==
  /\ V!ServersConstants => SP!V!ServersConstants
  BY Zenon DEF
    V!ServersConstants, SP!V!ServersConstants, V!Views, SP!V!Views, V!Range, SP!V!Range

LEMMA SameServerPromises ==
  /\ SP!V!TypeOK => V!TypeOK
  /\ SP!V!BusyEnds => V!BusyEnds
  /\ SP!V!RenameKeepsDirectory => V!RenameKeepsDirectory
  /\ SP!V!KeyOfItsForm => V!KeyOfItsForm
  /\ SP!V!ConnectedHasSocket => V!ConnectedHasSocket
  BY Zenon DEF
    SP!V!TypeOK, V!TypeOK, SP!V!BusyEnds, V!BusyEnds, SP!V!RenameKeepsDirectory,
    V!RenameKeepsDirectory, SP!V!KeyOfItsForm, V!KeyOfItsForm, SP!V!ConnectedHasSocket,
    V!ConnectedHasSocket, SP!V!On, V!On, SP!V!FormType, V!FormType, SP!V!InFlight,
    V!InFlight, SP!V!Indices, V!Indices

LEMMA SameArtifactMounts ==
  /\ A!Enter => BP!A!Enter
  /\ A!Leave => BP!A!Leave
  BY Zenon DEF
    A!Enter, BP!A!Enter, A!Leave, BP!A!Leave, A!EnterCollect, BP!A!EnterCollect,
    A!EnterList, BP!A!EnterList, A!EnterVersions, BP!A!EnterVersions, A!EnterDetail,
    BP!A!EnterDetail, A!EnterBatch, BP!A!EnterBatch, A!LeaveCollect, BP!A!LeaveCollect,
    A!LeaveWith, BP!A!LeaveWith, A!Mount, BP!A!Mount, A!Call, BP!A!Call, A!ListCall,
    BP!A!ListCall, A!Empty, BP!A!Empty, A!LinkedTo, BP!A!LinkedTo, A!On, BP!A!On, A!Residue,
    BP!A!Residue, A!Sent, BP!A!Sent, A!Outdates, BP!A!Outdates

LEMMA SameArtifacts ==
  /\ A!Next => BP!A!Next
  BY Zenon DEF
    A!Next, BP!A!Next, A!Views, BP!A!Views, A!UserActs, BP!A!UserActs, A!Arrivals,
    BP!A!Arrivals, A!SwitchMode, BP!A!SwitchMode, A!loadRemoteDir, BP!A!loadRemoteDir,
    A!handleRemoteDownload, BP!A!handleRemoteDownload, A!uploadEntries, BP!A!uploadEntries,
    A!handleLatestChange, BP!A!handleLatestChange, A!loadBatches, BP!A!loadBatches,
    A!handlePageChange, BP!A!handlePageChange, A!handleSizeChange, BP!A!handleSizeChange,
    A!loadDetail, BP!A!loadDetail, A!loadDeployBatch, BP!A!loadDeployBatch,
    A!handleRollback, BP!A!handleRollback, A!AllRows, BP!A!AllRows, A!handleRedownloadItem,
    BP!A!handleRedownloadItem, A!handleReplaceItem, BP!A!handleReplaceItem,
    A!handleDeleteItem, BP!A!handleDeleteItem, A!handleReplaceInput,
    BP!A!handleReplaceInput, A!AnswerBox, BP!A!AnswerBox, A!loadVersions, BP!A!loadVersions,
    A!resetSelection, BP!A!resetSelection, A!executeDeploy, BP!A!executeDeploy,
    A!selectVersion, BP!A!selectVersion, A!ChooseFiles, BP!A!ChooseFiles, A!UploadFails,
    BP!A!UploadFails, A!VersionsArrive, BP!A!VersionsArrive, A!SettingsArrive,
    BP!A!SettingsArrive, A!ExecuteFails, BP!A!ExecuteFails, A!loadSettingsAndRemoteRoot,
    BP!A!loadSettingsAndRemoteRoot, A!restoreActiveDownloadJob,
    BP!A!restoreActiveDownloadJob, A!DirArrives, BP!A!DirArrives, A!DownloadStarted,
    BP!A!DownloadStarted, A!ProgressArrives, BP!A!ProgressArrives, A!ListArrives,
    BP!A!ListArrives, A!DetailArrives, BP!A!DetailArrives, A!BatchArrives,
    BP!A!BatchArrives, A!applyVersionResult, BP!A!applyVersionResult, A!RolledBack,
    BP!A!RolledBack, A!ReadyArrive, BP!A!ReadyArrive, A!loadVersionDetail,
    BP!A!loadVersionDetail, A!On, BP!A!On, A!LooseTimerFires, BP!A!LooseTimerFires,
    A!TimerFires, BP!A!TimerFires, A!JobEnds, BP!A!JobEnds, A!Deployed, BP!A!Deployed,
    A!Send, BP!A!Send, A!Call, BP!A!Call, A!User, BP!A!User, A!LoadList, BP!A!LoadList,
    A!Free, BP!A!Free, A!Row, BP!A!Row, A!Operate, BP!A!Operate, A!Asked, BP!A!Asked,
    A!Indices, BP!A!Indices, A!Reply, BP!A!Reply, A!Answer, BP!A!Answer, A!LinkedTo,
    BP!A!LinkedTo, A!pollDownload, BP!A!pollDownload, A!Poll, BP!A!Poll, A!Arm, BP!A!Arm,
    A!Residue, BP!A!Residue, A!Calmly, BP!A!Calmly, A!Fires, BP!A!Fires, A!Without,
    BP!A!Without, A!Sent, BP!A!Sent, A!ListCall, BP!A!ListCall, A!InFlight, BP!A!InFlight,
    A!Empty, BP!A!Empty, A!Outdates, BP!A!Outdates

LEMMA SameArtifactConstants ==
  /\ A!NoneApart => BP!A!NoneApart
  BY Zenon DEF
    A!NoneApart, BP!A!NoneApart, A!Views, BP!A!Views

LEMMA SameArtifactPromises ==
  /\ BP!A!TypeOK => A!TypeOK
  /\ BP!A!BusyEnds => A!BusyEnds
  /\ BP!A!WritesOwnSubject => A!WritesOwnSubject
  /\ BP!A!DownloadFollowed => A!DownloadFollowed
  /\ BP!A!RowsOfControls => A!RowsOfControls
  BY Zenon DEF
    BP!A!TypeOK, A!TypeOK, BP!A!BusyEnds, A!BusyEnds, BP!A!WritesOwnSubject,
    A!WritesOwnSubject, BP!A!DownloadFollowed, A!DownloadFollowed, BP!A!RowsOfControls,
    A!RowsOfControls, BP!A!On, A!On, BP!A!ListArgs, A!ListArgs, BP!A!Asks, A!Asks,
    BP!A!AllRows, A!AllRows, BP!A!InFlight, A!InFlight, BP!A!Indices, A!Indices,
    BP!A!ListCall, A!ListCall, BP!A!Call, A!Call

LEMMA SameSettingsMounts ==
  /\ T!Enter => SP!T!Enter
  /\ T!Leave => SP!T!Leave
  BY Zenon DEF
    T!Enter, SP!T!Enter, T!Leave, SP!T!Leave, T!EnterApps, SP!T!EnterApps,
    T!EnterBuildConfigs, SP!T!EnterBuildConfigs, T!EnterConfigItems, SP!T!EnterConfigItems,
    T!EnterEnvironment, SP!T!EnterEnvironment, T!EnterSettings, SP!T!EnterSettings,
    T!Tables, SP!T!Tables, T!Forms, SP!T!Forms, T!LeaveWith, SP!T!LeaveWith, T!EnterTable,
    SP!T!EnterTable, T!Mount, SP!T!Mount, T!AtFirst, SP!T!AtFirst, T!Call, SP!T!Call,
    T!TableRefs, SP!T!TableRefs, T!List, SP!T!List, T!Sent, SP!T!Sent, T!Outdates,
    SP!T!Outdates

LEMMA SameSettings ==
  /\ T!Next => SP!T!Next
  BY Zenon DEF
    T!Next, SP!T!Next, T!Tables, SP!T!Tables, T!Forms, SP!T!Forms, T!UserActs,
    SP!T!UserActs, T!Arrivals, SP!T!Arrivals, T!TypeSearch, SP!T!TypeSearch,
    T!handlePageChange, SP!T!handlePageChange, T!handleSearch, SP!T!handleSearch,
    T!handleSizeChange, SP!T!handleSizeChange, T!handleAdd, SP!T!handleAdd, T!CloseForm,
    SP!T!CloseForm, T!handleSave, SP!T!handleSave, T!FillForm, SP!T!FillForm, T!handleEdit,
    SP!T!handleEdit, T!handleDelete, SP!T!handleDelete, T!handleTestNotify,
    SP!T!handleTestNotify, T!SwitchTab, SP!T!SwitchTab, T!TypeSetting, SP!T!TypeSetting,
    T!handleSaveGeneral, SP!T!handleSaveGeneral, T!saveSettings, SP!T!saveSettings,
    T!testConnection, SP!T!testConnection, T!handleReadKubeconfig,
    SP!T!handleReadKubeconfig, T!handleLoadNamespaces, SP!T!handleLoadNamespaces,
    T!TestAnswered, SP!T!TestAnswered, T!ProbeAnswered, SP!T!ProbeAnswered, T!RowsArrive,
    SP!T!RowsArrive, T!RowSaved, SP!T!RowSaved, T!RowDeleted, SP!T!RowDeleted,
    T!SettingsArrive, SP!T!SettingsArrive, T!SettingsPut, SP!T!SettingsPut, T!StoreArrives,
    SP!T!StoreArrives, T!KubeconfigArrives, SP!T!KubeconfigArrives, T!NamespacesArrive,
    SP!T!NamespacesArrive, T!On, SP!T!On, T!User, SP!T!User, T!Reloads, SP!T!Reloads,
    T!HasTable, SP!T!HasTable, T!Send, SP!T!Send, T!Call, SP!T!Call, T!OnRow, SP!T!OnRow,
    T!loadGeneral, SP!T!loadGeneral, T!List, SP!T!List, T!PutSettings, SP!T!PutSettings,
    T!OnForm, SP!T!OnForm, T!Indices, SP!T!Indices, T!Reply, SP!T!Reply, T!Answer,
    SP!T!Answer, T!Calmly, SP!T!Calmly, T!Written, SP!T!Written, T!Wrote, SP!T!Wrote,
    T!Stored, SP!T!Stored, T!InFlight, SP!T!InFlight, T!Reload, SP!T!Reload, T!Sent,
    SP!T!Sent, T!Without, SP!T!Without, T!Writes, SP!T!Writes, T!Overlaid, SP!T!Overlaid,
    T!Outdates, SP!T!Outdates

LEMMA SameSettingsConstants ==
  /\ T!SettingsConstants => SP!T!SettingsConstants
  BY Zenon DEF
    T!SettingsConstants, SP!T!SettingsConstants, T!Tables, SP!T!Tables, T!Forms, SP!T!Forms

LEMMA SameSettingsPromises ==
  /\ SP!T!TypeOK => T!TypeOK
  /\ SP!T!BusyEnds => T!BusyEnds
  /\ SP!T!WritesOwnSubject => T!WritesOwnSubject
  /\ SP!T!RowsOfControls => T!RowsOfControls
  /\ SP!T!FormIsServed => T!FormIsServed
  BY Zenon DEF
    SP!T!TypeOK, T!TypeOK, SP!T!BusyEnds, T!BusyEnds, SP!T!WritesOwnSubject,
    T!WritesOwnSubject, SP!T!RowsOfControls, T!RowsOfControls, SP!T!FormIsServed,
    T!FormIsServed, SP!T!Tables, T!Tables, SP!T!Forms, T!Forms, SP!T!Served, T!Served,
    SP!T!FormType, T!FormType, SP!T!On, T!On, SP!T!InFlight, T!InFlight, SP!T!Indices,
    T!Indices

LEMMA SameKubernetesMounts ==
  /\ K!Enter => SP!K!Enter
  /\ K!Leave => SP!K!Leave
  BY Zenon DEF
    K!Enter, SP!K!Enter, K!Leave, SP!K!Leave, K!onMounted, SP!K!onMounted, K!Here,
    SP!K!Here, K!LeaveWith, SP!K!LeaveWith, K!Fresh, SP!K!Fresh, K!Mount, SP!K!Mount,
    K!Call, SP!K!Call, K!loadTab, SP!K!loadTab, K!LoadCall, SP!K!LoadCall, K!Sent,
    SP!K!Sent, K!Outdates, SP!K!Outdates

LEMMA SameKubernetes ==
  /\ K!Next => SP!K!Next
  BY Zenon DEF
    K!Next, SP!K!Next, K!Here, SP!K!Here, K!UserActs, SP!K!UserActs, K!Arrivals,
    SP!K!Arrivals, K!ReloadDue, SP!K!ReloadDue, K!SelectNamespace, SP!K!SelectNamespace,
    K!SelectTab, SP!K!SelectTab, K!Refresh, SP!K!Refresh, K!handleRestart,
    SP!K!handleRestart, K!handleScale, SP!K!handleScale, K!handleUpdateResources,
    SP!K!handleUpdateResources, K!handleEditService, SP!K!handleEditService,
    K!handleDeleteService, SP!K!handleDeleteService, K!handleViewLogs, SP!K!handleViewLogs,
    K!handleUpdateImage, SP!K!handleUpdateImage, K!handleEditConfigMap,
    SP!K!handleEditConfigMap, K!CloseDialog, SP!K!CloseDialog, K!ConfirmPrompt,
    SP!K!ConfirmPrompt, K!handleSubmitImage, SP!K!handleSubmitImage,
    K!handleSubmitResources, SP!K!handleSubmitResources, K!handleSubmitService,
    SP!K!handleSubmitService, K!handleSaveConfigMap, SP!K!handleSaveConfigMap,
    K!handleSyncRuntimeVersions, SP!K!handleSyncRuntimeVersions, K!SettingsArrive,
    SP!K!SettingsArrive, K!NamespacesArrive, SP!K!NamespacesArrive, K!RowsArrive,
    SP!K!RowsArrive, K!MetricsArrive, SP!K!MetricsArrive, K!ContentArrives,
    SP!K!ContentArrives, K!WriteAnswered, SP!K!WriteAnswered, K!VersionsSynced,
    SP!K!VersionsSynced, K!loadTab, SP!K!loadTab, K!Send, SP!K!Send, K!LoadCall,
    SP!K!LoadCall, K!Answer, SP!K!Answer, K!User, SP!K!User, K!Ask, SP!K!Ask, K!OpenAndLoad,
    SP!K!OpenAndLoad, K!PromptKinds, SP!K!PromptKinds, K!Submit, SP!K!Submit, K!Own,
    SP!K!Own, K!Open, SP!K!Open, K!Call, SP!K!Call, K!Indices, SP!K!Indices, K!Reply,
    SP!K!Reply, K!Metered, SP!K!Metered, K!ContentKinds, SP!K!ContentKinds, K!FormKinds,
    SP!K!FormKinds, K!Sent, SP!K!Sent, K!Row, SP!K!Row, K!TabOf, SP!K!TabOf, K!Subject,
    SP!K!Subject, K!Without, SP!K!Without, K!Outdates, SP!K!Outdates, K!WriteKinds,
    SP!K!WriteKinds

LEMMA SameKubernetesConstants ==
  /\ K!KubernetesConstants => SP!K!KubernetesConstants
  BY Zenon DEF
    K!KubernetesConstants, SP!K!KubernetesConstants, K!Dialogs, SP!K!Dialogs, K!WriteKinds,
    SP!K!WriteKinds, K!FormKinds, SP!K!FormKinds, K!PromptKinds, SP!K!PromptKinds

LEMMA SameKubernetesPromises ==
  /\ SP!K!TypeOK => K!TypeOK
  /\ SP!K!BusyEnds => K!BusyEnds
  /\ SP!K!WritesOwnSubject => K!WritesOwnSubject
  BY Zenon DEF
    SP!K!TypeOK, K!TypeOK, SP!K!BusyEnds, K!BusyEnds, SP!K!WritesOwnSubject,
    K!WritesOwnSubject, SP!K!Here, K!Here, SP!K!Dialogs, K!Dialogs, SP!K!Contents,
    K!Contents, SP!K!InFlight, K!InFlight, SP!K!Indices, K!Indices, SP!K!WriteKinds,
    K!WriteKinds, SP!K!FormKinds, K!FormKinds, SP!K!PromptKinds, K!PromptKinds

LEMMA SameDeploymentMounts ==
  /\ D!Enter => BP!D!Enter
  /\ D!Leave => BP!D!Leave
  BY Zenon DEF
    D!Enter, BP!D!Enter, D!Leave, BP!D!Leave, D!load, BP!D!load, D!EnterGlobal,
    BP!D!EnterGlobal, D!EnterRuns, BP!D!EnterRuns, D!EnterRunDetail, BP!D!EnterRunDetail,
    D!LeavePlain, BP!D!LeavePlain, D!LeaveRunDetail, BP!D!LeaveRunDetail, D!Mount,
    BP!D!Mount, D!Call, BP!D!Call, D!EmptyForm, BP!D!EmptyForm, D!On, BP!D!On, D!LeaveWith,
    BP!D!LeaveWith, D!Sent, BP!D!Sent, D!Outdates, BP!D!Outdates

LEMMA SameDeployment ==
  /\ D!Next => BP!D!Next
  BY Zenon DEF
    D!Next, BP!D!Next, D!Views, BP!D!Views, D!UserActs, BP!D!UserActs, D!Arrivals,
    BP!D!Arrivals, D!toggleEnabled, BP!D!toggleEnabled, D!openHosts, BP!D!openHosts,
    D!openOverride, BP!D!openOverride, D!openTasks, BP!D!openTasks, D!onComponentChange,
    BP!D!onComponentChange, D!loadOverrideRows, BP!D!loadOverrideRows, D!CloseTop,
    BP!D!CloseTop, D!saveHosts, BP!D!saveHosts, D!restoreDefaults, BP!D!restoreDefaults,
    D!saveOverride, BP!D!saveOverride, D!save, BP!D!save, D!initialize, BP!D!initialize,
    D!verify, BP!D!verify, D!CloseAlert, BP!D!CloseAlert, D!loadRuns, BP!D!loadRuns,
    D!openDialog, BP!D!openDialog, D!CloseDialog, BP!D!CloseDialog, D!PickDryRun,
    BP!D!PickDryRun, D!doPreview, BP!D!doPreview, D!doSubmit, BP!D!doSubmit, D!PickMode,
    BP!D!PickMode, D!handleCancel, BP!D!handleCancel, D!handleRollback, BP!D!handleRollback,
    D!ConfigSaved, BP!D!ConfigSaved, D!loadOffline, BP!D!loadOffline, D!RunsArrive,
    BP!D!RunsArrive, D!RollbackAnswered, BP!D!RollbackAnswered, D!ComponentsArrive,
    BP!D!ComponentsArrive, D!TargetsArrive, BP!D!TargetsArrive, D!HostsSaved,
    BP!D!HostsSaved, D!OverrideArrives, BP!D!OverrideArrives, D!DefaultsArrive,
    BP!D!DefaultsArrive, D!OverrideSaved, BP!D!OverrideSaved, D!TasksArrive,
    BP!D!TasksArrive, D!ConfigArrives, BP!D!ConfigArrives, D!InstallAnswered,
    BP!D!InstallAnswered, D!VerifyAnswered, BP!D!VerifyAnswered, D!ChoicesArrive,
    BP!D!ChoicesArrive, D!PreviewArrives, BP!D!PreviewArrives, D!FormTargetsArrive,
    BP!D!FormTargetsArrive, D!RunCreated, BP!D!RunCreated, D!RunArrives, BP!D!RunArrives,
    D!HistoryArrives, BP!D!HistoryArrives, D!CancelAnswered, BP!D!CancelAnswered,
    D!EnabledAnswered, BP!D!EnabledAnswered, D!RunEnds, BP!D!RunEnds, D!StreamDone,
    BP!D!StreamDone, D!StreamFails, BP!D!StreamFails, D!Table, BP!D!Table, D!Flip,
    BP!D!Flip, D!Send, BP!D!Send, D!Call, BP!D!Call, D!User, BP!D!User, D!Opened,
    BP!D!Opened, D!Form, BP!D!Form, D!Shown, BP!D!Shown, D!On, BP!D!On, D!InFlight,
    BP!D!InFlight, D!Load, BP!D!Load, D!EmptyForm, BP!D!EmptyForm, D!buildBody,
    BP!D!buildBody, D!blockedByState, BP!D!blockedByState, D!Indices, BP!D!Indices, D!Reply,
    BP!D!Reply, D!Answer, BP!D!Answer, D!Closed, BP!D!Closed, D!Plan, BP!D!Plan, D!Calmly,
    BP!D!Calmly, D!Residue, BP!D!Residue, D!loadRun, BP!D!loadRun, D!Sent, BP!D!Sent,
    D!Without, BP!D!Without, D!Outdates, BP!D!Outdates, D!Range, BP!D!Range

LEMMA SameDeploymentConstants ==
  /\ D!DeploymentConstants => BP!D!DeploymentConstants
  BY Zenon DEF
    D!DeploymentConstants, BP!D!DeploymentConstants, D!Pipes, BP!D!Pipes, D!Views,
    BP!D!Views, D!Range, BP!D!Range

LEMMA SameDeploymentPromises ==
  /\ BP!D!TypeOK => D!TypeOK
  /\ BP!D!BusyEnds => D!BusyEnds
  /\ BP!D!WritesOwnSubject => D!WritesOwnSubject
  /\ BP!D!SwitchesMatchServer => D!SwitchesMatchServer
  /\ BP!D!PreviewOfForm => D!PreviewOfForm
  /\ BP!D!BadgeAfterStream => D!BadgeAfterStream
  BY Zenon DEF
    BP!D!TypeOK, D!TypeOK, BP!D!BusyEnds, D!BusyEnds, BP!D!WritesOwnSubject,
    D!WritesOwnSubject, BP!D!SwitchesMatchServer, D!SwitchesMatchServer, BP!D!PreviewOfForm,
    D!PreviewOfForm, BP!D!BadgeAfterStream, D!BadgeAfterStream, BP!D!On, D!On, BP!D!Pipes,
    D!Pipes, BP!D!InFlight, D!InFlight, BP!D!Indices, D!Indices, BP!D!Plan, D!Plan,
    BP!D!buildBody, D!buildBody, BP!D!Range, D!Range

LEMMA SameSqlMounts ==
  /\ Q!Enter => SP!Q!Enter
  /\ Q!Leave => SP!Q!Leave
  BY Zenon DEF
    Q!Enter, SP!Q!Enter, Q!Leave, SP!Q!Leave, Q!EnterSql, SP!Q!EnterSql, Q!EnterViewDeps,
    SP!Q!EnterViewDeps, Q!EnterInstance, SP!Q!EnterInstance, Q!Views, SP!Q!Views,
    Q!LeaveWith, SP!Q!LeaveWith, Q!Mount, SP!Q!Mount, Q!Call, SP!Q!Call, Q!Sent, SP!Q!Sent,
    Q!Outdates, SP!Q!Outdates

LEMMA SameSql ==
  /\ Q!Next => SP!Q!Next
  BY Zenon DEF
    Q!Next, SP!Q!Next, Q!Views, SP!Q!Views, Q!UserActs, SP!Q!UserActs, Q!Arrivals,
    SP!Q!Arrivals, Q!TurnPage, SP!Q!TurnPage, Q!OpenWhitelist, SP!Q!OpenWhitelist,
    Q!EditWhitelist, SP!Q!EditWhitelist, Q!CloseWhitelist, SP!Q!CloseWhitelist,
    Q!handleSaveSQLForceWhitelist, SP!Q!handleSaveSQLForceWhitelist, Q!handleFileChange,
    SP!Q!handleFileChange, Q!ToggleForce, SP!Q!ToggleForce, Q!handleParse, SP!Q!handleParse,
    Q!handleExecuteContent, SP!Q!handleExecuteContent, Q!ConfirmForce, SP!Q!ConfirmForce,
    Q!ConfirmWarn, SP!Q!ConfirmWarn, Q!Dismiss, SP!Q!Dismiss, Q!handleExecuteBatch,
    SP!Q!handleExecuteBatch, Q!ConfirmBatch, SP!Q!ConfirmBatch, Q!handleCancel,
    SP!Q!handleCancel, Q!handleOpenBatch, SP!Q!handleOpenBatch, Q!handleImportServerSQL,
    SP!Q!handleImportServerSQL, Q!handleSkipStatement, SP!Q!handleSkipStatement, Q!Type,
    SP!Q!Type, Q!handleOpen, SP!Q!handleOpen, Q!handleExecuteFile, SP!Q!handleExecuteFile,
    Q!AskFile, SP!Q!AskFile, Q!ConfirmFile, SP!Q!ConfirmFile, Q!ReloadTasks,
    SP!Q!ReloadTasks, Q!handleCreateTask, SP!Q!handleCreateTask, Q!handleExportPlan,
    SP!Q!handleExportPlan, Q!handleOpenTask, SP!Q!handleOpenTask, Q!Operations,
    SP!Q!Operations, Q!operate, SP!Q!operate, Q!loadInstance, SP!Q!loadInstance,
    Q!ListsArrive, SP!Q!ListsArrive, Q!TasksArrive, SP!Q!TasksArrive, Q!OperationTimesOut,
    SP!Q!OperationTimesOut, Q!InstanceArrives, SP!Q!InstanceArrives, Q!WhitelistArrives,
    SP!Q!WhitelistArrives, Q!WhitelistSaved, SP!Q!WhitelistSaved, Q!Parsed, SP!Q!Parsed,
    Q!handleParseBatch, SP!Q!handleParseBatch, Q!buildConfirmedOptions,
    SP!Q!buildConfirmedOptions, Q!Executed, SP!Q!Executed, Q!Opened, SP!Q!Opened,
    Q!BatchAnswered, SP!Q!BatchAnswered, Q!FileTouched, SP!Q!FileTouched,
    Q!StatementSkipped, SP!Q!StatementSkipped, Q!TaskCreated, SP!Q!TaskCreated,
    Q!TaskOpened, SP!Q!TaskOpened, Q!OperationAnswered, SP!Q!OperationAnswered,
    Q!refreshCurrentTask, SP!Q!refreshCurrentTask, Q!PlanArrives, SP!Q!PlanArrives,
    Q!OperationEnds, SP!Q!OperationEnds, Q!Free, SP!Q!Free, Q!Cover, SP!Q!Cover, Q!Send,
    SP!Q!Send, Q!loadLists, SP!Q!loadLists, Q!User, SP!Q!User, Q!On, SP!Q!On, Q!Call,
    SP!Q!Call, Q!InFlight, SP!Q!InFlight, Q!readSQLUploadFile, SP!Q!readSQLUploadFile,
    Q!Asked, SP!Q!Asked, Q!Rest, SP!Q!Rest, Q!Box, SP!Q!Box, Q!Run, SP!Q!Run, Q!Show,
    SP!Q!Show, Q!Load, SP!Q!Load, Q!ReadTask, SP!Q!ReadTask, Q!Can, SP!Q!Can, Q!Indices,
    SP!Q!Indices, Q!Reply, SP!Q!Reply, Q!Answer, SP!Q!Answer, Q!Allows, SP!Q!Allows,
    Q!Answered, SP!Q!Answered, Q!loadTasks, SP!Q!loadTasks, Q!Outcome, SP!Q!Outcome, Q!Busy,
    SP!Q!Busy, Q!Sent, SP!Q!Sent, Q!TotalSize, SP!Q!TotalSize, Q!Without, SP!Q!Without,
    Q!Outdates, SP!Q!Outdates, Q!Range, SP!Q!Range, Q!Cardinality, SP!Q!Cardinality, Q!Last,
    SP!Q!Last, Q!Front, SP!Q!Front, Q!FlattenSeq, SP!Q!FlattenSeq, Q!FoldLeft,
    SP!Q!FoldLeft, Q!MapThenFoldSet, SP!Q!MapThenFoldSet, Q!Max, SP!Q!Max

LEMMA SameSqlConstants ==
  /\ Q!SqlConstants => SP!Q!SqlConstants
  BY Zenon DEF
    Q!SqlConstants, SP!Q!SqlConstants, Q!Statuses, SP!Q!Statuses, Q!Views, SP!Q!Views,
    Q!Busy, SP!Q!Busy

LEMMA SameSqlPromises ==
  /\ SP!Q!TypeOK => Q!TypeOK
  /\ SP!Q!BusyEnds => Q!BusyEnds
  /\ SP!Q!RunsAsConfirmed => Q!RunsAsConfirmed
  /\ SP!Q!WritesOwnSubject => Q!WritesOwnSubject
  /\ SP!Q!StatusIsServed => Q!StatusIsServed
  BY Zenon DEF
    SP!Q!TypeOK, Q!TypeOK, SP!Q!BusyEnds, Q!BusyEnds, SP!Q!RunsAsConfirmed,
    Q!RunsAsConfirmed, SP!Q!WritesOwnSubject, Q!WritesOwnSubject, SP!Q!StatusIsServed,
    Q!StatusIsServed, SP!Q!On, Q!On, SP!Q!Boxes, Q!Boxes, SP!Q!Statuses, Q!Statuses,
    SP!Q!Operations, Q!Operations, SP!Q!Indices, Q!Indices, SP!Q!InFlight, Q!InFlight,
    SP!Q!Ends, Q!Ends, SP!Q!Busy, Q!Busy

LEMMA ArtifactsStays ==
  ASSUME A!Next
  PROVE  page \in A!Views \cup {None} /\ Stays
<1>1. BP!A!Next /\ BP!A!NoneApart
  BY NoneAssumption, SameArtifacts, SameArtifactConstants
<1>2. page \in BP!A!Views \cup {None} /\ BP!Stays
  BY <1>1, BP!ArtifactsStay
<1> QED
  BY <1>2 DEF BP!A!Views, A!Views, BP!Stays, Stays

-----------------------------------------------------------------------------
(* The whole console. *)

\* A step is one of a page module, or leaves none of its views mounted.
LEMMA OnlyBuilds ==
  ASSUME [Next]_console
  PROVE  [B!Enter \/ B!Leave \/ B!Next]_console \/ page' \notin B!Views
<1> USE NoneIsNoView DEF V!Views, D!Views, Q!Views, B!Views, A!Views, T!Tables, T!Forms
<1>1. CASE Enter
  BY <1>1, Mounts, MountsToo DEF Enter, InShell
<1>2. CASE Leave
  BY <1>2, Unmounts
<1>3. CASE K!Next \/ V!Next \/ D!Next \/ Q!Next
  BY <1>3, KubernetesStays, ServersStays, DeploymentStays, SqlStays DEF Stays
<1>4. CASE A!Next \/ T!Next \/ L!Next
  BY <1>4, ArtifactsStays, SettingsStays, ShellStays DEF Stays, InShell
<1> QED
  BY <1>1, <1>2, <1>3, <1>4 DEF Next

LEMMA OnlyArtifacts ==
  ASSUME [Next]_console
  PROVE  [A!Enter \/ A!Leave \/ A!Next]_console \/ page' \notin A!Views
<1> USE NoneIsNoView DEF V!Views, D!Views, Q!Views, B!Views, A!Views, T!Tables, T!Forms
<1>1. CASE Enter
  BY <1>1, Mounts, MountsToo DEF Enter, InShell
<1>2. CASE Leave
  BY <1>2, Unmounts
<1>3. CASE K!Next \/ V!Next \/ D!Next \/ Q!Next
  BY <1>3, KubernetesStays, ServersStays, DeploymentStays, SqlStays DEF Stays
<1>4. CASE B!Next \/ T!Next \/ L!Next
  BY <1>4, BuildsStays, SettingsStays, ShellStays DEF Stays, InShell
<1> QED
  BY <1>1, <1>2, <1>3, <1>4 DEF Next

LEMMA OnlyServers ==
  ASSUME [Next]_console
  PROVE  [V!Enter \/ V!Leave \/ V!Next]_console \/ page' \notin V!Views
<1> USE NoneIsNoView DEF V!Views, D!Views, Q!Views, B!Views, A!Views, T!Tables, T!Forms
<1>1. CASE Enter
  BY <1>1, Mounts, MountsToo DEF Enter, InShell
<1>2. CASE Leave
  BY <1>2, Unmounts
<1>3. CASE K!Next \/ B!Next \/ D!Next \/ Q!Next
  BY <1>3, KubernetesStays, BuildsStays, DeploymentStays, SqlStays DEF Stays
<1>4. CASE A!Next \/ T!Next \/ L!Next
  BY <1>4, ArtifactsStays, SettingsStays, ShellStays DEF Stays, InShell
<1> QED
  BY <1>1, <1>2, <1>3, <1>4 DEF Next

LEMMA OnlySettings ==
  ASSUME [Next]_console
  PROVE  [T!Enter \/ T!Leave \/ T!Next]_console \/ page' \notin T!Tables \cup T!Forms
<1> USE NoneIsNoView DEF V!Views, D!Views, Q!Views, B!Views, A!Views, T!Tables, T!Forms
<1>1. CASE Enter
  BY <1>1, Mounts, MountsToo DEF Enter, InShell
<1>2. CASE Leave
  BY <1>2, Unmounts
<1>3. CASE K!Next \/ V!Next \/ D!Next \/ Q!Next
  BY <1>3, KubernetesStays, ServersStays, DeploymentStays, SqlStays DEF Stays
<1>4. CASE A!Next \/ B!Next \/ L!Next
  BY <1>4, ArtifactsStays, BuildsStays, ShellStays DEF Stays, InShell
<1> QED
  BY <1>1, <1>2, <1>3, <1>4 DEF Next

LEMMA OnlyKubernetes ==
  ASSUME [Next]_console
  PROVE  [K!Enter \/ K!Leave \/ K!Next]_console \/ page' # "Kubernetes"
<1> USE NoneIsNoView DEF V!Views, D!Views, Q!Views, B!Views, A!Views, T!Tables, T!Forms
<1>1. CASE Enter
  BY <1>1, Mounts, MountsToo DEF Enter, InShell
<1>2. CASE Leave
  BY <1>2, Unmounts
<1>3. CASE V!Next \/ D!Next \/ Q!Next \/ B!Next
  BY <1>3, ServersStays, DeploymentStays, SqlStays, BuildsStays DEF Stays
<1>4. CASE A!Next \/ T!Next \/ L!Next
  BY <1>4, ArtifactsStays, SettingsStays, ShellStays DEF Stays, InShell
<1> QED
  BY <1>1, <1>2, <1>3, <1>4 DEF Next

LEMMA OnlyDeployment ==
  ASSUME [Next]_console
  PROVE  [D!Enter \/ D!Leave \/ D!Next]_console \/ page' \notin D!Views
<1> USE NoneIsNoView DEF V!Views, D!Views, Q!Views, B!Views, A!Views, T!Tables, T!Forms
<1>1. CASE Enter
  BY <1>1, Mounts, MountsToo DEF Enter, InShell
<1>2. CASE Leave
  BY <1>2, Unmounts
<1>3. CASE K!Next \/ V!Next \/ Q!Next \/ B!Next
  BY <1>3, KubernetesStays, ServersStays, SqlStays, BuildsStays DEF Stays
<1>4. CASE A!Next \/ T!Next \/ L!Next
  BY <1>4, ArtifactsStays, SettingsStays, ShellStays DEF Stays, InShell
<1> QED
  BY <1>1, <1>2, <1>3, <1>4 DEF Next

LEMMA OnlySql ==
  ASSUME [Next]_console
  PROVE  [Q!Enter \/ Q!Leave \/ Q!Next]_console \/ page' \notin Q!Views
<1> USE NoneIsNoView DEF V!Views, D!Views, Q!Views, B!Views, A!Views, T!Tables, T!Forms
<1>1. CASE Enter
  BY <1>1, Mounts, MountsToo DEF Enter, InShell
<1>2. CASE Leave
  BY <1>2, Unmounts
<1>3. CASE K!Next \/ V!Next \/ D!Next \/ B!Next
  BY <1>3, KubernetesStays, ServersStays, DeploymentStays, BuildsStays DEF Stays
<1>4. CASE A!Next \/ T!Next \/ L!Next
  BY <1>4, ArtifactsStays, SettingsStays, ShellStays DEF Stays, InShell
<1> QED
  BY <1>1, <1>2, <1>3, <1>4 DEF Next

LEMMA OnlyShell ==
  ASSUME [Next]_console
  PROVE  [L!Enter \/ L!Leave \/ L!Next]_console \/ ~InShell'
<1> USE NoneIsNoView DEF V!Views, D!Views, Q!Views, B!Views, A!Views, T!Tables, T!Forms, InShell
<1>1. CASE Enter
  BY <1>1, Mounts, MountsToo DEF Enter
<1>2. CASE Leave
  BY <1>2, Unmounts
<1>3. CASE K!Next \/ V!Next \/ D!Next \/ Q!Next
  BY <1>3, KubernetesStays, ServersStays, DeploymentStays, SqlStays DEF Stays
<1>4. CASE A!Next \/ T!Next \/ B!Next
  BY <1>4, ArtifactsStays, SettingsStays, BuildsStays DEF Stays
<1> QED
  BY <1>1, <1>2, <1>3, <1>4 DEF Next

\* What each page module keeps of its own views, and that nothing is left behind.
ConsoleInv ==
  /\ BP!PagesInv
  /\ SP!ShellInv
  /\ SP!ServersInv
  /\ BP!ArtifactPagesInv
  /\ SP!SettingsInv
  /\ SP!KubernetesInv
  /\ BP!DeploymentInv
  /\ SP!SqlInv
  /\ LeavesNothing

LEMMA BuildsKept ==
  ASSUME BP!PagesInv, [Next]_console PROVE BP!PagesInv'
<1>1. CASE [B!Enter \/ B!Leave \/ B!Next]_console
  <2>1. [BP!Enter \/ BP!Leave \/ BP!Next]_BP!console
    BY <1>1, SameBuildMounts, SameBuilds DEF console, BP!console
  <2>2. BP!NoneApart /\ BP!RecordsAreLists
    BY NoneAssumption, RecordsAssumption, SameBuildConstants
  <2> QED
    BY <2>1, <2>2, PagesAssumption, BP!VisitStep
<1>2. CASE page' \notin B!Views
  BY <1>2, BP!OutsideBuilds DEF B!Views, BP!Views
<1> QED
  BY <1>1, <1>2, OnlyBuilds

LEMMA ArtifactsKept ==
  ASSUME BP!ArtifactPagesInv, [Next]_console PROVE BP!ArtifactPagesInv'
<1>1. CASE [A!Enter \/ A!Leave \/ A!Next]_console
  <2>1. [BP!A!Enter \/ BP!A!Leave \/ BP!A!Next]_BP!console
    BY <1>1, SameArtifactMounts, SameArtifacts DEF console, BP!console
  <2>2. BP!A!NoneApart
    BY NoneAssumption, SameArtifactConstants
  <2> QED
    BY <2>1, <2>2, BP!ArtifactsVisit
<1>2. CASE page' \notin A!Views
  BY <1>2, BP!OutsideArtifacts DEF A!Views, BP!A!Views
<1> QED
  BY <1>1, <1>2, OnlyArtifacts

LEMMA ServersKept ==
  ASSUME SP!ServersInv, [Next]_console PROVE SP!ServersInv'
<1>1. CASE [V!Enter \/ V!Leave \/ V!Next]_console
  <2>1. [SP!V!Enter \/ SP!V!Leave \/ SP!V!Next]_SP!console
    BY <1>1, SameServerMounts, SameServers DEF console, SP!console
  <2>2. SP!V!ServersConstants
    BY ServersAssumption, SameServerConstants
  <2> QED
    BY <2>1, <2>2, SP!ServersVisit
<1>2. CASE page' \notin V!Views
  BY <1>2, SP!OutsideServers DEF V!Views, SP!V!Views
<1> QED
  BY <1>1, <1>2, OnlyServers

LEMMA SettingsKept ==
  ASSUME SP!SettingsInv, [Next]_console PROVE SP!SettingsInv'
<1>1. CASE [T!Enter \/ T!Leave \/ T!Next]_console
  <2>1. [SP!T!Enter \/ SP!T!Leave \/ SP!T!Next]_SP!console
    BY <1>1, SameSettingsMounts, SameSettings DEF console, SP!console
  <2>2. SP!T!SettingsConstants
    BY SettingsAssumption, SameSettingsConstants
  <2> QED
    BY <2>1, <2>2, SP!SettingsVisit
<1>2. CASE page' \notin T!Tables \cup T!Forms
  BY <1>2, SP!OutsideSettings DEF T!Tables, T!Forms, SP!T!Tables, SP!T!Forms
<1> QED
  BY <1>1, <1>2, OnlySettings

LEMMA KubernetesKept ==
  ASSUME SP!KubernetesInv, [Next]_console PROVE SP!KubernetesInv'
<1>1. CASE [K!Enter \/ K!Leave \/ K!Next]_console
  <2>1. [SP!K!Enter \/ SP!K!Leave \/ SP!K!Next]_SP!console
    BY <1>1, SameKubernetesMounts, SameKubernetes DEF console, SP!console
  <2>2. SP!K!KubernetesConstants
    BY KubernetesAssumption, SameKubernetesConstants
  <2> QED
    BY <2>1, <2>2, SP!KubernetesVisit
<1>2. CASE page' # "Kubernetes"
  BY <1>2, SP!OutsideKubernetes
<1> QED
  BY <1>1, <1>2, OnlyKubernetes

LEMMA DeploymentKept ==
  ASSUME BP!DeploymentInv, [Next]_console PROVE BP!DeploymentInv'
<1>1. CASE [D!Enter \/ D!Leave \/ D!Next]_console
  <2>1. [BP!D!Enter \/ BP!D!Leave \/ BP!D!Next]_BP!console
    BY <1>1, SameDeploymentMounts, SameDeployment DEF console, BP!console
  <2>2. BP!D!DeploymentConstants
    BY DeploymentAssumption, SameDeploymentConstants
  <2> QED
    BY <2>1, <2>2, BP!DeploymentVisit
<1>2. CASE page' \notin D!Views
  BY <1>2, BP!OutsideDeployment DEF D!Views, BP!D!Views
<1> QED
  BY <1>1, <1>2, OnlyDeployment

LEMMA SqlKept ==
  ASSUME SP!SqlInv, [Next]_console PROVE SP!SqlInv'
<1>1. CASE [Q!Enter \/ Q!Leave \/ Q!Next]_console
  <2>1. [SP!Q!Enter \/ SP!Q!Leave \/ SP!Q!Next]_SP!console
    BY <1>1, SameSqlMounts, SameSql DEF console, SP!console
  <2>2. SP!Q!SqlConstants
    BY SqlAssumption, SameSqlConstants
  <2> QED
    BY <2>1, <2>2, SP!SqlVisit
<1>2. CASE page' \notin Q!Views
  BY <1>2, SP!OutsideSql DEF Q!Views, SP!Q!Views
<1> QED
  BY <1>1, <1>2, OnlySql

LEMMA ShellKept ==
  ASSUME SP!ShellInv, [Next]_console PROVE SP!ShellInv'
<1>1. CASE [L!Enter \/ L!Leave \/ L!Next]_console
  <2>1. [SP!Enter \/ SP!Leave \/ SP!Next]_SP!console
    BY <1>1, SameShellMounts, SameShell DEF console, SP!console
  <2>2. SP!ShellConstants
    BY ShellAssumption, SameShellConstants
  <2> QED
    BY <2>1, <2>2, SP!ShellVisit
<1>2. CASE ~InShell'
  BY <1>2, SP!OutsideShell DEF InShell, SP!InApp
<1> QED
  BY <1>1, <1>2, OnlyShell

LEMMA ResidueIsLate ==
  ASSUME SP!ServersInv, Leave PROVE \A r \in world' : r.late
<1>1. CASE V!Leave
  BY <1>1, SameServerMounts, SP!ServersLeave
<1>2. CASE K!Leave \/ D!Leave \/ Q!Leave \/ B!Leave
  BY <1>2 DEF K!Leave, K!LeaveWith, D!Leave, D!LeavePlain, D!LeaveRunDetail, D!LeaveWith,
     Q!Leave, Q!LeaveWith, B!Leave, B!LeaveQueue, B!LeavePipeline, B!LeaveWith
<1>3. CASE T!Leave \/ L!Leave
  BY <1>3 DEF T!Leave, T!LeaveWith, L!Leave, L!LeaveWith
<1>4. CASE A!Leave
  BY <1>4 DEF A!Leave, A!LeaveCollect, A!LeaveWith, A!Residue
<1> QED
  BY <1>1, <1>2, <1>3, <1>4 DEF Leave

LEMMA NothingLeft ==
  ASSUME SP!ServersInv, LeavesNothing, [Next]_console PROVE LeavesNothing'
<1>1. CASE Enter
  <2>1. page' # None
    BY <1>1, NoneIsNoView, Mounts, MountsToo DEF Enter, InShell
  <2> QED
    BY <2>1 DEF LeavesNothing
<1>2. CASE Leave
  BY <1>2, ResidueIsLate DEF LeavesNothing
<1>3. CASE L!Next
  BY <1>3, NoneIsNoView, ShellStays DEF InShell, LeavesNothing
<1>4. CASE K!Next \/ T!Next
  <2>1. page' # None
    BY <1>4, NoneIsNoView, KubernetesStays, SettingsStays
  <2> QED
    BY <2>1 DEF LeavesNothing
<1>5. CASE V!Next \/ D!Next \/ Q!Next \/ B!Next \/ A!Next
  <2>1. Stays
    BY <1>5, ServersStays, DeploymentStays, SqlStays, BuildsStays, ArtifactsStays
  <2> QED
    BY <2>1 DEF Stays, LeavesNothing
<1>6. CASE UNCHANGED console
  BY <1>6 DEF console, LeavesNothing
<1> QED
  BY <1>1, <1>2, <1>3, <1>4, <1>5, <1>6 DEF Next

LEMMA ConsoleInvariant == Spec => []ConsoleInv
<1>1. Init => ConsoleInv
  <2> SUFFICES ASSUME Init PROVE ConsoleInv
    OBVIOUS
  <2>1. page = None /\ world = {}
    BY DEF Init
  <2>2. BP!PagesInv
    BY <2>1, NoneIsNoView DEF BP!PagesInv, B!Views, BP!List, BP!On
  <2>3. SP!ServersInv
    BY <2>1, NoneIsNoView DEF SP!ServersInv, V!Views, SP!V!On
  <2>4. SP!ShellInv
    <3>1. ~SP!InApp /\ ~SP!On("Shell") /\ ~SP!On("Login")
      BY <2>1, NoneIsNoView DEF SP!InApp, SP!On
    <3> QED
      BY <3>1 DEF SP!ShellInv, SP!Shape, SP!TypeOK, SP!InSession, SP!Tabbed, SP!OwnProfile,
         SP!Counted, SP!BusyEnds
  <2>5. BP!ArtifactPagesInv
    BY <2>1, NoneIsNoView DEF BP!ArtifactPagesInv, A!Views, BP!A!On
  <2>6. SP!SettingsInv
    BY <2>1, NoneIsNoView DEF SP!SettingsInv, T!Tables, T!Forms, SP!T!Tables, SP!T!Forms
  <2>7. SP!KubernetesInv
    BY <2>1, NoneIsNoView DEF SP!KubernetesInv, SP!ClusterInv
  <2>8. BP!DeploymentInv
    BY <2>1, NoneIsNoView DEF BP!DeploymentInv, D!Views
  <2>9. SP!SqlInv
    BY <2>1, NoneIsNoView DEF SP!SqlInv, Q!Views
  <2> QED
    BY <2>1, <2>2, <2>3, <2>4, <2>5, <2>6, <2>7, <2>8, <2>9 DEF ConsoleInv, LeavesNothing
<1>2. ConsoleInv /\ [Next]_console => ConsoleInv'
  BY BuildsKept, ServersKept, ShellKept, ArtifactsKept, SettingsKept, KubernetesKept,
     DeploymentKept, SqlKept, NothingLeft DEF ConsoleInv
<1> QED
  BY <1>1, <1>2, PTL DEF Spec

\* A view that is left leaves no timer, socket or stream behind, but those of a
\* continuation that came after it or beside another: whatever calls were in flight.
THEOREM NothingLeftBehind == Spec => []LeavesNothing
<1>1. ConsoleInv => LeavesNothing
  BY DEF ConsoleInv
<1> QED
  BY <1>1, ConsoleInvariant, PTL

\* A batch is reported as triggered only when each of its pipelines was deployed,
\* whatever calls failed and whichever run deployed it.
THEOREM ReportedBatchesAreDeployed == Spec => []ReportedIsDeployed
<1>1. BP!PagesInv => BP!ReportedIsDeployed
  BY BP!PagesPromises
<1>2. ConsoleInv => ReportedIsDeployed
  BY <1>1, SameBuildPromises DEF ConsoleInv, ReportedIsDeployed
<1> QED
  BY <1>2, ConsoleInvariant, PTL

\* The page shown has a tab, however tabs are closed and routes fail to load.
THEOREM ShownPageHasTab == Spec => []RouteHasTab
<1>1. ConsoleInv => RouteHasTab
  BY SP!ShellPromises, SameShellPromises DEF ConsoleInv, RouteHasTab
<1> QED
  BY <1>1, ConsoleInvariant, PTL

\* The layout is shown in a session whose token the calls carry, however sessions
\* end, are renewed or are answered late.
THEOREM LayoutIsInSession == Spec => []SessionKept
<1>1. ConsoleInv => SessionKept
  BY SP!ShellPromises, SameShellPromises DEF ConsoleInv, SessionKept
<1> QED
  BY <1>1, ConsoleInvariant, PTL

\* What a view shows as running or connected is followed by a poll, a stream or a
\* socket: a pipeline until its stream ends, a download until a poll fails, a
\* terminal until its socket closes.
THEOREM WhatRunsIsFollowed == Spec => []Followed
<1>1. BP!PagesInv => BP!FollowsPipeline
  BY BP!PagesPromises
<1>2. SP!ServersInv => SP!V!ConnectedHasSocket
  BY SP!ServersPromises
<1>3. BP!ArtifactPagesInv => BP!A!DownloadFollowed
  BY BP!ArtifactsPromises
<1>4. ConsoleInv => Followed
  BY <1>1, <1>2, <1>3, SameBuildPromises, SameServerPromises, SameArtifactPromises
     DEF ConsoleInv, Followed
<1> QED
  BY <1>4, ConsoleInvariant, PTL

\* Once the calls of a table were answered in turn, its rows are those its controls
\* ask for, and the drawer of the queue holds the records of the batch it is titled
\* with, whatever was loaded, opened or closed while they were in flight.
THEOREM RowsAreThoseAsked == Spec => []RowsOfControls
<1>1. BP!PagesInv => BP!DrawerMatches
  BY BP!PagesPromises
<1>2. BP!ArtifactPagesInv => BP!A!RowsOfControls
  BY BP!ArtifactsPromises
<1>3. SP!SettingsInv => SP!T!RowsOfControls
  BY SP!SettingsPromises
<1>4. ConsoleInv => RowsOfControls
  BY <1>1, <1>2, <1>3, SameBuildPromises, SameArtifactPromises, SameSettingsPromises
     DEF ConsoleInv, RowsOfControls
<1> QED
  BY <1>4, ConsoleInvariant, PTL

\* What each page module promises of its own views, the console promises.
LEMMA EveryPage ==
  ASSUME ConsoleInv
  PROVE  /\ BP!TypeOK /\ BP!BusyEnds /\ BP!WritesOwnSubject
         /\ SP!TypeOK /\ SP!BusyEnds /\ SP!WritesOwnSubject
         /\ SP!V!TypeOK /\ SP!V!BusyEnds /\ SP!V!RenameKeepsDirectory /\ SP!V!KeyOfItsForm
         /\ BP!A!TypeOK /\ BP!A!BusyEnds /\ BP!A!WritesOwnSubject
         /\ SP!T!TypeOK /\ SP!T!BusyEnds /\ SP!T!WritesOwnSubject
         /\ SP!K!TypeOK /\ SP!K!BusyEnds /\ SP!K!WritesOwnSubject
         /\ BP!D!TypeOK /\ BP!D!BusyEnds /\ BP!D!WritesOwnSubject
         /\ SP!Q!TypeOK /\ SP!Q!BusyEnds /\ SP!Q!WritesOwnSubject
<1>0. /\ BP!PagesInv /\ SP!ShellInv /\ SP!ServersInv /\ BP!ArtifactPagesInv
      /\ SP!SettingsInv /\ SP!KubernetesInv /\ BP!DeploymentInv /\ SP!SqlInv
  BY DEF ConsoleInv
<1>1. BP!TypeOK /\ BP!BusyEnds /\ BP!WritesOwnSubject
  BY <1>0, BP!PagesPromises
<1>2. SP!TypeOK /\ SP!BusyEnds /\ SP!WritesOwnSubject
  BY <1>0, SP!ShellPromises
<1>3. SP!V!TypeOK /\ SP!V!BusyEnds /\ SP!V!RenameKeepsDirectory /\ SP!V!KeyOfItsForm
  BY <1>0, SP!ServersPromises
<1>4. BP!A!TypeOK /\ BP!A!BusyEnds /\ BP!A!WritesOwnSubject
  BY <1>0, BP!ArtifactsTyped, BP!ArtifactsBusyEnd, BP!ArtifactsWriteOwn
<1>5. SP!T!TypeOK /\ SP!T!BusyEnds /\ SP!T!WritesOwnSubject
  BY <1>0, SP!SettingsPromises
<1>6. SP!K!TypeOK /\ SP!K!BusyEnds /\ SP!K!WritesOwnSubject
  BY <1>0, SP!KubernetesPromises
<1>7. BP!D!TypeOK /\ BP!D!BusyEnds /\ BP!D!WritesOwnSubject
  BY <1>0, BP!DeploymentPromises
<1>8. SP!Q!TypeOK /\ SP!Q!BusyEnds /\ SP!Q!WritesOwnSubject
  BY <1>0, SP!SqlPromises
<1> QED
  BY <1>1, <1>2, <1>3, <1>4, <1>5, <1>6, <1>7, <1>8

\* The refs of every view hold what its code can put there.
THEOREM ViewsAreTyped == Spec => []TypeOK
<1>1. ConsoleInv => TypeOK
  BY EveryPage, SameBuildPromises, SameShellPromises, SameServerPromises,
     SameArtifactPromises, SameSettingsPromises, SameKubernetesPromises,
     SameDeploymentPromises, SameSqlPromises DEF TypeOK
<1> QED
  BY <1>1, ConsoleInvariant, PTL

\* Whatever spins, covers a table or disables a button waits for something that is
\* still to come, in every view and whatever is clicked, answered, refused or left.
THEOREM NoViewStaysBusy == Spec => []BusyEnds
<1>1. ConsoleInv => BusyEnds
  BY EveryPage, SameBuildPromises, SameShellPromises, SameServerPromises,
     SameArtifactPromises, SameSettingsPromises, SameKubernetesPromises,
     SameDeploymentPromises, SameSqlPromises DEF BusyEnds
<1> QED
  BY <1>1, ConsoleInvariant, PTL

\* A call that changes something on a server is about what its user was shown when
\* asking for it, in every view, whatever was loaded, opened or closed since.
THEOREM WritesAreAsAsked == Spec => []WritesOwnSubject
<1>1. ConsoleInv => WritesOwnSubject
  BY EveryPage, SameBuildPromises, SameShellPromises, SameServerPromises,
     SameArtifactPromises, SameSettingsPromises, SameKubernetesPromises,
     SameDeploymentPromises, SameSqlPromises DEF WritesOwnSubject
<1> QED
  BY <1>1, ConsoleInvariant, PTL

\* What runs was confirmed: statements by the boxes that their risks ask for, and a
\* deployment with the preview of the very form it is sent with.
THEOREM WhatRunsWasConfirmed == Spec => []RunsAsConfirmed
<1>1. SP!SqlInv => SP!Q!RunsAsConfirmed
  BY SP!SqlPromises
<1>2. BP!DeploymentInv => BP!D!PreviewOfForm
  BY BP!DeploymentPromises
<1>3. ConsoleInv => RunsAsConfirmed
  BY <1>1, <1>2, SameSqlPromises, SameDeploymentPromises DEF ConsoleInv, RunsAsConfirmed
<1> QED
  BY <1>3, ConsoleInvariant, PTL

\* Once the calls of a view were answered in turn, its switches, badges, statuses and
\* settings are the servers'.
THEOREM ServersAreShown == Spec => []ShownIsServed
<1>1. BP!DeploymentInv => BP!D!SwitchesMatchServer /\ BP!D!BadgeAfterStream
  BY BP!DeploymentPromises
<1>2. SP!SqlInv => SP!Q!StatusIsServed
  BY SP!SqlPromises
<1>3. SP!SettingsInv => SP!T!FormIsServed
  BY SP!SettingsPromises
<1>4. SP!ShellInv => SP!BadgeIsServed
  BY SP!ShellPromises
<1>5. ConsoleInv => ShownIsServed
  BY <1>1, <1>2, <1>3, <1>4, SameDeploymentPromises, SameSqlPromises, SameSettingsPromises,
     SameShellPromises DEF ConsoleInv, ShownIsServed
<1> QED
  BY <1>5, ConsoleInvariant, PTL

-----------------------------------------------------------------------------
(* Tables with merged cells.  A table is a list of rows, whatever their order; *)
(* the spans follow from the keys of its rows alone.                           *)

\* The cells of the items and of the records of a version.
LEMMA ArtifactCells ==
  ASSUME NEW n \in Nat, NEW rows, DOMAIN rows = 1 .. n, Len(rows) = n,
         NEW span, span = [i \in DOMAIN rows |-> A!Span(rows, i)]
  PROVE  \A j \in DOMAIN rows :
            \E i \in 1 .. j :
               /\ i + span[i] > j /\ rows[i].target = rows[j].target
               /\ \A k \in DOMAIN rows \ {i} : k <= j => k + span[k] <= j
<1>1. PICK key : key = [i \in 1 .. n |-> rows[i].target]
  OBVIOUS
<1>2. \A i \in 1 .. n : key[i] = rows[i].target
  BY <1>1
<1>3. ASSUME NEW i \in 1 .. n PROVE span[i] = CellHeight(key, n, i)
  <2> DEFINE o == {j \in i + 1 .. Len(rows) : rows[j].target # rows[i].target}
             other == {j \in i + 1 .. n : key[j] # key[i]}
             Least(s) == CHOOSE j \in s : \A k \in s : j <= k
  <2>1. A!Span(rows, i) = IF i > 1 /\ rows[i - 1].target = rows[i].target
                          THEN 0
                          ELSE (IF o = {} THEN Len(rows) + 1 ELSE Least(o)) - i
    BY DEF A!Span
  <2>2. CellHeight(key, n, i) = IF i > 1 /\ key[i - 1] = key[i]
                                THEN 0
                                ELSE (IF other = {} THEN n + 1 ELSE Least(other)) - i
    BY DEF CellHeight, RunEnd
  <2>3. o = other
    BY <1>2
  <2> HIDE DEF o, other, Least
  <2>4. (i > 1 /\ key[i - 1] = key[i]) <=> (i > 1 /\ rows[i - 1].target = rows[i].target)
    BY <1>2
  <2>5. span[i] = A!Span(rows, i)
    OBVIOUS
  <2> QED
    BY <2>1, <2>2, <2>3, <2>4, <2>5
<1>4. OneCellEach(key, span, n)
  BY <1>3, SpansCover
<1> QED
  <2> TAKE j \in DOMAIN rows
  <2>1. PICK i \in 1 .. j :
          /\ i + span[i] > j /\ key[i] = key[j]
          /\ \A k \in 1 .. n \ {i} : k <= j => k + span[k] <= j
    BY <1>4 DEF OneCellEach
  <2>2. rows[i].target = rows[j].target
    BY <1>2, <2>1
  <2> QED
    BY <2>1, <2>2

LEMMA TableIsList ==
  ASSUME NEW rows, IsFiniteSet(rows)
  PROVE  \E n \in Nat : DOMAIN A!Table(rows) = 1 .. n /\ Len(A!Table(rows)) = n
<1>1. Cardinality(rows) \in Nat
  BY FS_CardinalityType
<1>2. A!Table(rows) = [i \in 1 .. Cardinality(rows) |-> A!InOrder(rows)[i]]
  BY Zenon DEF A!Table, A!Cardinality, Cardinality
<1> QED
  BY <1>1, <1>2

\* However the rows were targeted, there are finitely many.
LEMMA ImageIsFinite ==
  ASSUME NEW S, IsFiniteSet(S), NEW f, DOMAIN f = S
  PROVE  IsFiniteSet({f[x] : x \in S})
<1> DEFINE Image == {f[x] : x \in S}
           g == [x \in S |-> f[x]]
<1>1. g \in Surjection(S, Image)
  BY DEF Surjection
<1> QED
  BY <1>1, FS_Surjection

LEMMA ArtifactTables ==
  ASSUME A!ListingsAreFinite, A!TypeOK PROVE A!MergedCellsAgree
<1> SUFFICES ASSUME A!On("Version") PROVE A!MergedCellsAgree
  BY DEF A!MergedCellsAgree
<1>1. IsFiniteSet(view.items) /\ IsFiniteSet(view.records)
  <2>1. {view.items, view.records} \subseteq Listings \cup {{}}
    BY DEF A!TypeOK
  <2>2. \A rows \in Listings : IsFiniteSet(rows)
    BY Zenon DEF A!ListingsAreFinite, A!IsFiniteSet, IsFiniteSet
  <2> QED
    BY <2>1, <2>2, FS_EmptySet
<1>2. \E n \in Nat : /\ DOMAIN A!buildVersionRows(view.items) = 1 .. n
                     /\ Len(A!buildVersionRows(view.items)) = n
  <2> DEFINE f == [r \in view.items |-> A!Targeted(r, A!deploymentTargetForItem(r))]
  <2>1. IsFiniteSet({f[r] : r \in view.items})
    <3>1. DOMAIN f = view.items
      OBVIOUS
    <3> HIDE DEF f
    <3> QED
      BY <1>1, <3>1, ImageIsFinite
  <2>2. {f[r] : r \in view.items} =
           {A!Targeted(r, A!deploymentTargetForItem(r)) : r \in view.items}
    OBVIOUS
  <2> QED
    BY <2>1, <2>2, TableIsList DEF A!buildVersionRows
<1>3. \E n \in Nat : /\ DOMAIN A!buildDeployRecordRows(view.records) = 1 .. n
                     /\ Len(A!buildDeployRecordRows(view.records)) = n
  <2> DEFINE f == [r \in view.records |-> A!Targeted(r, A!deploymentTargetForRecord(r))]
  <2>1. IsFiniteSet({f[r] : r \in view.records})
    <3>1. DOMAIN f = view.records
      OBVIOUS
    <3> HIDE DEF f
    <3> QED
      BY <1>1, <3>1, ImageIsFinite
  <2>2. {f[r] : r \in view.records} =
           {A!Targeted(r, A!deploymentTargetForRecord(r)) : r \in view.records}
    OBVIOUS
  <2> QED
    BY <2>1, <2>2, TableIsList DEF A!buildDeployRecordRows
<1>4. PICK items, spans :
        /\ items = A!buildVersionRows(view.items)
        /\ spans = A!artifactSpanMethod(items)
  OBVIOUS
<1>5. PICK records, heights :
        /\ records = A!buildDeployRecordRows(view.records)
        /\ heights = A!deployRecordSpanMethod(records)
  OBVIOUS
<1>6. \A j \in DOMAIN items :
        \E i \in 1 .. j :
           /\ i + spans[i] > j /\ items[i].target = items[j].target
           /\ \A k \in DOMAIN items \ {i} : k <= j => k + spans[k] <= j
  <2>1. PICK n \in Nat : DOMAIN items = 1 .. n /\ Len(items) = n
    BY <1>2, <1>4
  <2>2. spans = [i \in DOMAIN items |-> A!Span(items, i)]
    BY <1>4 DEF A!artifactSpanMethod
  <2> QED
    BY <2>1, <2>2, ArtifactCells
<1>7. \A j \in DOMAIN records :
        \E i \in 1 .. j :
           /\ i + heights[i] > j /\ records[i].target = records[j].target
           /\ \A k \in DOMAIN records \ {i} : k <= j => k + heights[k] <= j
  <2>1. PICK n \in Nat : DOMAIN records = 1 .. n /\ Len(records) = n
    BY <1>3, <1>5
  <2>2. heights = [i \in DOMAIN records |-> A!Span(records, i)]
    BY <1>5 DEF A!deployRecordSpanMethod
  <2> QED
    BY <2>1, <2>2, ArtifactCells
<1> QED
  BY Zenon, <1>4, <1>5, <1>6, <1>7 DEF A!MergedCellsAgree

\* The cells of the deployments.
LEMMA DeploymentCells ==
  ASSUME NEW n \in Nat, NEW rows, DOMAIN rows = 1 .. n, Len(rows) = n,
         NEW span, span = [i \in DOMAIN rows |-> K!deploymentTableSpanMethod(rows, i)]
  PROVE  \A j \in DOMAIN rows :
            \E i \in 1 .. j :
               /\ i + span[i] > j /\ rows[i].dep = rows[j].dep
               /\ \A k \in DOMAIN rows \ {i} : k <= j => k + span[k] <= j
<1>1. PICK key : key = [i \in 1 .. n |-> rows[i].dep]
  OBVIOUS
<1>2. \A i \in 1 .. n : key[i] = rows[i].dep
  BY <1>1
<1>3. ASSUME NEW i \in 1 .. n PROVE span[i] = CellHeight(key, n, i)
  <2> DEFINE o == {j \in i + 1 .. Len(rows) : rows[j].dep # rows[i].dep}
             other == {j \in i + 1 .. n : key[j] # key[i]}
             Least(s) == CHOOSE j \in s : \A k \in s : j <= k
  <2>1. K!deploymentTableSpanMethod(rows, i) =
          IF i > 1 /\ rows[i - 1].dep = rows[i].dep
          THEN 0
          ELSE (IF o = {} THEN Len(rows) + 1 ELSE Least(o)) - i
    BY DEF K!deploymentTableSpanMethod
  <2>2. CellHeight(key, n, i) = IF i > 1 /\ key[i - 1] = key[i]
                                THEN 0
                                ELSE (IF other = {} THEN n + 1 ELSE Least(other)) - i
    BY DEF CellHeight, RunEnd
  <2>3. o = other
    BY <1>2
  <2> HIDE DEF o, other, Least
  <2>4. (i > 1 /\ key[i - 1] = key[i]) <=> (i > 1 /\ rows[i - 1].dep = rows[i].dep)
    BY <1>2
  <2>5. span[i] = K!deploymentTableSpanMethod(rows, i)
    OBVIOUS
  <2> QED
    BY <2>1, <2>2, <2>3, <2>4, <2>5
<1>4. OneCellEach(key, span, n)
  BY <1>3, SpansCover
<1> QED
  <2> TAKE j \in DOMAIN rows
  <2>1. PICK i \in 1 .. j :
          /\ i + span[i] > j /\ key[i] = key[j]
          /\ \A k \in 1 .. n \ {i} : k <= j => k + span[k] <= j
    BY <1>4 DEF OneCellEach
  <2>2. rows[i].dep = rows[j].dep
    BY <1>2, <2>1
  <2> QED
    BY <2>1, <2>2

LEMMA SelfRange ==
  ASSUME NEW n \in Nat, NEW f, f = [i \in 1 .. n |-> f[i]]
  PROVE  f \in Seq(Range(f))
<1>1. \A i \in 1 .. n : f[i] \in Range(f)
  BY DEF Range
<1> HIDE DEF Range
<1> QED
  BY <1>1

\* The rows of one deployment: one for each of its versions, or a single one.
LEMMA RowsOfOne ==
  ASSUME NEW versions, versions \in Seq(Range(versions)), NEW dep
  PROVE  K!rowsOf(versions, dep) \in Seq(Range(K!rowsOf(versions, dep)))
<1> DEFINE mine == K!runtimeVersionsForDeployment(versions, dep)
           sorted == K!sortedRuntimeVersions(versions, dep)
           rows == K!rowsOf(versions, dep)
<1>1. Cardinality(mine) \in Nat
  <2>1. IsFiniteSet(1 .. Len(versions)) /\ DOMAIN versions = 1 .. Len(versions)
    BY FS_Interval
  <2>2. mine \in SUBSET (1 .. Len(versions))
    BY <2>1 DEF K!runtimeVersionsForDeployment
  <2> HIDE DEF mine
  <2> QED
    BY <2>1, <2>2, FS_Subset, FS_CardinalityType
<1>2. PICK n \in Nat : DOMAIN sorted = 1 .. n
  <2>1. sorted = [i \in 1 .. Cardinality(mine) |-> versions[K!inOrder(versions, dep)[i]]]
    BY Zenon DEF K!sortedRuntimeVersions, K!Cardinality, Cardinality
  <2> HIDE DEF mine, sorted
  <2> QED
    BY <1>1, <2>1
<1>3. \/ \E row : rows = <<row>>
      \/ \E f : rows = [i \in DOMAIN sorted |-> f[i]]
  <2> DEFINE row(i) == [dep |-> dep, app |-> K!runtimeAppIdentifier(sorted[i], dep),
                        collected |-> TRUE]
             f == [i \in DOMAIN sorted |-> row(i)]
             own == {i \in DOMAIN sorted : sorted[i].app = dep}
             first == IF own = {} THEN 1 ELSE K!Min(own)
             none == [dep |-> dep, app |-> dep, collected |-> FALSE]
  <2>1. rows = CASE sorted = <<>> -> <<none>>
                 [] dep = WebMain -> f
                 [] OTHER -> <<row(first)>>
    BY DEF K!rowsOf
  <2>2. f = [i \in DOMAIN sorted |-> f[i]]
    OBVIOUS
  <2> HIDE DEF row, f, own, first, none, rows, sorted
  <2>3. rows = <<none>> \/ rows = f \/ rows = <<row(first)>>
    BY <2>1
  <2> QED
    BY <2>2, <2>3
<1>4. \E m \in Nat : rows = [i \in 1 .. m |-> rows[i]]
  <2> HIDE DEF rows, sorted
  <2>1. ASSUME NEW row, rows = <<row>> PROVE rows = [i \in 1 .. 1 |-> rows[i]]
    BY <2>1
  <2>2. ASSUME NEW f, rows = [i \in DOMAIN sorted |-> f[i]]
        PROVE  rows = [i \in 1 .. n |-> rows[i]]
    BY <1>2, <2>2
  <2> QED
    BY <1>3, <2>1, <2>2
<1>5. rows \in Seq(Range(rows))
  <2> HIDE DEF rows
  <2> QED
    BY <1>4, SelfRange
<1> QED
  BY <1>5

LEMMA FlattenedRows ==
  ASSUME NEW S, NEW ss \in Seq(Seq(S)) PROVE K!FlattenSeq(ss) \in Seq(S)
<1>1. K!FlattenSeq(ss) = SP!Q!FlattenSeq(ss)
  BY Zenon DEF K!FlattenSeq, SP!Q!FlattenSeq
<1> QED
  BY <1>1, SP!Flattened

LEMMA DeploymentTable ==
  ASSUME NEW versions, versions \in Seq(Range(versions)), Workloads \in Seq(Range(Workloads))
  PROVE  \E n \in Nat : /\ DOMAIN K!deploymentTableRows(Workloads, versions) = 1 .. n
                        /\ Len(K!deploymentTableRows(Workloads, versions)) = n
<1> DEFINE Of(i) == K!rowsOf(versions, Workloads[i])
           ss == [i \in DOMAIN Workloads |-> Of(i)]
           S == UNION {Range(Of(i)) : i \in DOMAIN Workloads}
<1>1. \A i \in DOMAIN Workloads : Of(i) \in Seq(S)
  <2> TAKE i \in DOMAIN Workloads
  <2>1. Of(i) \in Seq(Range(Of(i)))
    BY RowsOfOne
  <2>2. Range(Of(i)) \subseteq S
    OBVIOUS
  <2> HIDE DEF Of, S
  <2> QED
    BY <2>1, <2>2
<1>2. K!deploymentTableRows(Workloads, versions) = K!FlattenSeq(ss)
  BY DEF K!deploymentTableRows
<1> HIDE DEF Of, S
<1>3. ss \in Seq(Seq(S))
  <2>1. PICK m \in Nat : DOMAIN Workloads = 1 .. m
    OBVIOUS
  <2> QED
    BY <1>1, <2>1
<1> HIDE DEF ss
<1>4. K!FlattenSeq(ss) \in Seq(S)
  BY <1>3, FlattenedRows
<1> QED
  BY <1>2, <1>4

LEMMA KubernetesTables ==
  ASSUME K!TablesAreLists, K!TypeOK PROVE K!MergedCellsAgree
<1> SUFFICES ASSUME K!Here PROVE K!MergedCellsAgree
  BY DEF K!MergedCellsAgree
<1>1. view.versions \in Seq(Range(view.versions)) /\ Workloads \in Seq(Range(Workloads))
  <2>1. \A l \in VersionLists \cup {Workloads} : l \in Seq(Range(l))
    BY DEF K!TablesAreLists, K!Range, Range
  <2>2. <<>> \in Seq(Range(<<>>))
    OBVIOUS
  <2>3. view.versions \in VersionLists \cup {<<>>}
    BY DEF K!TypeOK
  <2> QED
    BY <2>1, <2>2, <2>3
<1>2. PICK rows, span :
        /\ rows = K!deploymentTableRows(Workloads, view.versions)
        /\ span = [i \in DOMAIN rows |-> K!deploymentTableSpanMethod(rows, i)]
  OBVIOUS
<1>3. PICK n \in Nat : DOMAIN rows = 1 .. n /\ Len(rows) = n
  BY <1>1, <1>2, DeploymentTable
<1>4. \A j \in DOMAIN rows :
        \E i \in 1 .. j :
           /\ i + span[i] > j /\ rows[i].dep = rows[j].dep
           /\ \A k \in DOMAIN rows \ {i} : k <= j => k + span[k] <= j
  <2>1. span = [i \in DOMAIN rows |-> K!deploymentTableSpanMethod(rows, i)]
    BY <1>2
  <2> QED
    BY <1>3, <2>1, DeploymentCells
<1> QED
  BY Zenon, <1>2, <1>4 DEF K!MergedCellsAgree

\* In the tables with merged cells every row lies under exactly one cell, that of its
\* own group, whatever rows the servers send and in whatever order they are sorted.
THEOREM CellsMatchTheirRows == Spec => []MergedCellsAgree
<1>1. ConsoleInv => K!TypeOK /\ A!TypeOK
  BY EveryPage, SameArtifactPromises, SameKubernetesPromises
<1>2. ConsoleInv => MergedCellsAgree
  BY <1>1, TablesAssumption, ArtifactTables, KubernetesTables DEF MergedCellsAgree
<1> QED
  BY <1>2, ConsoleInvariant, PTL
=============================================================================
