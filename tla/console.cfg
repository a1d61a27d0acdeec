SPECIFICATION Spec
CONSTANTS
  MaxCalls = 2
  MaxClicks = 4
  None = None
  Clicks <- MCClicks
  Tabs = {"deployments", "pods", "services", "configmaps"}
  Namespaces = {"default", "prod"}
  InitialNs = "default"
  Names = {item1, item2}
  Workloads <- MCWorkloads
  VersionLists <- MCVersionLists
  WebMain = "web"
  AppRank <- MCAppRank
  Servers = {item1, item2}
  ServerSearches = {"q"}
  Paths <- MCPaths
  MaxSockets = 3
  Components = {comp1, comp2}
  PipelinesOf <- MCPipelinesOf
  Modes = {"deploy", "cleanup"}
  Files = {file1, file2}
  Risks <- MCRisks
  Uploads <- MCUploads
  MaxEntries = 2
  MaxSize = 2
  Tasks = {item1, item2}
  Found = {"PRECHECK_PASSED", "FAILED"}
  TaskIds = {item1, item2}
  Filters = {"x"}
  Pages = {1, 2}
  RecordsOf <- MCRecordsOf
  Stages = {"s1", "s2"}
  Jobs = {job1, job2}
  Listings <- MCListings
  NameRank <- MCNameRank
  Versions = {ver1, ver2, ver3}
  DirOf <- MCDirOf
  FilesOf <- MCFilesOf
  Ids = {id1, id2}
  RowContents = {0, 1}
  TableSearches = {"q"}
  PageNos = {1, 2}
  Probes = {"registry", "k8s"}
  Routes = {"/dashboard", "/tasks"}
  MaxSessions = 2
  MaxCountdowns = 2
  Parts <- MCParts
  comp1 = comp1
  comp2 = comp2
  file1 = file1
  file2 = file2
  item1 = item1
  item2 = item2
  batch1 = batch1
  batch2 = batch2
  pipe1 = pipe1
  pipe2 = pipe2
  job1 = job1
  job2 = job2
  ver1 = ver1
  ver2 = ver2
  ver3 = ver3
  id1 = id1
  id2 = id2
SYMMETRY Symmetry
INVARIANTS
  TypeOK
  BusyEnds
  
  
  
  
  RowsOfControls
  
  MergedCellsAgree
  ReportedIsDeployed
  RouteHasTab
  
CHECK_DEADLOCK FALSE
