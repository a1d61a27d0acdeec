---------------------------- MODULE ConsoleViews ----------------------------
(***************************************************************************)
(* The whole console: the views of every page module and the shell around  *)
(* them, one visit after the other.  Its properties are those of the       *)
(* pages, put together by what they say.                                   *)
(***************************************************************************)
EXTENDS Console

CONSTANTS
    Clicks,       \* user actions per visit of a view of the larger pages (a bound)
    \* Kubernetes
    Tabs, Namespaces, InitialNs, Names, Workloads, VersionLists, WebMain, AppRank,
    \* servers
    Servers, ServerSearches, Paths, MaxSockets,
    \* deployment
    Components, PipelinesOf, Modes,
    \* SQL changes
    Files, Risks, Uploads, MaxEntries, MaxSize, Tasks, Found,
    \* builds
    TaskIds, Filters, Pages, RecordsOf, Stages,
    \* artifacts
    Jobs, Listings, NameRank, Versions, DirOf, FilesOf,
    \* settings
    Ids, RowContents, TableSearches, PageNos, Probes,
    \* shell and session
    Routes, MaxSessions, MaxCountdowns, Parts

K == INSTANCE KubernetesPage WITH MaxClicks <- Clicks.kubernetes, Rank <- AppRank
V == INSTANCE ServerPages WITH MaxClicks <- Clicks.servers, Searches <- ServerSearches
D == INSTANCE DeploymentPages WITH MaxClicks <- Clicks.deployment
Q == INSTANCE SqlPages WITH MaxClicks <- Clicks.sql
B == INSTANCE BuildPages WITH MaxClicks <- Clicks.builds
A == INSTANCE ArtifactPages WITH Rank <- NameRank
T == INSTANCE SettingsPages WITH Searches <- TableSearches, Contents <- RowContents
L == INSTANCE AppShell

Views ==
    {"Kubernetes"} \cup V!Views \cup D!Views \cup Q!Views \cup B!Views \cup A!Views
    \cup T!Tables \cup T!Forms \cup {"Login", "Shell"}

\* The mark of nothing is no view, no number and nothing a page means otherwise.
ASSUME NoneAssumption == None \notin Views \cup Nat /\ B!NoneApart /\ A!NoneApart

\* The records of a batch come as a list.
ASSUME RecordsAssumption == B!RecordsAreLists

\* Lists are shown from page 1.
ASSUME PagesAssumption == 1 \in Pages

\* Tokens and countdowns are counted, and the home page is one of the routes.
ASSUME ShellAssumption == L!ShellConstants

\* The directory above one that is shown can be shown.
ASSUME ServersAssumption == V!ServersConstants

\* A row of the settings has some content, and lists start at page 1.
ASSUME SettingsAssumption == T!SettingsConstants

\* What the Kubernetes view, those of deployment and those of SQL changes take for
\* granted of their names.
ASSUME KubernetesAssumption == K!KubernetesConstants
ASSUME DeploymentAssumption == D!DeploymentConstants
ASSUME SqlAssumption == Q!SqlConstants

\* The tables of workloads and of a version's items have so many rows.
ASSUME TablesAssumption == K!TablesAreLists /\ A!ListingsAreFinite

-----------------------------------------------------------------------------
Enter ==
    \/ K!Enter \/ V!Enter \/ D!Enter \/ Q!Enter
    \/ B!Enter \/ A!Enter \/ T!Enter \/ L!Enter

Leave ==
    \/ K!Leave \/ V!Leave \/ D!Leave \/ Q!Leave
    \/ B!Leave \/ A!Leave \/ T!Leave \/ L!Leave

Next ==
    \/ Enter \/ Leave
    \/ K!Next \/ V!Next \/ D!Next \/ Q!Next
    \/ B!Next \/ A!Next \/ T!Next \/ L!Next

Spec == Init /\ [][Next]_console

-----------------------------------------------------------------------------
\* The refs of every view hold what their code can put there.
TypeOK ==
    /\ K!TypeOK /\ V!TypeOK /\ D!TypeOK /\ Q!TypeOK
    /\ B!TypeOK /\ A!TypeOK /\ T!TypeOK /\ L!TypeOK

(***************************************************************************)
(* Whatever spins, covers a table or disables a button waits for something *)
(* that is still to come (a call of its own, a timer, a countdown): no     *)
(* order of answers leaves a view busy for ever.                           *)
(***************************************************************************)
BusyEnds ==
    /\ K!BusyEnds /\ V!BusyEnds /\ D!BusyEnds /\ Q!BusyEnds
    /\ B!BusyEnds /\ A!BusyEnds /\ T!BusyEnds /\ L!BusyEnds

(***************************************************************************)
(* A call that changes something on a server is about the row, file, form  *)
(* or version its user was shown when asking for it, whatever was loaded,  *)
(* opened or closed since.  (The pages say which exceptions the code has.) *)
(***************************************************************************)
WritesOwnSubject ==
    /\ K!WritesOwnSubject /\ D!WritesOwnSubject /\ Q!WritesOwnSubject
    /\ B!WritesOwnSubject /\ A!WritesOwnSubject /\ T!WritesOwnSubject
    /\ L!WritesOwnSubject
    /\ V!RenameKeepsDirectory /\ V!KeyOfItsForm

\* What was previewed or parsed, and confirmed, is what runs: the plan of a
\* deployment and the statements of a change.
RunsAsConfirmed == Q!RunsAsConfirmed /\ D!PreviewOfForm

\* When the calls of a view were answered in turn, what it shows of the
\* servers' state is their state: switches, badges, statuses, settings.
ShownIsServed ==
    /\ D!SwitchesMatchServer /\ D!BadgeAfterStream /\ Q!StatusIsServed
    /\ T!FormIsServed /\ L!BadgeIsServed

\* ... and its rows are those its controls ask for.
RowsOfControls == A!RowsOfControls /\ T!RowsOfControls /\ B!DrawerMatches

\* A view that shows something as running or connected follows it by a poll, a
\* stream or a socket that is alive.
Followed == B!FollowsPipeline /\ A!DownloadFollowed /\ V!ConnectedHasSocket

\* Merged cells of a table cover the rows of one group and nothing else.
MergedCellsAgree == K!MergedCellsAgree /\ A!MergedCellsAgree

\* A batch is reported as deployed only when every pipeline of it was asked to.
ReportedIsDeployed == B!ReportedIsDeployed

\* The page shown has a tab (AppShell).
RouteHasTab == L!RouteHasTab

\* The layout is shown in a session, and calls carry its token (AppShell).
SessionKept == L!SessionKept
==============================================================================
