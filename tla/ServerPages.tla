----------------------------- MODULE ServerPages -----------------------------
(***************************************************************************)
(* The four views of server management: the list of servers with its form, *)
(* and for one server its files (SFTP), its terminal (a WebSocket) and its *)
(* monitor (a timer).                                                      *)
(***************************************************************************)
EXTENDS Console

CONSTANTS Servers, Searches, Paths,
          MaxSockets   \* terminals opened by one visit (a bound)

On(p) == page = p
Views == {"Servers", "Files", "Terminal", "Monitor"}

-----------------------------------------------------------------------------
(* ServerMgmtView                                                          *)

loadServers == Call("servers", view.search)

EnterServers ==
    Mount("Servers",
          [search |-> None, loading |-> TRUE, rows |-> None, form |-> None, calm |-> TRUE],
          None, <<Call("servers", None)>>)

\* Enter in the search box, its clear button, the refresh button.
Search(text) ==
    /\ On("Servers") /\ view.form = None
    /\ view' = [view EXCEPT !.search = text, !.loading = TRUE]
    /\ Send(<<Call("servers", text)>>) /\ User

ServersArrive(i, ok) ==
    /\ On("Servers") /\ i \in Indices("servers")
    /\ view' = [view EXCEPT !.rows = IF ok THEN calls[i].arg ELSE None,
                            !.loading = FALSE, !.calm = Calmly(i, ok)]
    /\ Reply(i, <<>>) /\ Answer

\* handleAdd and handleEdit: a form of its own; "key" says for which form the
\* credential in it was read.
OpenServerForm(s) ==
    /\ On("Servers") /\ view.form = None
    /\ view' = [view EXCEPT !.form = [of |-> s, key |-> None]]
    /\ UNCHANGED calls /\ User

handleAdd == OpenServerForm("new")
handleEdit(s) == On("Servers") /\ ~view.loading /\ OpenServerForm(s)

CloseServerForm ==
    /\ On("Servers") /\ view.form # None
    /\ view' = [view EXCEPT !.form = None] /\ UNCHANGED calls /\ User

handleReadKey ==
    /\ On("Servers") /\ view.form # None
    /\ Send(<<Call("readKey", view.form.of)>>) /\ UNCHANGED view /\ User

\* The key goes into the form that is open now (form.value.credential).
KeyArrives(i, ok) ==
    /\ On("Servers") /\ i \in Indices("readKey")
    /\ view' = IF ok /\ view.form # None
               THEN [view EXCEPT !.form.key = calls[i].arg,
                                 !.calm = @ /\ calls[i].arg = view.form.of]
               ELSE view
    /\ Reply(i, <<>>) /\ Answer

handleSave ==
    /\ On("Servers") /\ view.form # None
    /\ Send(<<Call("saveServer", view.form)>>) /\ UNCHANGED view /\ User

\* A success closes whatever form is open by then and loads the list again.
ServerSaved(i, ok) ==
    /\ On("Servers") /\ i \in Indices("saveServer")
    /\ view' = IF ok THEN [view EXCEPT !.form = None, !.loading = TRUE] ELSE view
    /\ Reply(i, IF ok THEN <<loadServers>> ELSE <<>>) /\ Answer

\* handleDelete (confirmed) and handleTest: a call about a row, then a reload.
TouchServer(op, s) ==
    /\ On("Servers") /\ view.form = None /\ ~view.loading
    /\ Send(<<Call(op, s)>>) /\ UNCHANGED view /\ User

handleDelete(s) == TouchServer("deleteServer", s)
handleTest(s) == TouchServer("testServer", s)

ServerTouched(i, ok) ==
    /\ On("Servers") /\ calls[i].op \in {"deleteServer", "testServer"}
    /\ view' = IF ok THEN [view EXCEPT !.loading = TRUE] ELSE view
    /\ Reply(i, IF ok THEN <<loadServers>> ELSE <<>>) /\ Answer

-----------------------------------------------------------------------------
(* ServerFilesView: currentPath and the listing come from the same answer. *)

EnterFiles ==
    Mount("Files",
          [path |-> <<>>, listing |-> None, loading |-> FALSE, prompt |-> None,
           calm |-> TRUE],
          None, <<Call("server", None)>>)

\* onMounted: the server's row, whether it came or not, then the root (out of
\* turn when the user has moved on by the crumbs meanwhile).
FilesServerArrives(i) ==
    /\ On("Files") /\ i \in Indices("server")
    /\ view' = [view EXCEPT !.loading = TRUE, !.calm = @ /\ clicks = 0]
    /\ Reply(i, <<Call("files", <<>>)>>) /\ Answer

Parent(path) == SubSeq(path, 1, Len(path) - 1)

loadFiles(path) == Load("files", view, path) /\ User

\* A directory of the listing; the overlay of a load covers the table.
handleNavigate(path) ==
    /\ On("Files") /\ ~view.loading /\ view.prompt = None /\ view.listing # None
    /\ Len(path) = Len(view.listing) + 1 /\ Parent(path) = view.listing
    /\ loadFiles(path)

\* The parent, a crumb of the path, and "/": never covered.
handleGoUp ==
    /\ On("Files") /\ view.prompt = None /\ view.path # <<>>
    /\ loadFiles(Parent(view.path))

handlePathClick(idx) ==
    /\ On("Files") /\ view.prompt = None /\ idx \in 0 .. Len(view.path)
    /\ loadFiles(SubSeq(view.path, 1, idx))

FilesArrive(i, ok) ==
    /\ On("Files") /\ i \in Indices("files")
    /\ view' = [view EXCEPT !.path = IF ok THEN calls[i].arg ELSE @,
                            !.listing = IF ok THEN calls[i].arg ELSE None,
                            !.loading = FALSE, !.calm = Calmly(i, ok)]
    /\ Reply(i, <<>>) /\ Answer

\* Prompts: "new directory" from the header, "rename" from a row.
AskMkdir ==
    /\ On("Files") /\ view.prompt = None
    /\ view' = [view EXCEPT !.prompt = [kind |-> "mkdir", dir |-> view.path]]
    /\ UNCHANGED calls /\ User

AskRename ==
    /\ On("Files") /\ view.prompt = None /\ ~view.loading /\ view.listing # None
    /\ view' = [view EXCEPT !.prompt = [kind |-> "rename", dir |-> view.listing]]
    /\ UNCHANGED calls /\ User

Dismiss ==
    /\ On("Files") /\ view.prompt # None
    /\ view' = [view EXCEPT !.prompt = None] /\ UNCHANGED calls /\ User

\* After the prompt: the new name is taken in the directory shown by now.
handleMkdir ==
    /\ On("Files") /\ view.prompt # None /\ view.prompt.kind = "mkdir"
    /\ view' = [view EXCEPT !.prompt = None]
    /\ Send(<<Call("mkdir", view.path)>>) /\ User

handleRename ==
    /\ On("Files") /\ view.prompt # None /\ view.prompt.kind = "rename"
    /\ view' = [view EXCEPT !.prompt = None]
    /\ Send(<<Call("rename", [old |-> view.prompt.dir, new |-> view.path])>>) /\ User

handleUpload ==
    /\ On("Files") /\ view.prompt = None
    /\ Send(<<Call("upload", view.path)>>) /\ UNCHANGED view /\ User

\* Each of the three reloads the directory shown when it is answered.
FilesChanged(i, ok) ==
    /\ On("Files") /\ calls[i].op \in {"mkdir", "rename", "upload"}
    /\ view' = IF ok THEN [view EXCEPT !.loading = TRUE] ELSE view
    /\ Reply(i, IF ok THEN <<Call("files", view.path)>> ELSE <<>>) /\ Answer

-----------------------------------------------------------------------------
(* ServerTerminalView: sockets are kept in the order they were made; "ws"  *)
(* is the one the view refers to (0: none).  "twice": an initialisation    *)
(* began while another one was still waiting for xterm.                    *)

EnterTerminal ==
    Mount("Terminal",
          [sockets |-> <<>>, ws |-> 0, connected |-> FALSE, twice |-> FALSE],
          None, <<Call("server", None)>>)

\* onMounted goes on only with a server.
TerminalServerArrives(i, ok) ==
    /\ On("Terminal") /\ i \in Indices("server")
    /\ Reply(i, IF ok THEN <<Call("xterm", None)>> ELSE <<>>)
    /\ UNCHANGED view /\ Answer

\* initTerminal after its imports: a new socket takes the place of the old one.
initTerminal(i, ok) ==
    /\ On("Terminal") /\ i \in Indices("xterm")
    /\ Len(view.sockets) < MaxSockets
    /\ view' = IF ok THEN [view EXCEPT !.sockets = Append(@, "connecting"),
                                       !.ws = Len(view.sockets) + 1]
               ELSE view
    /\ Reply(i, <<>>) /\ Answer

\* ws.onopen and ws.onclose of any socket, the replaced ones too.
SocketOpens(k) ==
    /\ On("Terminal") /\ k \in DOMAIN view.sockets /\ view.sockets[k] = "connecting"
    /\ view' = [view EXCEPT !.sockets[k] = "open", !.connected = TRUE]
    /\ UNCHANGED calls /\ Answer

\* faulty: the state of the header is not cleared.
Bug_SocketCloses(k) ==
    /\ On("Terminal") /\ k \in DOMAIN view.sockets /\ view.sockets[k] # "closed"
    /\ view' = [view EXCEPT !.sockets[k] = "closed"] /\ UNCHANGED calls /\ Answer

SocketCloses(k) ==
    /\ On("Terminal") /\ k \in DOMAIN view.sockets /\ view.sockets[k] # "closed"
    /\ view' = [view EXCEPT !.sockets[k] = "closed", !.connected = FALSE]
    /\ UNCHANGED calls /\ Answer

\* ws.close(): the close event comes later.
Closing(sockets, k) ==
    IF k # 0 /\ sockets[k] # "closed" THEN [sockets EXCEPT ![k] = "closing"] ELSE sockets

\* The button is disabled only while connected.
handleReconnect ==
    /\ On("Terminal") /\ ~view.connected
    /\ view' = [view EXCEPT !.sockets = Closing(@, view.ws), !.connected = FALSE,
                            !.twice = @ \/ InFlight({"server", "xterm"})]
    /\ Send(<<Call("xterm", None)>>) /\ User

\* faulty: the hook does not close the socket.
Bug_LeaveTerminal ==
    /\ On("Terminal")
    /\ LET left == {k \in DOMAIN view.sockets : view.sockets[k] \in {"connecting", "open"}}
       IN  LeaveWith({Residue("socket", view.twice) : k \in left}, {})

\* onUnmounted closes the socket referred to; without its element a late
\* initialisation fails before it makes one.
LeaveTerminal ==
    /\ On("Terminal")
    /\ LET left == {k \in DOMAIN view.sockets \ {view.ws} :
                       view.sockets[k] \in {"connecting", "open"}}
       IN  LeaveWith({Residue("socket", view.twice) : k \in left}, {})

-----------------------------------------------------------------------------
(* ServerMonitorView                                                       *)

EnterMonitor ==
    Mount("Monitor", [loading |-> TRUE, error |-> FALSE, timer |-> FALSE], None,
          <<Call("server", None)>>)

MonitorServerArrives(i) ==
    /\ page \in {"Monitor", None} /\ i \in Indices("server")
    /\ Reply(i, <<Call("firstMetrics", None)>>)
    /\ UNCHANGED view /\ Answer

\* fetchMetrics answered; the first time, onMounted goes on and sets the timer,
\* whether or not the view is still there.
fetchMetrics(i, ok) ==
    /\ calls[i].op \in {"metrics", "firstMetrics"}
    /\ LET first == calls[i].op = "firstMetrics"
       IN  \/ /\ On("Monitor")
              /\ view' = [view EXCEPT !.loading = FALSE, !.error = ~ok, !.timer = @ \/ first]
              /\ UNCHANGED world
           \/ /\ page = None /\ first
              /\ world' = world \cup {Residue("interval", TRUE)}
              /\ UNCHANGED view
    /\ Reply(i, <<>>) /\ UNCHANGED <<page, clicks>>

\* setInterval(fetchMetrics, 10000)
MonitorTick ==
    /\ On("Monitor") /\ view.timer
    /\ Send(<<Call("metrics", None)>>) /\ UNCHANGED view /\ Answer

LeaveMonitor ==
    /\ On("Monitor")
    /\ LeaveWith({}, IF view.timer THEN {} ELSE {"server", "firstMetrics"})

\* handleTerminal, handleFiles, handleMonitor, handleBack and the menu.
LeavePlain == (On("Servers") \/ On("Files")) /\ LeaveWith({}, {})

-----------------------------------------------------------------------------
Enter == EnterServers \/ EnterFiles \/ EnterTerminal \/ EnterMonitor
Leave == LeavePlain \/ LeaveTerminal \/ LeaveMonitor

UserActs ==
    \/ \E text \in Searches : Search(text)
    \/ handleAdd \/ CloseServerForm \/ handleReadKey \/ handleSave
    \/ \E s \in Servers : handleEdit(s) \/ handleDelete(s) \/ handleTest(s)
    \/ \E path \in Paths : handleNavigate(path)
    \/ handleGoUp \/ AskMkdir \/ AskRename \/ Dismiss
    \/ \E idx \in 0 .. MaxClicks : handlePathClick(idx)
    \/ handleMkdir \/ handleRename \/ handleUpload
    \/ handleReconnect

Arrivals ==
    \/ \E i \in DOMAIN calls :
          \/ FilesServerArrives(i) \/ MonitorServerArrives(i)
          \/ \E ok \in BOOLEAN :
                \/ ServersArrive(i, ok) \/ KeyArrives(i, ok) \/ ServerSaved(i, ok)
                \/ ServerTouched(i, ok) \/ FilesArrive(i, ok) \/ FilesChanged(i, ok)
                \/ TerminalServerArrives(i, ok) \/ initTerminal(i, ok)
                \/ fetchMetrics(i, ok)
    \/ MonitorTick
    \/ \E k \in 1 .. MaxSockets : SocketOpens(k) \/ SocketCloses(k)

Next ==
    \/ page \in Views /\ UserActs
    \/ page \in Views \cup {None} /\ Arrivals

-----------------------------------------------------------------------------
\* What the constants are taken to be: a directory comes with those above it.
ServersConstants ==
    /\ None \notin Views /\ MaxSockets \in Nat /\ <<>> \in Paths
    /\ \A path \in Paths : /\ path \in Seq(Range(path))
                         /\ \A n \in 0 .. Len(path) : SubSeq(path, 1, n) \in Paths

FormType == [of : Servers \cup {"new"}, key : Servers \cup {"new", None}]

TypeOK ==
    /\ On("Servers") =>
         /\ view.search \in Searches \cup {None} /\ view.rows \in Searches \cup {None}
         /\ view.form \in FormType \cup {None}
         /\ {view.loading, view.calm} \subseteq BOOLEAN
    /\ On("Files") =>
         /\ view.path \in Paths /\ view.listing \in Paths \cup {None}
         /\ view.prompt \in [kind : {"mkdir", "rename"}, dir : Paths] \cup {None}
         /\ {view.loading, view.calm} \subseteq BOOLEAN
    /\ On("Terminal") =>
         /\ view.sockets \in Seq({"connecting", "open", "closing", "closed"})
         /\ view.ws \in 0 .. Len(view.sockets)
         /\ {view.connected, view.twice} \subseteq BOOLEAN
    /\ On("Monitor") => {view.loading, view.error, view.timer} \subseteq BOOLEAN

BusyEnds ==
    /\ On("Servers") /\ view.loading => InFlight({"servers"})
    /\ On("Files") /\ view.loading => InFlight({"files"})
    /\ On("Monitor") /\ view.loading => InFlight({"server", "firstMetrics"})

(***************************************************************************)
(* A rename keeps the file in its directory as long as no listing was      *)
(* overtaken or out of turn: the name typed is joined to the path shown after the prompt, *)
(* the file was named by the listing shown before it.                      *)
(***************************************************************************)
RenameKeepsDirectory ==
    On("Files") /\ view.calm =>
    \A i \in Indices("rename") : calls[i].arg.old = calls[i].arg.new

(***************************************************************************)
(* "Connected" is shown only while a socket is open, and what is typed     *)
(* reaches it unless the user reconnected twice at once.                   *)
(***************************************************************************)
ConnectedHasSocket ==
    On("Terminal") /\ view.connected =>
    /\ \E k \in DOMAIN view.sockets : view.sockets[k] = "open"
    /\ view.twice \/ view.sockets[view.ws] = "open"

\* A private key is saved only for the server whose form asked for it, unless
\* the answer came after another form had been opened.
KeyOfItsForm ==
    On("Servers") /\ view.calm =>
    \A i \in Indices("saveServer") : calls[i].arg.key \in {None, calls[i].arg.of}
==============================================================================
