------------------------------ MODULE AppShell ------------------------------
(***************************************************************************)
(* What surrounds the views: the router with its guard, the session token  *)
(* in the storage of the browser (which other tabs of it share), the login *)
(* page, and the layout with its menu, its tabs, the unread badge and the  *)
(* dialogs of the account.  The views themselves are the other modules'.   *)
(***************************************************************************)
EXTENDS Console

CONSTANTS Routes,        \* paths inside the layout, "/dashboard" and "/tasks" among them
          MaxSessions,   \* logins (a bound)
          MaxCountdowns, \* countdowns running at once (a bound)
          Parts          \* which of "tabs", "bell" and "account" a visit uses together

On(p) == page = p
InApp == page \in {"Login", "Shell"}

Home == "/dashboard"

World(token, source, part) ==
    [part |-> part, token |-> token, issued |-> IF token = None THEN 0 ELSE token,
     shared |-> FALSE, source |-> source, unread |-> FALSE, news |-> FALSE]

\* The request interceptor reads the token as the call leaves.
Api(op, what) == Call(op, [token |-> world.token, what |-> what])

ApiOps == {"login", "settings", "unread", "notes", "markRead", "profile",
           "saveProfile", "sendCode", "password", "logout", "orphan"}

\* Setup and onMounted of the layout.  afterEach is not yet its own when the
\* navigation that mounts it settles: the tabs start with the dashboard only.
Layout(route) ==
    [route |-> route, tabs |-> <<Home>>, moved |-> FALSE, menu |-> None,
     source |-> "both", unread |-> FALSE, drawer |-> FALSE,
     profile |-> "placeholder", account |-> FALSE, password |-> FALSE,
     sending |-> FALSE, countdowns |-> 0, calm |-> TRUE]

LayoutCalls == <<Api("settings", None), Api("unread", world.unread)>>

LoginRefs(redirect) == [redirect |-> redirect, loading |-> FALSE]

\* An address typed, a reload: the first navigation passes the same guard.
EnterShell ==
    \E r \in Routes, source \in {"both", "artifact"}, part \in Parts :
       LET new(op, what) == Call(op, [token |-> 1, what |-> what]) IN
       Mount("Shell", Layout(r), World(1, source, part),
             <<new("settings", None), new("unread", FALSE)>>)

EnterLogin ==
    \E r \in Routes, token \in {None, 1}, part \in Parts :
       Mount("Login", LoginRefs(r), World(token, "both", part), <<>>)

-----------------------------------------------------------------------------
(* The router                                                              *)

(***************************************************************************)
(* A push takes effect when its chunk has loaded, unless another was made  *)
(* meanwhile (here the router does keep track: "last").  afterEach runs in *)
(* both cases, and the layout's hook does not look at the failure.         *)
(***************************************************************************)
push(p) == Call("route", p)

\* faulty: a second tab for the same page.
Bug_WithTab(tabs, p) == Append(tabs, p)

WithTab(tabs, p) == IF p \in Range(tabs) THEN tabs ELSE Append(tabs, p)

\* beforeEach: no token, no page but the login.  The layout goes without a
\* reload and clears its interval; its calls stay in flight, and what is left of
\* their continuations is what they do to the session.  The navigations it
\* overtakes load their chunks for nothing.
Orphan(c) ==
    IF c.op \in {"route", "overtaken"} THEN [c EXCEPT !.op = "overtaken"]
    ELSE [c EXCEPT !.op = "orphan",
                   !.arg.what = c.op \in {"logout", "password"} \/ (c.op = "orphan" /\ @)]

ToLogin(redirect, rest) ==
    /\ page' = "Login" /\ view' = LoginRefs(redirect)
    /\ calls' = [k \in DOMAIN rest |-> Orphan(rest[k])]

RouteSettles(i) ==
    /\ On("Shell") /\ i \in Indices("route")
    /\ IF calls[i].last /\ world.token = None
       THEN ToLogin(calls[i].arg, Without(calls, i))
       ELSE /\ view' = [view EXCEPT
                          !.route = IF calls[i].last THEN calls[i].arg ELSE @,
                          !.moved = @ \/ calls[i].last,
                          !.tabs = WithTab(@, calls[i].arg)]
            /\ Reply(i, <<>>) /\ UNCHANGED page
    /\ UNCHANGED <<world, clicks>>

ChunkFails(i) ==
    /\ InApp /\ i \in Indices("route")
    /\ view' = IF On("Shell") THEN [view EXCEPT !.calm = FALSE] ELSE view
    /\ Reply(i, <<>>) /\ Answer

-----------------------------------------------------------------------------
(* Menu and tabs                                                           *)

Part(p) == On("Shell") /\ p \in world.part

NoDialog == ~view.account /\ ~view.password /\ ~view.drawer

OnTabs == Part("tabs") /\ NoDialog

Pushes(refs, p) == view' = refs /\ Send(<<push(p)>>) /\ User

\* el-menu with "router"; the back button of the browser goes the same way.
Menu(p) ==
    /\ OnTabs
    /\ p = "/tasks" => view.source # "artifact"
    /\ Pushes([view EXCEPT !.menu = None], p)

handleTabClick(p) ==
    /\ OnTabs /\ p \in Range(view.tabs)
    /\ Pushes([view EXCEPT !.menu = None], p)

\* faulty: the page shown is closed and nothing else opened.
Bug_handleTabClose(p, refs) ==
    /\ view' = [refs EXCEPT !.tabs = SelectSeq(@, LAMBDA q : q # p)]
    /\ UNCHANGED calls

\* The tab goes; if it was the one shown, its neighbour is. "Close current" of
\* the menu can close the last one, and then nothing is pushed.
handleTabClose(p, refs) ==
    IF p \notin Range(refs.tabs) THEN view' = refs /\ UNCHANGED calls
    ELSE LET idx == CHOOSE k \in DOMAIN refs.tabs : refs.tabs[k] = p
             tabs == Without(refs.tabs, idx)
             next == IF idx <= Len(tabs) THEN idx ELSE Len(tabs)
         IN  IF p # refs.route THEN view' = [refs EXCEPT !.tabs = tabs] /\ UNCHANGED calls
             ELSE IF tabs = <<>>
             THEN view' = [refs EXCEPT !.tabs = tabs, !.moved = FALSE] /\ UNCHANGED calls
             ELSE view' = [refs EXCEPT !.tabs = tabs] /\ Send(<<push(tabs[next])>>)

\* The cross of a tab; its click does not reach the document (@click.stop), so
\* the menu stays open, on a tab that may be the one just closed.
CloseIcon(p) ==
    /\ OnTabs /\ Len(view.tabs) > 1 /\ p \in Range(view.tabs)
    /\ handleTabClose(p, view) /\ User

handleTabContextMenu(p) ==
    /\ OnTabs /\ p \in Range(view.tabs) /\ view.menu # p
    /\ view' = [view EXCEPT !.menu = p] /\ UNCHANGED calls /\ User

closeContextMenu == [view EXCEPT !.menu = None]

handleContextClose ==
    /\ OnTabs /\ view.menu # None
    /\ handleTabClose(view.menu, closeContextMenu) /\ User

\* The tabs of one page: there is at most one.
OnlyTab(tabs, p) == IF p \in Range(tabs) THEN <<p>> ELSE <<>>

handleContextCloseOthers ==
    /\ OnTabs /\ view.menu # None
    /\ Pushes([closeContextMenu EXCEPT !.tabs = OnlyTab(@, view.menu)], view.menu)

handleContextCloseAll ==
    /\ OnTabs /\ view.menu # None
    /\ Pushes([closeContextMenu EXCEPT !.tabs = <<Home>>], Home)

-----------------------------------------------------------------------------
(* The badge and the drawer                                                *)

\* Every 30 s for as long as the layout is mounted.
NotifyTick ==
    /\ On("Shell") /\ ~InFlight({"unread"})
    /\ world' = [world EXCEPT !.news = FALSE]
    /\ Send(<<Api("unread", world.unread)>>) /\ UNCHANGED <<page, view, clicks>>

\* Served at some time between the call and its answer.
UnreadArrives(i, ok) ==
    /\ On("Shell") /\ i \in Indices("unread")
    /\ \E served \in {calls[i].arg.what, world.unread} :
          view' = [view EXCEPT !.unread = IF ok THEN served ELSE @, !.calm = @ /\ ok]
    /\ Reply(i, <<>>) /\ Answer

\* Something ends and the server files a message.
NewMessage ==
    /\ Part("bell") /\ ~world.unread
    /\ world' = [world EXCEPT !.unread = TRUE, !.news = TRUE]
    /\ UNCHANGED <<page, view, calls, clicks>>

OpenDrawer ==
    /\ Part("bell") /\ NoDialog
    /\ view' = [view EXCEPT !.drawer = TRUE, !.menu = None]
    /\ Send(<<Api("notes", None)>>) /\ User

\* The rows of the drawer and their marks are left out.
loadNotifications(i) ==
    /\ On("Shell") /\ i \in Indices("notes")
    /\ UNCHANGED view /\ Reply(i, <<>>) /\ Answer

handleMarkAllRead ==
    /\ On("Shell") /\ view.drawer
    /\ Send(<<Api("markRead", None)>>) /\ UNCHANGED view /\ User

\* A count that is still out may bring back what was read meanwhile.
MarkedRead(i, ok) ==
    /\ On("Shell") /\ i \in Indices("markRead")
    /\ world' = IF ok THEN [world EXCEPT !.unread = FALSE] ELSE world
    /\ view' = IF ok THEN [view EXCEPT !.unread = FALSE,
                                       !.calm = @ /\ ~InFlight({"unread"})]
               ELSE view
    /\ Reply(i, <<>>) /\ UNCHANGED <<page, clicks>>

\* fetchSettings: which of the two ways to deploy the menu offers.
SettingsArrive(i, ok) ==
    /\ On("Shell") /\ i \in Indices("settings")
    /\ view' = IF ok THEN [view EXCEPT !.source = world.source] ELSE view
    /\ Reply(i, <<>>) /\ Answer

-----------------------------------------------------------------------------
(* The dialogs of the account                                              *)

\* handleUserCommand: the form of the account is not cleared, only loaded over.
OpenProfile ==
    /\ Part("account") /\ NoDialog
    /\ view' = [view EXCEPT !.account = TRUE, !.menu = None]
    /\ Send(<<Api("profile", None)>>) /\ User

loadProfile(i, ok) ==
    /\ On("Shell") /\ i \in Indices("profile")
    /\ view' = IF ok THEN [view EXCEPT !.profile = "own"] ELSE [view EXCEPT !.calm = FALSE]
    /\ Reply(i, <<>>) /\ Answer

\* What is sent is a made-up account as long as none was loaded.
handleSaveProfile ==
    /\ On("Shell") /\ view.account
    /\ view' = [view EXCEPT !.calm = @ /\ ~InFlight({"profile"})]
    /\ Send(<<Api("saveProfile", view.profile)>>) /\ User

ProfileSaved(i, ok) ==
    /\ On("Shell") /\ i \in Indices("saveProfile")
    /\ view' = [view EXCEPT !.account = @ /\ ~ok]
    /\ Reply(i, <<>>) /\ Answer

OpenPassword ==
    /\ Part("account") /\ NoDialog
    /\ view' = [view EXCEPT !.password = TRUE, !.menu = None]
    /\ UNCHANGED calls /\ User

CloseDialog ==
    /\ On("Shell") /\ ~NoDialog
    /\ view' = [view EXCEPT !.account = FALSE, !.password = FALSE, !.drawer = FALSE]
    /\ UNCHANGED calls /\ User

\* The button is disabled by the answer only: two clicks start two countdowns,
\* and the layout keeps the handle of the second.
handleSendCode ==
    /\ On("Shell") /\ view.password /\ ~view.sending
    /\ Send(<<Api("sendCode", None)>>) /\ UNCHANGED view /\ User

CodeSent(i, ok) ==
    /\ On("Shell") /\ i \in Indices("sendCode")
    /\ ok => view.countdowns < MaxCountdowns
    /\ view' = [view EXCEPT !.sending = @ \/ ok,
                            !.countdowns = IF ok THEN @ + 1 ELSE @]
    /\ Reply(i, <<>>) /\ Answer

\* The count reaches zero: the one whose handle is kept is cleared.
CountdownEnds ==
    /\ On("Shell") /\ view.sending /\ view.countdowns > 0
    /\ view' = [view EXCEPT !.sending = FALSE, !.countdowns = @ - 1]
    /\ UNCHANGED calls /\ Answer

handleSavePassword ==
    /\ On("Shell") /\ view.password
    /\ Send(<<Api("password", None)>>) /\ UNCHANGED view /\ User

handleLogout ==
    /\ On("Shell") /\ NoDialog
    /\ view' = [view EXCEPT !.menu = None]
    /\ Send(<<Api("logout", None)>>) /\ User

-----------------------------------------------------------------------------
(* The session                                                             *)

\* window.location.href = '/login': every continuation of this page is gone.
Reload ==
    /\ page' = "Login" /\ view' = LoginRefs(Home) /\ calls' = <<>>
    /\ world' = [world EXCEPT !.token = None]
    /\ UNCHANGED clicks

\* The session ends here whether the server heard of it or not; a refused
\* password leaves everything as it was.
LoggedOut(i) == On("Shell") /\ i \in Indices("logout") /\ Reload

PasswordChanged(i, ok) ==
    /\ On("Shell") /\ i \in Indices("password")
    /\ \/ ok /\ Reload
       \/ ~ok /\ UNCHANGED view /\ Reply(i, <<>>) /\ Answer

\* faulty: the token goes, the page stays.
Bug_Unauthorized(i) ==
    /\ InApp /\ calls[i].op \in ApiOps
    /\ world' = [world EXCEPT !.token = None]
    /\ Reply(i, <<>>) /\ UNCHANGED <<page, view, clicks>>

\* The response interceptor on a 401, whichever token the call had carried.
Unauthorized(i) ==
    /\ InApp /\ calls[i].op \in ApiOps
    /\ \/ On("Shell") /\ Reload
       \/ /\ On("Login")
          /\ view' = [view EXCEPT !.loading = @ /\ calls[i].op # "login"]
          /\ world' = [world EXCEPT !.token = None]
          /\ Reply(i, <<>>) /\ UNCHANGED <<page, clicks>>

handleLogin ==
    /\ On("Login") /\ ~view.loading
    /\ view' = [view EXCEPT !.loading = TRUE]
    /\ Send(<<Api("login", None)>>) /\ User

\* login of the user store, then the page the guard had turned away.
LoggedIn(i, ok) ==
    /\ On("Login") /\ i \in Indices("login")
    /\ view' = [view EXCEPT !.loading = FALSE]
    /\ \/ /\ ok /\ world.issued < MaxSessions
          /\ world' = [world EXCEPT !.token = world.issued + 1, !.issued = @ + 1]
          /\ Reply(i, <<push(view.redirect)>>)
       \/ ~ok /\ UNCHANGED world /\ Reply(i, <<>>)
    /\ UNCHANGED <<page, clicks>>

\* The layout is mounted in the place of the login page, beside the calls an
\* earlier layout may have left; without a token the guard turns back.
ShellOpens(i) ==
    /\ On("Login") /\ i \in Indices("route")
    /\ IF world.token = None THEN UNCHANGED <<page, view>> /\ Reply(i, <<>>)
       ELSE page' = "Shell" /\ view' = Layout(calls[i].arg) /\ Reply(i, LayoutCalls)
    /\ UNCHANGED <<world, clicks>>

\* Calls an earlier layout left behind, answered to nobody.
Unheard(i) ==
    /\ InApp
    /\ \/ i \in Indices("orphan") /\ calls[i].arg.what /\ Reload
       \/ /\ i \in Indices("orphan") \cup Indices("overtaken")
          /\ UNCHANGED view /\ Reply(i, <<>>) /\ Answer

\* Another tab of the browser logs out, or in again.
OtherTab ==
    /\ InApp /\ ~world.shared
    /\ \/ world' = [world EXCEPT !.token = None, !.shared = TRUE]
       \/ /\ world.issued < MaxSessions
          /\ world' = [world EXCEPT !.token = world.issued + 1,
                                    !.issued = @ + 1, !.shared = TRUE]
    /\ UNCHANGED <<page, view, calls, clicks>>

-----------------------------------------------------------------------------
Enter == EnterShell \/ EnterLogin
Leave == InApp /\ LeaveWith({}, {})

UserActs ==
    \/ \E p \in Routes :
          \/ Menu(p) \/ handleTabClick(p) \/ CloseIcon(p) \/ handleTabContextMenu(p)
    \/ handleContextClose \/ handleContextCloseOthers \/ handleContextCloseAll
    \/ OpenDrawer \/ handleMarkAllRead \/ CloseDialog
    \/ OpenProfile \/ handleSaveProfile
    \/ OpenPassword \/ handleSendCode \/ handleSavePassword
    \/ handleLogout \/ handleLogin

Arrivals ==
    \/ \E i \in DOMAIN calls :
          \/ RouteSettles(i) \/ ChunkFails(i) \/ Unauthorized(i)
          \/ LoggedOut(i) \/ ShellOpens(i) \/ Unheard(i)
          \/ loadNotifications(i)
          \/ \E ok \in BOOLEAN :
                \/ UnreadArrives(i, ok) \/ MarkedRead(i, ok)
                \/ SettingsArrive(i, ok) \/ loadProfile(i, ok) \/ ProfileSaved(i, ok)
                \/ CodeSent(i, ok) \/ PasswordChanged(i, ok) \/ LoggedIn(i, ok)
    \/ NotifyTick \/ NewMessage \/ CountdownEnds \/ OtherTab

Next == InApp /\ (UserActs \/ Arrivals)

-----------------------------------------------------------------------------
\* What the constants are taken to be.
ShellConstants ==
    /\ MaxSessions \in Nat \ {0} /\ MaxCountdowns \in Nat
    /\ None \notin Nat \cup {"Login", "Shell"} /\ Home \in Routes

Sessions == 1 .. MaxSessions \cup {None}

TypeOK ==
    /\ InApp =>
         /\ world.token \in Sessions /\ world.issued \in 0 .. MaxSessions
         /\ {world.shared, world.unread, world.news} \subseteq BOOLEAN
    /\ On("Login") => view.redirect \in Routes /\ view.loading \in BOOLEAN
    /\ On("Shell") =>
         /\ view.route \in Routes /\ view.menu \in Routes \cup {None}
         /\ view.tabs \in Seq(Routes) /\ IsInjective(view.tabs)
         /\ view.source \in {"both", "artifact"} /\ view.profile \in {"placeholder", "own"}
         /\ view.countdowns \in 0 .. MaxCountdowns
         /\ {view.moved, view.unread, view.drawer, view.account,
             view.password, view.sending, view.calm} \subseteq BOOLEAN

\* The resend button counts down as long as it is disabled, and the login
\* button waits for a call.
BusyEnds ==
    /\ On("Login") /\ view.loading => InFlight({"login"})
    /\ On("Shell") /\ view.sending => view.countdowns > 0

\* Once the router is at rest the route shown has a tab, from the first
\* navigation inside the layout on and until its last tab is closed, if every
\* chunk loaded.
RouteHasTab ==
    On("Shell") /\ view.calm /\ view.moved /\ ~InFlight({"route"}) =>
    view.route \in Range(view.tabs)

\* The layout is shown only in a session, and a call in flight carries its
\* token, unless another tab of the browser ended or changed it.
SessionKept ==
    InApp /\ ~world.shared =>
    /\ On("Shell") => world.token # None
    /\ \A i \in DOMAIN calls :
          calls[i].op \in ApiOps \ {"login"} => calls[i].arg.token = world.token

\* The made-up account of the form is saved only by a user who did not wait
\* for the own one.
WritesOwnSubject ==
    On("Shell") /\ view.calm =>
    \A i \in Indices("saveProfile") : calls[i].arg.what = "own"

\* Once everything is answered, in turn, and no message came since the last
\* count, the badge is what the server counts.
BadgeIsServed ==
    On("Shell") /\ calls = <<>> /\ view.calm /\ ~world.news =>
    view.unread = world.unread
==============================================================================
