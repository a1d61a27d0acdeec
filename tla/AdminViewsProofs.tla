--------------------------- MODULE AdminViewsProofs ---------------------------
(***************************************************************************)
(* Theorems about the router, the session, the tabs, the badge and the     *)
(* dialogs of the account, and about the views of server management, of    *)
(* the settings, of Kubernetes and of SQL changes, for every set of        *)
(* routes, servers, paths, rows, namespaces, files and tasks, every number *)
(* of logins, clicks and calls in flight and every order of the answers.   *)
(***************************************************************************)
EXTENDS AppShell, ConsoleProofs

-----------------------------------------------------------------------------
(* The invariant *)

LayoutFields == {"route", "tabs", "moved", "menu", "source", "unread", "drawer", "profile",
                 "account", "password", "sending", "countdowns", "calm"}
WorldFields == {"part", "token", "issued", "shared", "source", "unread", "news"}

\* What waits on the login page beside its own call: a push, and what is left of
\* an earlier layout.
LoginOps == {"login", "route", "orphan", "overtaken"}

Shape ==
  InApp =>
    /\ AreCalls(calls) /\ DOMAIN world = WorldFields
    /\ world.source \in {"both", "artifact"}
    /\ \A a : Flying("route", a, calls) => a \in Routes
    /\ \A a : Flying("unread", a, calls) => a.what \in BOOLEAN
    /\ On("Login") => /\ DOMAIN view = {"redirect", "loading"}
                      /\ \A o, a : Flying(o, a, calls) => o \in LoginOps
    /\ On("Shell") => DOMAIN view = LayoutFields

\* Before another tab meddles, the login page has no call of a session in flight.
InSession ==
  InApp /\ ~world.shared =>
    /\ On("Shell") => world.token # None
    /\ On("Login") => \A o, a : Flying(o, a, calls) => o \in {"login", "route"}
    /\ \A o, a : Flying(o, a, calls) /\ o \in ApiOps \ {"login"} => a.token = world.token

\* The route shown has a tab, or the push that was made last is still to settle.
Tabbed ==
  On("Shell") /\ view.calm /\ view.moved =>
    view.route \in Range(view.tabs) \/ Latest("route", calls)

\* An open form of the account shows the own one, or waits for it.
OwnProfile ==
  On("Shell") /\ view.calm =>
    /\ view.account => view.profile = "own" \/ InFlight({"profile"})
    /\ \A a : Flying("saveProfile", a, calls) => a.what = "own"

\* What is counted agrees with the server, or a count that agrees is under way.
Counted ==
  On("Shell") /\ view.calm /\ ~world.news =>
    /\ view.unread = world.unread \/ InFlight({"unread"})
    /\ \A a : Flying("unread", a, calls) => a.what = world.unread

ShellInv ==
  Shape /\ TypeOK /\ InSession /\ Tabbed /\ OwnProfile /\ Counted /\ BusyEnds

-----------------------------------------------------------------------------
(* Tabs *)

LEMMA TabsGrow ==
  ASSUME NEW tabs \in Seq(Routes), IsInjective(tabs), NEW p \in Routes
  PROVE  /\ WithTab(tabs, p) \in Seq(Routes) /\ IsInjective(WithTab(tabs, p))
         /\ Range(WithTab(tabs, p)) = Range(tabs) \cup {p}
<1>1. CASE p \in Range(tabs)
  BY <1>1 DEF WithTab
<1>2. CASE p \notin Range(tabs)
  <2> DEFINE new == Append(tabs, p)
  <2>1. /\ new \in Seq(Routes) /\ Len(tabs) \in Nat /\ DOMAIN tabs = 1..Len(tabs)
        /\ DOMAIN new = 1..(Len(tabs) + 1) /\ new[Len(tabs) + 1] = p
        /\ \A j \in 1..Len(tabs) : new[j] = tabs[j]
    OBVIOUS
  <2> HIDE DEF new
  <2>2. \A j \in DOMAIN new : j \in DOMAIN tabs \/ j = Len(tabs) + 1
    BY <2>1
  <2>3. \A j \in DOMAIN tabs : j \in DOMAIN new /\ tabs[j] # p
    BY <1>2, <2>1 DEF Range
  <2>4. Len(tabs) + 1 \in DOMAIN new
    BY <2>1
  <2>5. Range(new) = Range(tabs) \cup {p}
    BY <2>1, <2>2, <2>3, <2>4 DEF Range
  <2>6. IsInjective(new)
    BY <2>1, <2>2, <2>3 DEF IsInjective
  <2> QED
    BY <1>2, <2>1, <2>5, <2>6 DEF WithTab, new
<1> QED
  BY <1>1, <1>2

\* One tab goes, the others stay.
LEMMA TabsShrink ==
  ASSUME NEW tabs \in Seq(Routes), IsInjective(tabs), NEW i \in DOMAIN tabs
  PROVE  /\ Without(tabs, i) \in Seq(Routes) /\ IsInjective(Without(tabs, i))
         /\ \A p \in Range(tabs) : p # tabs[i] => p \in Range(Without(tabs, i))
         /\ Len(Without(tabs, i)) = Len(tabs) - 1
<1> DEFINE rest == Without(tabs, i)
<1>1. i \in 1..Len(tabs) /\ Len(tabs) \in Nat /\ DOMAIN tabs = 1..Len(tabs)
      /\ \A k \in 1..Len(tabs) : tabs[k] \in Routes
  OBVIOUS
<1>2. /\ rest \in Seq(Routes) /\ Len(rest) = Len(tabs) - 1
      /\ \A j \in 1..Len(rest) : rest[j] = tabs[IF j < i THEN j ELSE j + 1]
  <2>1. \A j \in 1..(Len(tabs) - 1) : (IF j < i THEN j ELSE j + 1) \in 1..Len(tabs)
    BY <1>1
  <2> DEFINE n == Len(tabs) - 1
  <2>2. n \in Nat /\ rest \in [1..n -> Routes]
    BY <1>1, <2>1 DEF Without
  <2>3. \A j \in 1..n : rest[j] = tabs[IF j < i THEN j ELSE j + 1]
    BY <1>1 DEF Without
  <2> HIDE DEF rest, n
  <2>4. rest \in Seq(Routes) /\ Len(rest) = n
    BY <2>2
  <2> QED
    BY <2>3, <2>4 DEF n
<1> HIDE DEF rest
<1>3. DOMAIN rest = 1..(Len(tabs) - 1)
  BY <1>2
<1>4. \A k \in 1..Len(tabs) : k # i => \E j \in DOMAIN rest : rest[j] = tabs[k]
  <2> TAKE k \in 1..Len(tabs)
  <2>1. CASE k < i
    <3>1. k \in 1..Len(rest)
      BY <1>1, <1>2, <2>1
    <3> QED
      BY <1>2, <1>3, <2>1, <3>1
  <2>2. CASE k > i
    <3>1. k - 1 \in 1..Len(rest) /\ ~(k - 1 < i) /\ (k - 1) + 1 = k
      BY <1>1, <1>2, <2>2
    <3> QED
      BY <1>2, <1>3, <3>1
  <2> QED
    BY <1>1, <2>1, <2>2
<1>5. IsInjective(rest)
  <2> SUFFICES ASSUME NEW a \in 1..Len(rest), NEW b \in 1..Len(rest), rest[a] = rest[b]
               PROVE  a = b
    BY <1>2, <1>3 DEF IsInjective
  <2> DEFINE old(j) == IF j < i THEN j ELSE j + 1
  <2>1. old(a) \in 1..Len(tabs) /\ old(b) \in 1..Len(tabs) /\ tabs[old(a)] = tabs[old(b)]
    BY <1>1, <1>2
  <2>2. old(a) = old(b)
    BY <1>1, <2>1 DEF IsInjective
  <2> QED
    BY <1>1, <1>2, <2>2
<1>6. \A p \in Range(tabs) : p # tabs[i] => p \in Range(rest)
  BY <1>1, <1>4 DEF Range
<1> QED
  BY <1>2, <1>5, <1>6 DEF rest

LEMMA OneTab ==
  ASSUME NEW p \in Routes
  PROVE  /\ <<p>> \in Seq(Routes) /\ IsInjective(<<p>>) /\ Range(<<p>>) = {p}
         /\ <<>> \in Seq(Routes) /\ IsInjective(<<>>)
  BY DEF IsInjective, Range

-----------------------------------------------------------------------------
(* Steps inside the layout *)

\* What a step that moves no tab keeps, whatever it does to the rest.
Inside ==
  /\ page' = page /\ DOMAIN view' = LayoutFields /\ DOMAIN world' = WorldFields
  /\ world'.source = world.source
  /\ view'.route = view.route /\ view'.moved = view.moved
  /\ view'.calm => view.calm
  /\ TypeOK' /\ BusyEnds'

LEMMA AtShell ==
  ASSUME ShellInv, On("Shell")
  PROVE  /\ InApp /\ ~On("Login") /\ AreCalls(calls)
         /\ DOMAIN world = WorldFields /\ DOMAIN view = LayoutFields
         /\ world.token \in Sessions /\ world.issued \in 0 .. MaxSessions
         /\ world.shared \in BOOLEAN /\ world.unread \in BOOLEAN /\ world.news \in BOOLEAN
         /\ world.source \in {"both", "artifact"}
         /\ view.route \in Routes /\ view.menu \in Routes \cup {None}
         /\ view.tabs \in Seq(Routes) /\ IsInjective(view.tabs)
         /\ view.source \in {"both", "artifact"} /\ view.profile \in {"placeholder", "own"}
         /\ view.countdowns \in 0 .. MaxCountdowns
         /\ view.moved \in BOOLEAN /\ view.unread \in BOOLEAN /\ view.drawer \in BOOLEAN
         /\ view.account \in BOOLEAN /\ view.password \in BOOLEAN
         /\ view.sending \in BOOLEAN /\ view.calm \in BOOLEAN
         /\ view.sending => view.countdowns > 0
         /\ ~world.shared => world.token # None
  BY DEF ShellInv, Shape, TypeOK, BusyEnds, InSession, InApp, On

\* Fields keep their types as long as what changed has them.
LEMMA StillInside ==
  ASSUME ShellInv, On("Shell"), page' = page, world' = world,
         DOMAIN view' = LayoutFields, view'.route = view.route, view'.tabs = view.tabs,
         view'.moved = view.moved, view'.source = view.source,
         view'.menu \in Routes \cup {None}, view'.unread \in BOOLEAN, view'.drawer \in BOOLEAN,
         view'.profile \in {"placeholder", "own"}, view'.account \in BOOLEAN,
         view'.password \in BOOLEAN, view'.sending \in BOOLEAN,
         view'.countdowns \in 0 .. MaxCountdowns, view'.sending => view'.countdowns > 0,
         view'.calm \in BOOLEAN, view'.calm => view.calm
  PROVE  Inside
<1>1. On("Shell")' /\ ~On("Login")'
  BY DEF On
<1>2. TypeOK'
  BY <1>1, AtShell DEF TypeOK
<1>3. BusyEnds'
  BY <1>1 DEF BusyEnds
<1> QED
  BY <1>2, <1>3, AtShell DEF Inside

\* A call of the session leaves.
LEMMA SendsOne ==
  ASSUME ShellInv, On("Shell"), Inside,
         NEW op \in ApiOps \ {"login", "orphan"}, NEW what, Send(<<Api(op, what)>>),
         world'.token = world.token, world'.shared = world.shared,
         world'.unread = world.unread, view'.unread = view.unread,
         view'.tabs = view.tabs, view'.profile = view.profile,
         view'.account /\ view'.calm => view.account \/ op = "profile",
         op = "saveProfile" /\ view'.calm => what = "own",
         op = "unread" => what = world.unread /\ ~InFlight({"unread"}),
         op # "unread" => world'.news = world.news
  PROVE  ShellInv'
<1> DEFINE arg == [token |-> world.token, what |-> what]
<1>1. Send(<<Call(op, arg)>>) /\ arg.token = world.token /\ arg.what = what
  BY DEF Api
<1> HIDE DEF arg
<1>2. InApp /\ ~On("Login") /\ AreCalls(calls) /\ On("Shell")' /\ ~On("Login")'
  BY AtShell DEF Inside, On
<1>3. /\ AreCalls(calls')
      /\ \A o, a : Flying(o, a, calls') <=> Flying(o, a, calls) \/ (o = op /\ a = arg)
      /\ \A ops : InFlight(ops) \/ op \in ops => InFlight(ops)'
  BY <1>1, <1>2, SendOne
<1>4. Latest("route", calls) => Latest("route", calls')
  <2>1. op # "route"
    BY DEF ApiOps
  <2> QED
    BY <1>1, <1>2, <2>1, SendLatest
<1>5. Shape'
  <2>1. op # "route"
    BY DEF ApiOps
  <2>2. /\ \A a : Flying("route", a, calls') => a \in Routes
        /\ \A a : Flying("unread", a, calls') => a.what \in BOOLEAN
    BY <1>1, <1>2, <1>3, <2>1, AtShell DEF ShellInv, Shape
  <2>3. world'.source \in {"both", "artifact"}
    BY AtShell DEF Inside
  <2> QED
    BY <1>2, <1>3, <2>2, <2>3 DEF Shape, Inside
<1>6. InSession'
  <2>1. ~world.shared => world.token # None
                         /\ \A o, a : Flying(o, a, calls) /\ o \in ApiOps \ {"login"} =>
                                      a.token = world.token
    BY <1>2 DEF ShellInv, InSession
  <2> QED
    BY <1>1, <1>2, <1>3, <2>1 DEF InSession
<1>7. Tabbed'
  BY <1>2, <1>4 DEF ShellInv, Tabbed, Inside
<1>8. OwnProfile'
  <2>1. ASSUME view'.calm, view'.account PROVE view'.profile = "own" \/ InFlight({"profile"})'
    BY <1>3, <2>1 DEF ShellInv, OwnProfile, Inside
  <2>2. ASSUME view'.calm, NEW a, Flying("saveProfile", a, calls') PROVE a.what = "own"
    BY <1>1, <1>3, <2>2 DEF ShellInv, OwnProfile, Inside
  <2> QED
    BY <2>1, <2>2 DEF OwnProfile
<1>9. Counted'
  <2> SUFFICES ASSUME view'.calm, ~world'.news
               PROVE  /\ view'.unread = world'.unread \/ InFlight({"unread"})'
                      /\ \A a : Flying("unread", a, calls') => a.what = world'.unread
    BY <1>2 DEF Counted
  <2>1. CASE op = "unread"
    <3>1. \A a : ~Flying("unread", a, calls)
      BY <2>1, FlyingIsInFlight
    <3> QED
      BY <1>1, <1>3, <2>1, <3>1
  <2>2. CASE op # "unread"
    BY <1>3, <2>2 DEF ShellInv, Counted, Inside
  <2> QED
    BY <2>1, <2>2
<1> QED
  BY <1>5, <1>6, <1>7, <1>8, <1>9 DEF ShellInv, Inside

\* A step without calls.
LEMMA SendsNothing ==
  ASSUME ShellInv, On("Shell"), Inside, calls' = calls,
         ~world'.shared => ~world.shared /\ world'.token = world.token,
         view'.tabs = view.tabs, view'.profile = view.profile, view'.account => view.account,
         ~world'.news => ~world.news /\ world'.unread = world.unread /\ view'.unread = view.unread
  PROVE  ShellInv'
<1>1. InApp /\ ~On("Login") /\ AreCalls(calls) /\ On("Shell")' /\ ~On("Login")'
  BY AtShell DEF Inside, On
<1>2. \A ops : InFlight(ops) <=> InFlight(ops)'
  BY DEF InFlight
<1>3. Shape'
  <2>1. /\ \A a : Flying("route", a, calls') => a \in Routes
        /\ \A a : Flying("unread", a, calls') => a.what \in BOOLEAN
    BY <1>1 DEF ShellInv, Shape
  <2>2. world'.source \in {"both", "artifact"}
    BY AtShell DEF Inside
  <2> QED
    BY <1>1, <2>1, <2>2 DEF Shape, Inside
<1>4. InSession'
  BY <1>1 DEF ShellInv, InSession
<1>5. Tabbed'
  BY <1>1 DEF ShellInv, Tabbed, Inside
<1>6. OwnProfile'
  BY <1>2 DEF ShellInv, OwnProfile, Inside
<1>7. Counted'
  BY <1>2 DEF ShellInv, Counted, Inside
<1> QED
  BY <1>3, <1>4, <1>5, <1>6, <1>7 DEF ShellInv, Inside

\* A call is answered and nothing follows it.
LEMMA AnswersOne ==
  ASSUME ShellInv, On("Shell"), Inside, NEW i \in DOMAIN calls, Reply(i, <<>>),
         world'.token = world.token, world'.shared = world.shared, view'.tabs = view.tabs,
         calls[i].op = "route" => ~view'.calm,
         view'.account => view.account,
         (view'.profile = view.profile /\ calls[i].op # "profile") \/ view'.profile = "own"
           \/ ~view'.calm,
         view'.calm /\ ~world'.news =>
           /\ ~world.news
           /\ \/ /\ view'.unread = world'.unread
                 /\ world'.unread = world.unread \/ ~InFlight({"unread"})
              \/ /\ view'.unread = view.unread /\ world'.unread = world.unread
                 /\ calls[i].op # "unread"
  PROVE  ShellInv'
<1>1. InApp /\ ~On("Login") /\ AreCalls(calls) /\ On("Shell")' /\ ~On("Login")'
  BY AtShell DEF Inside, On
<1>2. /\ AreCalls(calls')
      /\ \A o, a : Flying(o, a, calls') => Flying(o, a, calls)
      /\ \A ops : InFlight(ops) /\ calls[i].op \notin ops => InFlight(ops)'
  BY <1>1, ReplyNone
<1>3. calls[i].op # "route" /\ Latest("route", calls) => Latest("route", calls')
  BY <1>1, ReplyLatest
<1>4. Shape'
  <2>1. /\ \A a : Flying("route", a, calls') => a \in Routes
        /\ \A a : Flying("unread", a, calls') => a.what \in BOOLEAN
    BY <1>1, <1>2 DEF ShellInv, Shape
  <2>2. world'.source \in {"both", "artifact"}
    BY AtShell DEF Inside
  <2> QED
    BY <1>1, <1>2, <2>1, <2>2 DEF Shape, Inside
<1>5. InSession'
  <2>1. ~world.shared => world.token # None
                         /\ \A o, a : Flying(o, a, calls) /\ o \in ApiOps \ {"login"} =>
                                      a.token = world.token
    BY <1>1 DEF ShellInv, InSession
  <2> QED
    BY <1>1, <1>2, <2>1 DEF InSession
<1>6. Tabbed'
  BY <1>1, <1>3 DEF ShellInv, Tabbed, Inside
<1>7. OwnProfile'
  <2>1. ASSUME view'.calm, view'.account PROVE view'.profile = "own" \/ InFlight({"profile"})'
    BY <1>2, <2>1 DEF ShellInv, OwnProfile, Inside
  <2>2. ASSUME view'.calm, NEW a, Flying("saveProfile", a, calls') PROVE a.what = "own"
    BY <1>2, <2>2 DEF ShellInv, OwnProfile, Inside
  <2> QED
    BY <2>1, <2>2 DEF OwnProfile
<1>8. Counted'
  <2> SUFFICES ASSUME view'.calm, ~world'.news
               PROVE  /\ view'.unread = world'.unread \/ InFlight({"unread"})'
                      /\ \A a : Flying("unread", a, calls') => a.what = world'.unread
    BY <1>1 DEF Counted
  <2>1. /\ view.unread = world.unread \/ InFlight({"unread"})
        /\ \A a : Flying("unread", a, calls) => a.what = world.unread
    BY DEF ShellInv, Counted, Inside
  <2>2. ~InFlight({"unread"}) => \A a : ~Flying("unread", a, calls)
    BY FlyingIsInFlight
  <2> QED
    BY <1>2, <2>1, <2>2
<1> QED
  BY <1>4, <1>5, <1>6, <1>7, <1>8 DEF ShellInv, Inside

\* A navigation is pushed.
LEMMA PushesOne ==
  ASSUME ShellInv, On("Shell"), Inside, NEW p \in Routes, Send(<<push(p)>>), world' = world,
         view'.profile = view.profile, view'.account = view.account,
         view'.unread = view.unread
  PROVE  ShellInv'
<1>1. InApp /\ ~On("Login") /\ AreCalls(calls) /\ On("Shell")' /\ ~On("Login")'
  BY AtShell DEF Inside, On
<1>2. Send(<<Call("route", p)>>)
  BY DEF push
<1>3. /\ AreCalls(calls')
      /\ \A o, a : Flying(o, a, calls') <=> Flying(o, a, calls) \/ (o = "route" /\ a = p)
      /\ \A ops : InFlight(ops) => InFlight(ops)'
  BY <1>1, <1>2, SendOne
<1>4. Latest("route", calls')
  BY <1>1, <1>2, SendLatest
<1>5. Shape'
  <2>1. /\ \A a : Flying("route", a, calls') => a \in Routes
        /\ \A a : Flying("unread", a, calls') => a.what \in BOOLEAN
    BY <1>1, <1>3 DEF ShellInv, Shape
  <2>2. world'.source \in {"both", "artifact"}
    BY AtShell DEF Inside
  <2> QED
    BY <1>1, <1>3, <2>1, <2>2 DEF Shape, Inside
<1>6. InSession'
  <2>1. ~world.shared => world.token # None
                         /\ \A o, a : Flying(o, a, calls) /\ o \in ApiOps \ {"login"} =>
                                      a.token = world.token
    BY <1>1 DEF ShellInv, InSession
  <2>2. "route" \notin ApiOps
    BY DEF ApiOps
  <2> QED
    BY <1>1, <1>3, <2>1, <2>2 DEF InSession
<1>7. Tabbed'
  BY <1>4 DEF Tabbed
<1>8. OwnProfile'
  BY <1>3 DEF ShellInv, OwnProfile, Inside
<1>9. Counted'
  BY <1>3 DEF ShellInv, Counted, Inside
<1> QED
  BY <1>5, <1>6, <1>7, <1>8, <1>9 DEF ShellInv, Inside

LEMMA ClickSteps ==
  ASSUME ShellInv, On("Shell"), ShellConstants,
         OpenDrawer \/ handleMarkAllRead \/ OpenProfile \/ handleSendCode \/ handleSavePassword
         \/ handleLogout \/ handleSaveProfile \/ NotifyTick
  PROVE  ShellInv'
<1> USE AtShell DEF LayoutFields, WorldFields
<1>0. page' = page /\ On("Shell")' /\ ~On("Login")' /\ InApp'
  BY DEF OpenDrawer, handleMarkAllRead, OpenProfile, handleSendCode, handleSavePassword,
     handleLogout, handleSaveProfile, NotifyTick, User, On, InApp
<1>1. CASE OpenDrawer
  <2>1. world' = world /\ Send(<<Api("notes", None)>>)
        /\ view' = [view EXCEPT !.drawer = TRUE, !.menu = None]
    BY <1>1 DEF OpenDrawer, User
  <2>2. Inside
    BY <1>0, <2>1 DEF Inside, TypeOK, BusyEnds
  <2> QED
    BY <2>1, <2>2, SendsOne DEF ApiOps
<1>2. CASE handleMarkAllRead
  <2>1. world' = world /\ Send(<<Api("markRead", None)>>) /\ view' = view
    BY <1>2 DEF handleMarkAllRead, User
  <2>2. Inside
    BY <1>0, <2>1 DEF Inside, TypeOK, BusyEnds
  <2> QED
    BY <2>1, <2>2, SendsOne DEF ApiOps
<1>3. CASE OpenProfile
  <2>1. world' = world /\ Send(<<Api("profile", None)>>)
        /\ view' = [view EXCEPT !.account = TRUE, !.menu = None]
    BY <1>3 DEF OpenProfile, User
  <2>2. Inside
    BY <1>0, <2>1 DEF Inside, TypeOK, BusyEnds
  <2> QED
    BY <2>1, <2>2, SendsOne DEF ApiOps
<1>4. CASE handleSendCode \/ handleSavePassword
  <2>1. PICK op \in {"sendCode", "password"} :
          world' = world /\ Send(<<Api(op, None)>>) /\ view' = view
    BY <1>4 DEF handleSendCode, handleSavePassword, User
  <2>2. Inside
    BY <1>0, <2>1 DEF Inside, TypeOK, BusyEnds
  <2> QED
    BY <2>1, <2>2, SendsOne DEF ApiOps
<1>5. CASE handleLogout
  <2>1. world' = world /\ Send(<<Api("logout", None)>>)
        /\ view' = [view EXCEPT !.menu = None]
    BY <1>5 DEF handleLogout, User
  <2>2. Inside
    BY <1>0, <2>1 DEF Inside, TypeOK, BusyEnds
  <2> QED
    BY <2>1, <2>2, SendsOne DEF ApiOps
<1>6. CASE handleSaveProfile
  <2>1. world' = world /\ Send(<<Api("saveProfile", view.profile)>>) /\ view.account
        /\ view' = [view EXCEPT !.calm = @ /\ ~InFlight({"profile"})]
    BY <1>6 DEF handleSaveProfile, User
  <2>4. PICK b \in BOOLEAN : b = (view.calm /\ ~InFlight({"profile"}))
    OBVIOUS
  <2>5. view' = [view EXCEPT !.calm = b]
    BY <2>1, <2>4
  <2>6. /\ view'.calm = b
        /\ DOMAIN view' = LayoutFields /\ view'.route = view.route /\ view'.tabs = view.tabs
        /\ view'.moved = view.moved /\ view'.menu = view.menu /\ view'.source = view.source
        /\ view'.unread = view.unread /\ view'.drawer = view.drawer
        /\ view'.profile = view.profile /\ view'.account = view.account
        /\ view'.password = view.password /\ view'.sending = view.sending
        /\ view'.countdowns = view.countdowns
    BY <2>5
  <2>2. Inside /\ (view'.calm => view.calm /\ ~InFlight({"profile"}))
    BY <1>0, <2>1, <2>4, <2>6, StillInside
  <2>3. view'.calm => view.profile = "own"
    BY <2>1, <2>2 DEF ShellInv, OwnProfile
  <2> QED
    BY <2>1, <2>2, <2>3, <2>5, SendsOne DEF ApiOps
<1>7. CASE NotifyTick
  <2>1. world' = [world EXCEPT !.news = FALSE] /\ Send(<<Api("unread", world.unread)>>)
        /\ view' = view /\ ~InFlight({"unread"})
    BY <1>7 DEF NotifyTick
  <2>2. Inside
    BY <1>0, <2>1 DEF Inside, TypeOK, BusyEnds
  <2> QED
    BY <2>1, <2>2, SendsOne DEF ApiOps
<1> QED
  BY <1>1, <1>2, <1>3, <1>4, <1>5, <1>6, <1>7

LEMMA PlainSteps ==
  ASSUME ShellInv, On("Shell"), ShellConstants,
         OpenPassword \/ CloseDialog \/ CountdownEnds \/ NewMessage \/ OtherTab
         \/ \E p \in Routes : handleTabContextMenu(p)
  PROVE  ShellInv'
<1> USE AtShell DEF LayoutFields, WorldFields
<1>0. page' = page /\ calls' = calls /\ On("Shell")' /\ ~On("Login")' /\ InApp'
  BY DEF OpenPassword, CloseDialog, CountdownEnds, NewMessage, OtherTab, handleTabContextMenu,
     User, Answer, On, InApp
<1>1. CASE OpenPassword \/ CloseDialog
  <2>1. /\ world' = world
        /\ \/ view' = [view EXCEPT !.password = TRUE, !.menu = None]
           \/ view' = [view EXCEPT !.account = FALSE, !.password = FALSE, !.drawer = FALSE]
    BY <1>1 DEF OpenPassword, CloseDialog, User
  <2>2. /\ DOMAIN view' = LayoutFields /\ view'.route = view.route /\ view'.tabs = view.tabs
        /\ view'.moved = view.moved /\ view'.source = view.source
        /\ view'.unread = view.unread /\ view'.profile = view.profile
        /\ view'.sending = view.sending /\ view'.countdowns = view.countdowns
        /\ view'.calm = view.calm
        /\ view'.menu \in {view.menu, None} /\ view'.account \in {view.account, FALSE}
        /\ view'.password \in BOOLEAN /\ view'.drawer \in BOOLEAN
    <3>1. CASE view' = [view EXCEPT !.password = TRUE, !.menu = None]
      BY <3>1
    <3>2. CASE view' = [view EXCEPT !.account = FALSE, !.password = FALSE, !.drawer = FALSE]
      BY <3>2
    <3> QED
      BY <2>1, <3>1, <3>2
  <2>3. Inside
    BY <1>0, <2>1, <2>2, StillInside
  <2> QED
    BY <1>0, <2>1, <2>2, <2>3, SendsNothing
<1>2. CASE CountdownEnds
  <2>1. /\ world' = world /\ view.countdowns > 0
        /\ view' = [view EXCEPT !.sending = FALSE, !.countdowns = @ - 1]
    BY <1>2 DEF CountdownEnds, Answer
  <2>2. PICK n \in 0 .. MaxCountdowns : n = view.countdowns - 1
    BY <2>1 DEF ShellConstants
  <2>4. view' = [view EXCEPT !.sending = FALSE, !.countdowns = n]
    BY <2>1, <2>2
  <2>5. /\ DOMAIN view' = LayoutFields /\ view'.route = view.route /\ view'.tabs = view.tabs
        /\ view'.moved = view.moved /\ view'.menu = view.menu /\ view'.source = view.source
        /\ view'.unread = view.unread /\ view'.drawer = view.drawer
        /\ view'.profile = view.profile /\ view'.account = view.account
        /\ view'.password = view.password /\ view'.calm = view.calm
        /\ view'.sending = FALSE /\ view'.countdowns = n
    BY <2>4
  <2>3. Inside
    BY <1>0, <2>1, <2>2, <2>5, StillInside
  <2> QED
    BY <1>0, <2>1, <2>3, <2>5, SendsNothing
<1>3. CASE NewMessage
  <2>1. world' = [world EXCEPT !.unread = TRUE, !.news = TRUE] /\ view' = view
    BY <1>3 DEF NewMessage
  <2>2. Inside
    BY <1>0, <2>1 DEF Inside, TypeOK, BusyEnds
  <2> QED
    BY <1>0, <2>1, <2>2, SendsNothing
<1>4. CASE OtherTab
  <2>1. PICK token \in Sessions, issued \in 0 .. MaxSessions :
          /\ view' = view
          /\ world' = [world EXCEPT !.token = token, !.issued = issued, !.shared = TRUE]
    <3>1. CASE world' = [world EXCEPT !.token = None, !.shared = TRUE]
      <4>1. world' = [world EXCEPT !.token = None, !.issued = world.issued, !.shared = TRUE]
        BY <3>1
      <4> QED
        BY <1>4, <4>1 DEF OtherTab, Sessions
    <3>2. CASE /\ world.issued < MaxSessions
               /\ world' = [world EXCEPT !.token = world.issued + 1,
                                         !.issued = @ + 1, !.shared = TRUE]
      <4>1. world.issued + 1 \in Sessions /\ world.issued + 1 \in 0 .. MaxSessions
        BY <3>2 DEF Sessions, ShellConstants
      <4> QED
        BY <1>4, <3>2, <4>1 DEF OtherTab
    <3> QED
      BY <1>4, <3>1, <3>2 DEF OtherTab
  <2>2. /\ DOMAIN world' = WorldFields /\ world'.source = world.source
        /\ world'.shared = TRUE /\ world'.unread = world.unread /\ world'.news = world.news
        /\ world'.token \in Sessions /\ world'.issued \in 0 .. MaxSessions
    BY <2>1
  <2>3. Inside
    BY <1>0, <2>1, <2>2 DEF Inside, TypeOK, BusyEnds
  <2> QED
    BY <1>0, <2>1, <2>2, <2>3, SendsNothing
<1>5. ASSUME NEW p \in Routes, handleTabContextMenu(p) PROVE ShellInv'
  <2>1. world' = world /\ view' = [view EXCEPT !.menu = p]
    BY <1>5 DEF handleTabContextMenu, User
  <2>2. Inside
    BY <1>0, <2>1 DEF Inside, TypeOK, BusyEnds
  <2> QED
    BY <1>0, <2>1, <2>2, SendsNothing
<1> QED
  BY <1>1, <1>2, <1>3, <1>4, <1>5

LEMMA AnswerSteps ==
  ASSUME ShellInv, On("Shell"), ShellConstants, NEW i \in DOMAIN calls, NEW ok \in BOOLEAN,
         UnreadArrives(i, ok) \/ loadNotifications(i) \/ MarkedRead(i, ok)
         \/ SettingsArrive(i, ok) \/ loadProfile(i, ok) \/ ProfileSaved(i, ok)
         \/ CodeSent(i, ok) \/ ChunkFails(i)
  PROVE  ShellInv'
<1> USE AtShell DEF LayoutFields, WorldFields
<1>0. /\ page' = page /\ Reply(i, <<>>) /\ On("Shell")' /\ ~On("Login")' /\ InApp'
  BY DEF UnreadArrives, loadNotifications, MarkedRead, SettingsArrive, loadProfile,
     ProfileSaved, CodeSent, ChunkFails, Answer, On, InApp
<1>1. CASE UnreadArrives(i, ok)
  <2>1. PICK served \in {calls[i].arg.what, world.unread} :
          /\ view' = [view EXCEPT !.unread = IF ok THEN served ELSE @, !.calm = @ /\ ok]
          /\ world' = world /\ calls[i].op = "unread"
    BY <1>1 DEF UnreadArrives, Answer, Indices
  <2>2. view.calm /\ ~world.news => served = world.unread
    <3>1. Flying("unread", calls[i].arg, calls)
      BY <2>1 DEF Flying
    <3> QED
      BY <3>1 DEF ShellInv, Counted
  <2>3. served \in BOOLEAN
    <3>1. Flying("unread", calls[i].arg, calls)
      BY <2>1 DEF Flying
    <3> QED
      BY <3>1 DEF ShellInv, Shape
  <2>4. PICK b \in BOOLEAN : b = (view.calm /\ ok)
    OBVIOUS
  <2>5. PICK u \in BOOLEAN : u = IF ok THEN served ELSE view.unread
    BY <2>3
  <2>6. view' = [view EXCEPT !.unread = u, !.calm = b]
    BY <2>1, <2>4, <2>5
  <2>9. /\ view'.unread = u /\ view'.calm = b
        /\ DOMAIN view' = LayoutFields /\ view'.route = view.route /\ view'.tabs = view.tabs
        /\ view'.moved = view.moved /\ view'.menu = view.menu /\ view'.source = view.source
        /\ view'.drawer = view.drawer /\ view'.profile = view.profile
        /\ view'.account = view.account /\ view'.password = view.password
        /\ view'.sending = view.sending /\ view'.countdowns = view.countdowns
    BY <2>6
  <2>7. Inside
    BY <1>0, <2>1, <2>4, <2>9, StillInside
  <2>8. view'.calm /\ ~world'.news => view'.unread = world'.unread
    BY <2>1, <2>2, <2>4, <2>5, <2>6
  <2> QED
    BY <1>0, <2>1, <2>6, <2>7, <2>8, AnswersOne
<1>2. CASE loadNotifications(i)
  <2>1. calls[i].op = "notes" /\ view' = view /\ world' = world
    BY <1>2 DEF loadNotifications, Answer, Indices
  <2>2. Inside
    BY <1>0, <2>1 DEF Inside, TypeOK, BusyEnds
  <2> QED
    BY <1>0, <2>1, <2>2, AnswersOne
<1>3. CASE MarkedRead(i, ok)
  <2>1. calls[i].op = "markRead"
    BY <1>3 DEF MarkedRead, Indices
  <2>2. CASE ok
    <3>1. PICK b \in BOOLEAN : b = (view.calm /\ ~InFlight({"unread"}))
      OBVIOUS
    <3>2. /\ world' = [world EXCEPT !.unread = FALSE]
          /\ view' = [view EXCEPT !.unread = FALSE, !.calm = b]
      BY <1>3, <2>2, <3>1 DEF MarkedRead
    <3>3. Inside
      BY <1>0, <3>1, <3>2 DEF Inside, TypeOK, BusyEnds
    <3> QED
      BY <1>0, <2>1, <3>1, <3>2, <3>3, AnswersOne
  <2>3. CASE ~ok
    <3>1. world' = world /\ view' = view
      BY <1>3, <2>3 DEF MarkedRead
    <3>2. Inside
      BY <1>0, <3>1 DEF Inside, TypeOK, BusyEnds
    <3> QED
      BY <1>0, <2>1, <3>1, <3>2, AnswersOne
  <2> QED
    BY <2>2, <2>3
<1>4. CASE SettingsArrive(i, ok)
  <2>1. /\ calls[i].op = "settings" /\ world' = world
        /\ view' = view \/ view' = [view EXCEPT !.source = world.source]
    BY <1>4 DEF SettingsArrive, Answer, Indices
  <2>2. Inside
    BY <1>0, <2>1 DEF Inside, TypeOK, BusyEnds
  <2> QED
    BY <1>0, <2>1, <2>2, AnswersOne
<1>5. CASE loadProfile(i, ok)
  <2>1. /\ calls[i].op = "profile" /\ world' = world
        /\ \/ view' = [view EXCEPT !.profile = "own"]
           \/ view' = [view EXCEPT !.calm = FALSE]
    BY <1>5 DEF loadProfile, Answer, Indices
  <2>2. /\ DOMAIN view' = LayoutFields /\ view'.route = view.route /\ view'.tabs = view.tabs
        /\ view'.moved = view.moved /\ view'.menu = view.menu /\ view'.source = view.source
        /\ view'.unread = view.unread /\ view'.drawer = view.drawer
        /\ view'.account = view.account /\ view'.password = view.password
        /\ view'.sending = view.sending /\ view'.countdowns = view.countdowns
        /\ \/ view'.profile = "own" /\ view'.calm = view.calm
           \/ view'.profile = view.profile /\ view'.calm = FALSE
    <3>1. CASE view' = [view EXCEPT !.profile = "own"]
      BY <3>1
    <3>2. CASE view' = [view EXCEPT !.calm = FALSE]
      BY <3>2
    <3> QED
      BY <2>1, <3>1, <3>2
  <2>3. Inside
    BY <1>0, <2>1, <2>2, StillInside
  <2> QED
    BY <1>0, <2>1, <2>2, <2>3, AnswersOne
<1>6. CASE ProfileSaved(i, ok)
  <2>1. PICK b \in BOOLEAN : b = (view.account /\ ~ok)
    OBVIOUS
  <2>2. /\ calls[i].op = "saveProfile" /\ world' = world
        /\ view' = [view EXCEPT !.account = b]
    BY <1>6, <2>1 DEF ProfileSaved, Answer, Indices
  <2>3. Inside
    BY <1>0, <2>2 DEF Inside, TypeOK, BusyEnds
  <2> QED
    BY <1>0, <2>1, <2>2, <2>3, AnswersOne
<1>7. CASE CodeSent(i, ok)
  <2>1. PICK b \in BOOLEAN : b = (view.sending \/ ok)
    OBVIOUS
  <2>2. PICK n \in 0 .. MaxCountdowns : n = IF ok THEN view.countdowns + 1 ELSE view.countdowns
    BY <1>7 DEF CodeSent, ShellConstants
  <2>3. /\ calls[i].op = "sendCode" /\ world' = world
        /\ view' = [view EXCEPT !.sending = b, !.countdowns = n]
    BY <1>7, <2>1, <2>2 DEF CodeSent, Answer, Indices
  <2>4. b => n > 0
    BY <2>1, <2>2 DEF ShellConstants
  <2>5. Inside
    BY <1>0, <2>3, <2>4 DEF Inside, TypeOK, BusyEnds
  <2> QED
    BY <1>0, <2>3, <2>5, AnswersOne
<1>8. CASE ChunkFails(i)
  <2>1. calls[i].op = "route" /\ world' = world /\ view' = [view EXCEPT !.calm = FALSE]
    BY <1>8 DEF ChunkFails, Answer, Indices
  <2>2. Inside
    BY <1>0, <2>1 DEF Inside, TypeOK, BusyEnds
  <2> QED
    BY <1>0, <2>1, <2>2, AnswersOne
<1> QED
  BY <1>1, <1>2, <1>3, <1>4, <1>5, <1>6, <1>7, <1>8

\* The refs r are those of the layout, but for its tabs and their menu.
LikeView(r) ==
  /\ DOMAIN r = LayoutFields /\ r.route = view.route /\ r.moved = view.moved
  /\ r.source = view.source /\ r.unread = view.unread /\ r.drawer = view.drawer
  /\ r.profile = view.profile /\ r.account = view.account /\ r.password = view.password
  /\ r.sending = view.sending /\ r.countdowns = view.countdowns /\ r.calm = view.calm

LEMMA MenuCloses ==
  ASSUME ShellInv, On("Shell"), NEW tabs, NEW menu
  PROVE  /\ LikeView(view)
         /\ LikeView([view EXCEPT !.menu = menu])
         /\ [view EXCEPT !.menu = menu].menu = menu
         /\ [view EXCEPT !.menu = menu].tabs = view.tabs
         /\ LikeView([view EXCEPT !.menu = menu, !.tabs = tabs])
         /\ [view EXCEPT !.menu = menu, !.tabs = tabs].menu = menu
         /\ [view EXCEPT !.menu = menu, !.tabs = tabs].tabs = tabs
  BY AtShell DEF LikeView, LayoutFields

\* A push and what it does to the tabs.
LEMMA PushesTab ==
  ASSUME ShellInv, On("Shell"), page' = page, world' = world,
         NEW p \in Routes, Send(<<push(p)>>), LikeView(view'),
         view'.tabs \in Seq(Routes), IsInjective(view'.tabs), view'.menu \in Routes \cup {None}
  PROVE  ShellInv'
<1>1. On("Shell")' /\ ~On("Login")'
  BY DEF On
<1>2. TypeOK'
  BY <1>1, AtShell DEF TypeOK, LikeView
<1>3. Inside
  BY <1>1, <1>2, AtShell DEF Inside, BusyEnds, LikeView
<1> QED
  BY <1>3, PushesOne DEF LikeView

\* A tab goes that is not the one shown, or the last one.
LEMMA TabLost ==
  ASSUME ShellInv, On("Shell"), page' = page, world' = world, calls' = calls,
         DOMAIN view' = LayoutFields, TypeOK',
         view'.route = view.route, view'.source = view.source,
         view'.unread = view.unread, view'.profile = view.profile, view'.account = view.account,
         view'.sending = view.sending, view'.countdowns = view.countdowns,
         view'.calm = view.calm,
         view'.moved => /\ view.moved
                        /\ view.route \in Range(view.tabs) => view.route \in Range(view'.tabs)
  PROVE  ShellInv'
<1>1. InApp /\ ~On("Login") /\ AreCalls(calls) /\ On("Shell")' /\ ~On("Login")'
  BY AtShell DEF On
<1>2. \A ops : InFlight(ops) <=> InFlight(ops)'
  BY DEF InFlight
<1>3. Shape'
  <2>1. /\ \A a : Flying("route", a, calls') => a \in Routes
        /\ \A a : Flying("unread", a, calls') => a.what \in BOOLEAN
    BY <1>1 DEF ShellInv, Shape
  <2> QED
    BY <1>1, <2>1, AtShell DEF Shape
<1>4. InSession'
  BY <1>1 DEF ShellInv, InSession
<1>5. Tabbed'
  BY <1>1 DEF ShellInv, Tabbed
<1>6. OwnProfile'
  BY <1>1, <1>2 DEF ShellInv, OwnProfile
<1>7. Counted'
  BY <1>1, <1>2 DEF ShellInv, Counted
<1>8. BusyEnds'
  BY <1>1 DEF ShellInv, BusyEnds
<1> QED
  BY <1>3, <1>4, <1>5, <1>6, <1>7, <1>8 DEF ShellInv

\* The cross of a tab, or "close current" of the menu, which is closed first.
LEMMA TabCloses ==
  ASSUME ShellInv, On("Shell"), page' = page, world' = world, NEW p,
         NEW refs, LikeView(refs), refs.tabs = view.tabs, refs.menu \in Routes \cup {None},
         handleTabClose(p, refs)
  PROVE  ShellInv'
<1>0. On("Shell")' /\ ~On("Login")'
  BY DEF On
<1>1. CASE p \notin Range(view.tabs)
  <2>1. view' = refs /\ calls' = calls
    BY <1>1 DEF handleTabClose
  <2>2. TypeOK'
    BY <1>0, <2>1, AtShell DEF TypeOK, LikeView
  <2> QED
    BY <2>1, <2>2, TabLost DEF LikeView
<1>2. CASE p \in Range(view.tabs)
  <2> DEFINE idx == CHOOSE k \in DOMAIN view.tabs : view.tabs[k] = p
             tabs == Without(view.tabs, idx)
             next == IF idx <= Len(tabs) THEN idx ELSE Len(tabs)
  <2>1. idx \in DOMAIN view.tabs /\ view.tabs[idx] = p
    BY <1>2 DEF Range
  <2>2. IF p # view.route THEN view' = [refs EXCEPT !.tabs = tabs] /\ calls' = calls
        ELSE IF tabs = <<>>
        THEN view' = [refs EXCEPT !.tabs = tabs, !.moved = FALSE] /\ calls' = calls
        ELSE view' = [refs EXCEPT !.tabs = tabs] /\ Send(<<push(tabs[next])>>)
    BY <1>2 DEF handleTabClose, LikeView
  <2> HIDE DEF idx, tabs
  <2>3. /\ tabs \in Seq(Routes) /\ IsInjective(tabs)
        /\ \A q \in Range(view.tabs) : q # p => q \in Range(tabs)
    BY <2>1, AtShell, TabsShrink DEF tabs
  <2>4. CASE /\ p = view.route /\ tabs = <<>>
             /\ view' = [refs EXCEPT !.tabs = tabs, !.moved = FALSE] /\ calls' = calls
    <3>1. /\ DOMAIN view' = LayoutFields /\ view'.route = view.route /\ view'.tabs = tabs
          /\ view'.moved = FALSE /\ view'.menu = refs.menu /\ view'.source = view.source
          /\ view'.unread = view.unread /\ view'.drawer = view.drawer
          /\ view'.profile = view.profile /\ view'.account = view.account
          /\ view'.password = view.password /\ view'.sending = view.sending
          /\ view'.countdowns = view.countdowns /\ view'.calm = view.calm
      BY <2>4 DEF LikeView, LayoutFields
    <3>2. TypeOK'
      BY <1>0, <2>3, <3>1, AtShell DEF TypeOK
    <3> QED
      BY <2>4, <3>1, <3>2, TabLost
  <2>5. CASE view' = [refs EXCEPT !.tabs = tabs]
    <3>1. LikeView(view') /\ view'.tabs = tabs /\ view'.menu = refs.menu
      BY <2>5 DEF LikeView, LayoutFields
    <3>2. CASE p # view.route
      <4>1. view.route \in Range(view.tabs) => view.route \in Range(tabs)
        BY <2>3, <3>2
      <4>2. TypeOK'
        BY <1>0, <2>3, <3>1, AtShell DEF TypeOK, LikeView
      <4>3. calls' = calls
        BY <2>2, <3>2
      <4> QED
        BY <3>1, <4>1, <4>2, <4>3, TabLost DEF LikeView
    <3>3. CASE p = view.route /\ tabs # <<>>
      <4>1. Len(tabs) \in Nat \ {0} /\ idx \in Nat \ {0}
        BY <2>1, <2>3, <3>3, AtShell
      <4>2. next \in 1..Len(tabs)
        BY <4>1
      <4>3. tabs[next] \in Routes
        BY <2>3, <4>2
      <4>4. Send(<<push(tabs[next])>>)
        BY <2>2, <3>3
      <4> HIDE DEF next
      <4> QED
        BY <2>3, <3>1, <4>3, <4>4, PushesTab
    <3>4. CASE p = view.route /\ tabs = <<>>
      BY <2>2, <2>4, <3>4
    <3> QED
      BY <3>2, <3>3, <3>4
  <2> QED
    BY <2>2, <2>4, <2>5
<1> QED
  BY <1>1, <1>2

LEMMA TabSteps ==
  ASSUME ShellInv, On("Shell"), ShellConstants,
         handleContextClose \/ handleContextCloseOthers \/ handleContextCloseAll
         \/ \E p \in Routes : Menu(p) \/ handleTabClick(p) \/ CloseIcon(p)
  PROVE  ShellInv'
<1>1. CASE handleContextClose
  <2>1. /\ page' = page /\ world' = world
        /\ handleTabClose(view.menu, [view EXCEPT !.menu = None])
    BY <1>1 DEF handleContextClose, closeContextMenu, User
  <2> QED
    BY <2>1, MenuCloses, TabCloses
<1>2. CASE handleContextCloseOthers
  <2>1. /\ page' = page /\ world' = world /\ Send(<<push(view.menu)>>) /\ view.menu # None
        /\ view' = [view EXCEPT !.menu = None, !.tabs = OnlyTab(view.tabs, view.menu)]
    BY <1>2, AtShell DEF handleContextCloseOthers, closeContextMenu, Pushes, User, LayoutFields
  <2>2. PICK tabs : tabs = OnlyTab(view.tabs, view.menu)
    OBVIOUS
  <2>3. tabs \in Seq(Routes) /\ IsInjective(tabs)
    BY <2>1, <2>2, AtShell, OneTab DEF OnlyTab
  <2>5. view' = [view EXCEPT !.menu = None, !.tabs = tabs]
    BY <2>1, <2>2
  <2>4. LikeView(view') /\ view'.menu = None /\ view'.tabs = tabs
    BY <2>5, AtShell DEF LikeView, LayoutFields
  <2> QED
    BY <2>1, <2>3, <2>4, AtShell, PushesTab
<1>3. CASE handleContextCloseAll
  <2>1. /\ page' = page /\ world' = world /\ Send(<<push(Home)>>) /\ Home \in Routes
        /\ view' = [view EXCEPT !.menu = None, !.tabs = <<Home>>]
    BY <1>3 DEF handleContextCloseAll, closeContextMenu, Pushes, User, ShellConstants
  <2>2. <<Home>> \in Seq(Routes) /\ IsInjective(<<Home>>)
    BY <2>1, OneTab
  <2>3. LikeView(view') /\ view'.menu = None /\ view'.tabs = <<Home>>
    BY <2>1, AtShell DEF LikeView, LayoutFields
  <2> QED
    BY <2>1, <2>2, <2>3, PushesTab
<1>4. ASSUME NEW p \in Routes, Menu(p) \/ handleTabClick(p) PROVE ShellInv'
  <2>1. /\ page' = page /\ world' = world /\ Send(<<push(p)>>)
        /\ view' = [view EXCEPT !.menu = None]
    BY <1>4 DEF Menu, handleTabClick, Pushes, User
  <2>2. LikeView(view') /\ view'.menu = None /\ view'.tabs = view.tabs
    BY <2>1, AtShell DEF LikeView, LayoutFields
  <2> QED
    BY <2>1, <2>2, AtShell, PushesTab
<1>5. ASSUME NEW p \in Routes, CloseIcon(p) PROVE ShellInv'
  <2>1. page' = page /\ world' = world /\ handleTabClose(p, view)
    BY <1>5 DEF CloseIcon, User
  <2> QED
    BY <2>1, AtShell, MenuCloses, TabCloses
<1> QED
  BY <1>1, <1>2, <1>3, <1>4, <1>5

-----------------------------------------------------------------------------
(* Leaving and entering the layout *)

\* The login page, loaded anew or kept, with nothing of a layout in flight.
LEMMA LoginPage ==
  ASSUME page' = "Login", AreCalls(calls'), DOMAIN world' = WorldFields,
         DOMAIN view' = {"redirect", "loading"}, view'.redirect \in Routes,
         view'.loading \in BOOLEAN, view'.loading => InFlight({"login"})',
         world'.token \in Sessions, world'.issued \in 0 .. MaxSessions,
         world'.source \in {"both", "artifact"}, world'.shared \in BOOLEAN,
         world'.unread \in BOOLEAN, world'.news \in BOOLEAN,
         \A a : Flying("route", a, calls') => a \in Routes,
         \A o, a : Flying(o, a, calls') => o \in LoginOps,
         ~world'.shared => \A o, a : Flying(o, a, calls') => o \in {"login", "route"}
  PROVE  ShellInv'
<1>1. On("Login")' /\ ~On("Shell")' /\ InApp'
  BY DEF On, InApp
<1>2. Shape'
  BY <1>1 DEF Shape, LoginOps
<1>3. TypeOK'
  BY <1>1 DEF TypeOK
<1>4. InSession'
  BY <1>1 DEF InSession, ApiOps
<1>5. Tabbed' /\ OwnProfile' /\ Counted' /\ BusyEnds'
  BY <1>1 DEF Tabbed, OwnProfile, Counted, BusyEnds
<1> QED
  BY <1>2, <1>3, <1>4, <1>5 DEF ShellInv

LEMMA ReloadStep ==
  ASSUME ShellInv, InApp, Reload, ShellConstants
  PROVE  ShellInv'
<1>1. /\ DOMAIN world = WorldFields /\ world.issued \in 0 .. MaxSessions
      /\ world.source \in {"both", "artifact"} /\ world.shared \in BOOLEAN
      /\ world.unread \in BOOLEAN /\ world.news \in BOOLEAN
  BY DEF ShellInv, Shape, TypeOK
<1>2. /\ page' = "Login" /\ view' = LoginRefs(Home) /\ calls' = <<>>
      /\ world' = [world EXCEPT !.token = None]
  BY DEF Reload
<1>3. /\ DOMAIN world' = WorldFields /\ world'.token = None /\ world'.issued = world.issued
      /\ world'.source = world.source /\ world'.shared = world.shared
      /\ world'.unread = world.unread /\ world'.news = world.news
  BY <1>1, <1>2 DEF WorldFields
<1>4. /\ DOMAIN view' = {"redirect", "loading"} /\ view'.redirect = Home
      /\ view'.loading = FALSE
  BY <1>2 DEF LoginRefs
<1> QED
  BY <1>1, <1>2, <1>3, <1>4, NoCall, LoginPage DEF ShellConstants, Sessions

\* What a call of the layout becomes when its page is gone.
LEMMA Orphaned ==
  ASSUME NEW c, IsCall(c)
  PROVE  IsCall(Orphan(c)) /\ Orphan(c).op \in {"orphan", "overtaken"}
<1>1. CASE c.op \in {"route", "overtaken"}
  <2>1. Orphan(c) = [c EXCEPT !.op = "overtaken"]
    BY <1>1 DEF Orphan
  <2> QED
    BY <2>1 DEF IsCall
<1>2. CASE c.op \notin {"route", "overtaken"}
  <2> DEFINE heard == c.op \in {"logout", "password"} \/ (c.op = "orphan" /\ c.arg.what)
             arg == [c.arg EXCEPT !.what = heard]
  <2>1. Orphan(c) = [c EXCEPT !.op = "orphan", !.arg = arg]
    BY <1>2 DEF Orphan, IsCall
  <2> HIDE DEF arg
  <2>2. Orphan(c) = [op |-> "orphan", arg |-> arg, last |-> c.last]
    BY <2>1 DEF IsCall
  <2> QED
    BY <2>2 DEF IsCall
<1> QED
  BY <1>1, <1>2

\* The guard turns a navigation back: another tab ended the session.
LEMMA TurnedAway ==
  ASSUME ShellInv, On("Shell"), NEW i \in DOMAIN calls, calls[i].op = "route",
         world.token = None, ToLogin(calls[i].arg, Without(calls, i)), world' = world
  PROVE  ShellInv'
<1> DEFINE rest == Without(calls, i)
<1>1. AreCalls(calls) /\ AreCalls(rest)
  BY AtShell, Answered
<1>2. /\ page' = "Login" /\ view' = LoginRefs(calls[i].arg)
      /\ calls' = [k \in DOMAIN rest |-> Orphan(rest[k])]
  BY DEF ToLogin
<1> HIDE DEF rest
<1>3. PICK S : (\A c \in S : IsCall(c)) /\ rest \in Seq(S)
  BY <1>1 DEF AreCalls
<1> DEFINE T == {Orphan(c) : c \in S}
<1>4. \A c \in T : IsCall(c) /\ c.op \in {"orphan", "overtaken"}
  BY <1>3, Orphaned
<1>5. calls' \in Seq(T)
  <2>1. \A k \in DOMAIN rest : rest[k] \in S
    BY <1>3
  <2>2. Len(rest) \in Nat /\ calls' \in [1..Len(rest) -> T]
    BY <1>2, <1>3, <2>1
  <2> HIDE DEF T
  <2> QED
    BY <2>2
<1> HIDE DEF T
<1>6. AreCalls(calls')
  BY <1>4, <1>5 DEF AreCalls
<1>7. \A o, a : Flying(o, a, calls') => o \in {"orphan", "overtaken"}
  BY <1>4, <1>5 DEF Flying
<1>8. calls[i].arg \in Routes
  <2>1. Flying("route", calls[i].arg, calls)
    BY DEF Flying
  <2> QED
    BY <2>1, AtShell DEF ShellInv, Shape
<1>9. /\ DOMAIN view' = {"redirect", "loading"} /\ view'.redirect = calls[i].arg
      /\ view'.loading = FALSE
  BY <1>2 DEF LoginRefs
<1>10. world.shared
  BY AtShell
<1> QED
  BY <1>2, <1>6, <1>7, <1>8, <1>9, <1>10, AtShell, LoginPage DEF LoginOps

\* A navigation settles: the route it asked for has its tab.
LEMMA Settled ==
  ASSUME ShellInv, On("Shell"), NEW i \in DOMAIN calls, calls[i].op = "route",
         page' = page, world' = world, Reply(i, <<>>),
         view' = [view EXCEPT !.route = IF calls[i].last THEN calls[i].arg ELSE @,
                              !.moved = @ \/ calls[i].last,
                              !.tabs = WithTab(@, calls[i].arg)]
  PROVE  ShellInv'
<1>1. InApp /\ ~On("Login") /\ AreCalls(calls) /\ On("Shell")' /\ ~On("Login")'
  BY AtShell DEF On
<1>2. PICK p : p = calls[i].arg
  OBVIOUS
<1>3. p \in Routes
  <2>1. Flying("route", p, calls)
    BY <1>2 DEF Flying
  <2> QED
    BY <1>1, <2>1 DEF ShellInv, Shape
<1>4. PICK tabs : tabs = WithTab(view.tabs, p)
  OBVIOUS
<1>5. tabs \in Seq(Routes) /\ IsInjective(tabs) /\ Range(tabs) = Range(view.tabs) \cup {p}
  BY <1>3, <1>4, AtShell, TabsGrow
<1>6. PICK route : route = IF calls[i].last THEN p ELSE view.route
  OBVIOUS
<1>7. PICK moved \in BOOLEAN : moved = (view.moved \/ calls[i].last)
  OBVIOUS
<1>8. view' = [view EXCEPT !.route = route, !.moved = moved, !.tabs = tabs]
  BY <1>2, <1>4, <1>6, <1>7
<1>9. /\ view'.route = route /\ view'.moved = moved /\ view'.tabs = tabs
      /\ DOMAIN view' = LayoutFields /\ view'.menu = view.menu
      /\ view'.source = view.source /\ view'.unread = view.unread
      /\ view'.drawer = view.drawer /\ view'.profile = view.profile
      /\ view'.account = view.account /\ view'.password = view.password
      /\ view'.sending = view.sending /\ view'.countdowns = view.countdowns
      /\ view'.calm = view.calm
  BY <1>8, AtShell DEF LayoutFields
<1>10. route \in Routes
  BY <1>3, <1>6, AtShell
<1>11. TypeOK'
  BY <1>1, <1>5, <1>9, <1>10, AtShell DEF TypeOK
<1>12. /\ AreCalls(calls')
       /\ \A o, a : Flying(o, a, calls') => Flying(o, a, calls)
       /\ \A ops : InFlight(ops) /\ calls[i].op \notin ops => InFlight(ops)'
  BY <1>1, ReplyNone
<1>13. ~calls[i].last /\ Latest("route", calls) => Latest("route", calls')
  BY <1>1, ReplyLatest
<1>14. Shape'
  <2>1. /\ \A a : Flying("route", a, calls') => a \in Routes
        /\ \A a : Flying("unread", a, calls') => a.what \in BOOLEAN
    BY <1>1, <1>12 DEF ShellInv, Shape
  <2> QED
    BY <1>1, <1>9, <1>12, <2>1, AtShell DEF Shape
<1>15. InSession'
  <2>1. ~world.shared => world.token # None
                         /\ \A o, a : Flying(o, a, calls) /\ o \in ApiOps \ {"login"} =>
                                      a.token = world.token
    BY <1>1 DEF ShellInv, InSession
  <2> QED
    BY <1>1, <1>12, <2>1 DEF InSession
<1>16. Tabbed'
  <2> SUFFICES ASSUME view'.calm, view'.moved
               PROVE  view'.route \in Range(view'.tabs) \/ Latest("route", calls')
    BY DEF Tabbed
  <2>1. CASE calls[i].last
    BY <1>5, <1>6, <1>9, <2>1
  <2>2. CASE ~calls[i].last
    <3>1. view.calm /\ view.moved /\ route = view.route
      BY <1>6, <1>7, <1>9, <2>2
    <3>2. view.route \in Range(view.tabs) \/ Latest("route", calls)
      BY <3>1 DEF ShellInv, Tabbed
    <3> QED
      BY <1>5, <1>9, <1>13, <2>2, <3>1, <3>2
  <2> QED
    BY <2>1, <2>2
<1>17. OwnProfile'
  BY <1>1, <1>9, <1>12 DEF ShellInv, OwnProfile
<1>18. Counted'
  BY <1>1, <1>9, <1>12 DEF ShellInv, Counted
<1>19. BusyEnds'
  BY <1>1, <1>9, AtShell DEF BusyEnds
<1> QED
  BY <1>11, <1>14, <1>15, <1>16, <1>17, <1>18, <1>19 DEF ShellInv

\* The answers that end the session, and those that nobody waits for.
LEMMA SessionSteps ==
  ASSUME ShellInv, On("Shell"), ShellConstants, NEW i \in DOMAIN calls,
         RouteSettles(i) \/ Unauthorized(i) \/ LoggedOut(i) \/ Unheard(i)
         \/ \E ok \in BOOLEAN : PasswordChanged(i, ok)
  PROVE  ShellInv'
<1> USE AtShell
<1>1. CASE Reload
  BY <1>1, ReloadStep
<1>2. ASSUME calls[i].op \in {"password", "orphan", "overtaken"}, Reply(i, <<>>),
             page' = page, view' = view, world' = world
      PROVE  ShellInv'
  <2>1. On("Shell")' /\ ~On("Login")'
    BY <1>2 DEF On
  <2>2. Inside
    BY <1>2, <2>1 DEF Inside, TypeOK, BusyEnds
  <2> QED
    BY <1>2, <2>2, AnswersOne
<1>3. CASE RouteSettles(i)
  <2>1. calls[i].op = "route" /\ world' = world
    BY <1>3 DEF RouteSettles, Indices
  <2>2. CASE calls[i].last /\ world.token = None
    BY <1>3, <2>1, <2>2, TurnedAway DEF RouteSettles
  <2>3. CASE ~(calls[i].last /\ world.token = None)
    BY <1>3, <2>1, <2>3, Settled DEF RouteSettles
  <2> QED
    BY <2>2, <2>3
<1>4. CASE Unauthorized(i)
  BY <1>1, <1>4 DEF Unauthorized
<1>5. CASE LoggedOut(i)
  BY <1>1, <1>5 DEF LoggedOut
<1>6. CASE Unheard(i)
  BY <1>1, <1>2, <1>6 DEF Unheard, Answer, Indices
<1>7. ASSUME NEW ok \in BOOLEAN, PasswordChanged(i, ok) PROVE ShellInv'
  BY <1>1, <1>2, <1>7 DEF PasswordChanged, Answer, Indices
<1> QED
  BY <1>3, <1>4, <1>5, <1>6, <1>7

LEMMA AtLogin ==
  ASSUME ShellInv, On("Login")
  PROVE  /\ InApp /\ ~On("Shell") /\ AreCalls(calls)
         /\ DOMAIN world = WorldFields /\ DOMAIN view = {"redirect", "loading"}
         /\ world.token \in Sessions /\ world.issued \in 0 .. MaxSessions
         /\ world.shared \in BOOLEAN /\ world.unread \in BOOLEAN /\ world.news \in BOOLEAN
         /\ world.source \in {"both", "artifact"}
         /\ view.redirect \in Routes /\ view.loading \in BOOLEAN
         /\ view.loading => InFlight({"login"})
         /\ \A a : Flying("route", a, calls) => a \in Routes
         /\ \A o, a : Flying(o, a, calls) => o \in LoginOps
         /\ ~world.shared => \A o, a : Flying(o, a, calls) => o \in {"login", "route"}
  BY DEF ShellInv, Shape, TypeOK, BusyEnds, InSession, InApp, On

\* Whatever is answered on the login page but a navigation, and the login sent.
LEMMA LoginSteps ==
  ASSUME ShellInv, On("Login"), ShellConstants, NEW i \in DOMAIN calls,
         Unauthorized(i) \/ ChunkFails(i) \/ Unheard(i)
         \/ \E ok \in BOOLEAN : LoggedIn(i, ok)
  PROVE  ShellInv'
<1> USE AtLogin DEF WorldFields
<1>1. CASE Reload
  BY <1>1, ReloadStep
<1>2. ASSUME page' = page, view' = view, Reply(i, <<>>), world' = world,
             calls[i].op \in {"route", "orphan", "overtaken"}
      PROVE  ShellInv'
  <2>1. /\ AreCalls(calls')
        /\ \A o, a : Flying(o, a, calls') => Flying(o, a, calls)
        /\ \A ops : InFlight(ops) /\ calls[i].op \notin ops => InFlight(ops)'
    BY <1>2, ReplyNone
  <2>2. page' = "Login"
    BY <1>2 DEF On
  <2> QED
    BY <1>2, <2>1, <2>2, LoginPage
<1>3. CASE Unauthorized(i)
  <2>1. PICK b \in BOOLEAN : b = (view.loading /\ calls[i].op # "login")
    OBVIOUS
  <2>2. /\ view' = [view EXCEPT !.loading = b] /\ world' = [world EXCEPT !.token = None]
        /\ Reply(i, <<>>) /\ page' = "Login"
    BY <1>3, <2>1 DEF Unauthorized, On
  <2>3. /\ AreCalls(calls')
        /\ \A o, a : Flying(o, a, calls') => Flying(o, a, calls)
        /\ \A ops : InFlight(ops) /\ calls[i].op \notin ops => InFlight(ops)'
    BY <2>2, ReplyNone
  <2>4. b => InFlight({"login"})'
    BY <2>1, <2>3
  <2>5. /\ DOMAIN view' = {"redirect", "loading"} /\ view'.redirect = view.redirect
        /\ view'.loading = b
    BY <2>2
  <2>6. /\ DOMAIN world' = WorldFields /\ world'.token = None
        /\ world'.issued = world.issued /\ world'.source = world.source
        /\ world'.shared = world.shared /\ world'.unread = world.unread
        /\ world'.news = world.news
    BY <2>2
  <2> QED
    BY <2>2, <2>3, <2>4, <2>5, <2>6, LoginPage DEF Sessions
<1>4. CASE ChunkFails(i)
  BY <1>2, <1>4 DEF ChunkFails, Answer, Indices
<1>5. CASE Unheard(i)
  BY <1>1, <1>2, <1>5 DEF Unheard, Answer, Indices
<1>6. ASSUME NEW ok \in BOOLEAN, LoggedIn(i, ok) PROVE ShellInv'
  <2>1. view' = [view EXCEPT !.loading = FALSE] /\ page' = "Login"
    BY <1>6 DEF LoggedIn, On
  <2>2. /\ DOMAIN view' = {"redirect", "loading"} /\ view'.redirect = view.redirect
        /\ view'.loading = FALSE
    BY <2>1
  <2>3. CASE Reply(i, <<push(view.redirect)>>) /\ world.issued < MaxSessions
             /\ world' = [world EXCEPT !.token = world.issued + 1, !.issued = @ + 1]
    <3>1. PICK n \in 1 .. MaxSessions : n = world.issued + 1
      BY <2>3 DEF ShellConstants
    <3>2. world' = [world EXCEPT !.token = n, !.issued = n]
      BY <2>3, <3>1
    <3>3. /\ DOMAIN world' = WorldFields /\ world'.token = n
          /\ world'.issued = n /\ world'.source = world.source
          /\ world'.shared = world.shared /\ world'.unread = world.unread
          /\ world'.news = world.news
      BY <3>2
    <3>4. /\ AreCalls(calls')
          /\ \A o, a : Flying(o, a, calls') =>
               Flying(o, a, calls) \/ (o = "route" /\ a = view.redirect)
      <4>1. Reply(i, <<Call("route", view.redirect)>>)
        BY <2>3 DEF push
      <4> QED
        BY <4>1, ReplyOne
    <3>5. n \in Sessions /\ n \in 0 .. MaxSessions
      BY DEF Sessions
    <3> HIDE AtLogin
    <3>6. /\ \A a : Flying("route", a, calls') => a \in Routes
          /\ \A o, a : Flying(o, a, calls') => o \in LoginOps
          /\ ~world.shared => \A o, a : Flying(o, a, calls') => o \in {"login", "route"}
      BY <3>4, AtLogin DEF LoginOps
    <3> QED
      BY <2>1, <2>2, <3>3, <3>4, <3>5, <3>6, AtLogin, LoginPage
  <2>4. CASE Reply(i, <<>>) /\ world' = world
    <3>1. /\ AreCalls(calls')
          /\ \A o, a : Flying(o, a, calls') => Flying(o, a, calls)
      BY <2>4, ReplyNone
    <3> QED
      BY <2>1, <2>2, <2>4, <3>1, LoginPage
  <2> QED
    BY <1>6, <2>3, <2>4 DEF LoggedIn
<1> QED
  BY <1>3, <1>4, <1>5, <1>6

\* The form is sent, and another tab logs out or in.
LEMMA LoginWaits ==
  ASSUME ShellInv, On("Login"), ShellConstants, handleLogin \/ OtherTab
  PROVE  ShellInv'
<1> USE AtLogin DEF WorldFields
<1>1. CASE handleLogin
  <2>1. /\ view' = [view EXCEPT !.loading = TRUE] /\ world' = world /\ page' = "Login"
        /\ Send(<<Api("login", None)>>)
    BY <1>1 DEF handleLogin, User, On
  <2>2. /\ DOMAIN view' = {"redirect", "loading"} /\ view'.redirect = view.redirect
        /\ view'.loading = TRUE
    BY <2>1
  <2> DEFINE arg == [token |-> world.token, what |-> None]
  <2>3. Send(<<Call("login", arg)>>)
    BY <2>1 DEF Api
  <2> HIDE DEF arg
  <2>4. /\ AreCalls(calls')
        /\ \A o, a : Flying(o, a, calls') <=> Flying(o, a, calls) \/ (o = "login" /\ a = arg)
        /\ \A ops : InFlight(ops) \/ "login" \in ops => InFlight(ops)'
    BY <2>3, SendOne
  <2>5. /\ \A a : Flying("route", a, calls') => a \in Routes
        /\ \A o, a : Flying(o, a, calls') => o \in LoginOps
        /\ ~world.shared => \A o, a : Flying(o, a, calls') => o \in {"login", "route"}
    BY <2>4 DEF LoginOps
  <2> QED
    BY <2>1, <2>2, <2>4, <2>5, LoginPage
<1>2. CASE OtherTab
  <2>1. PICK token \in Sessions, issued \in 0 .. MaxSessions :
          /\ view' = view /\ calls' = calls /\ page' = "Login"
          /\ world' = [world EXCEPT !.token = token, !.issued = issued, !.shared = TRUE]
    <3>1. CASE world' = [world EXCEPT !.token = None, !.shared = TRUE]
      <4>1. world' = [world EXCEPT !.token = None, !.issued = world.issued, !.shared = TRUE]
        BY <3>1
      <4> QED
        BY <1>2, <4>1 DEF OtherTab, Sessions, On
    <3>2. CASE /\ world.issued < MaxSessions
               /\ world' = [world EXCEPT !.token = world.issued + 1,
                                         !.issued = @ + 1, !.shared = TRUE]
      <4>1. world.issued + 1 \in Sessions /\ world.issued + 1 \in 0 .. MaxSessions
        BY <3>2 DEF Sessions, ShellConstants
      <4> QED
        BY <1>2, <3>2, <4>1 DEF OtherTab, On
    <3> QED
      BY <1>2, <3>1, <3>2 DEF OtherTab
  <2>2. /\ DOMAIN world' = WorldFields /\ world'.source = world.source
        /\ world'.shared = TRUE /\ world'.unread = world.unread /\ world'.news = world.news
        /\ world'.token \in Sessions /\ world'.issued \in 0 .. MaxSessions
    BY <2>1
  <2>3. InFlight({"login"}) <=> InFlight({"login"})'
    BY <2>1 DEF InFlight
  <2> QED
    BY <2>1, <2>2, <2>3, LoginPage
<1> QED
  BY <1>1, <1>2

\* The layout as its setup leaves it, whatever the calls beside it.
LEMMA LayoutMounted ==
  ASSUME ShellConstants, NEW r \in Routes, page' = "Shell", view' = Layout(r),
         DOMAIN world' = WorldFields, world'.token \in Sessions,
         world'.issued \in 0 .. MaxSessions, world'.source \in {"both", "artifact"},
         world'.shared \in BOOLEAN, world'.unread \in BOOLEAN, world'.news \in BOOLEAN,
         ~world'.shared => world'.token # None,
         AreCalls(calls'), InFlight({"unread"})',
         \A a : Flying("route", a, calls') => a \in Routes,
         \A a : Flying("unread", a, calls') => a.what = world'.unread,
         \A a : ~Flying("saveProfile", a, calls'),
         ~world'.shared => \A o, a : Flying(o, a, calls') /\ o \in ApiOps \ {"login"} =>
                                     a.token = world'.token
  PROVE  ShellInv'
<1>1. On("Shell")' /\ ~On("Login")' /\ InApp'
  BY DEF On, InApp
<1>2. /\ DOMAIN view' = LayoutFields /\ view'.route = r /\ view'.tabs = <<Home>>
      /\ view'.moved = FALSE /\ view'.menu = None /\ view'.source = "both"
      /\ view'.unread = FALSE /\ view'.drawer = FALSE /\ view'.profile = "placeholder"
      /\ view'.account = FALSE /\ view'.password = FALSE /\ view'.sending = FALSE
      /\ view'.countdowns = 0 /\ view'.calm = TRUE
  BY DEF Layout, LayoutFields
<1>3. Shape'
  BY <1>1, <1>2 DEF Shape
<1>4. TypeOK'
  <2>1. <<Home>> \in Seq(Routes) /\ IsInjective(<<Home>>)
    BY OneTab DEF ShellConstants
  <2>2. 0 \in 0 .. MaxCountdowns
    BY DEF ShellConstants
  <2> QED
    BY <1>1, <1>2, <2>1, <2>2 DEF TypeOK
<1>5. InSession'
  BY <1>1 DEF InSession
<1>6. Tabbed' /\ OwnProfile' /\ Counted' /\ BusyEnds'
  BY <1>1, <1>2 DEF Tabbed, OwnProfile, Counted, BusyEnds
<1> QED
  BY <1>3, <1>4, <1>5, <1>6 DEF ShellInv

LEMMA ShellOpensStep ==
  ASSUME ShellInv, On("Login"), ShellConstants, NEW i \in DOMAIN calls, ShellOpens(i)
  PROVE  ShellInv'
<1>1. calls[i].op = "route" /\ world' = world /\ calls[i].arg \in Routes
  <2>1. calls[i].op = "route" /\ world' = world
    BY DEF ShellOpens, Indices
  <2>2. Flying("route", calls[i].arg, calls)
    BY <2>1 DEF Flying
  <2> QED
    BY <2>1, <2>2, AtLogin
<1>2. CASE world.token = None
  <2>1. page' = "Login" /\ view' = view /\ Reply(i, <<>>)
    BY <1>2 DEF ShellOpens, On
  <2>2. /\ AreCalls(calls')
        /\ \A o, a : Flying(o, a, calls') => Flying(o, a, calls)
        /\ \A ops : InFlight(ops) /\ calls[i].op \notin ops => InFlight(ops)'
    BY <2>1, AtLogin, ReplyNone
  <2> QED
    BY <1>1, <2>1, <2>2, AtLogin, LoginPage
<1>3. CASE world.token # None
  <2>1. page' = "Shell" /\ view' = Layout(calls[i].arg) /\ Reply(i, LayoutCalls)
    BY <1>3 DEF ShellOpens
  <2> DEFINE arg(what) == [token |-> world.token, what |-> what]
             new == <<Call("settings", arg(None)), Call("unread", arg(world.unread))>>
  <2>2. LayoutCalls = new
    BY DEF LayoutCalls, Api
  <2>3. /\ \A what : arg(what).token = world.token /\ arg(what).what = what
    OBVIOUS
  <2> HIDE DEF arg
  <2>4. /\ AreCalls(new)
        /\ \A o, a : Flying(o, a, new) <=>
             (o = "settings" /\ a = arg(None)) \/ (o = "unread" /\ a = arg(world.unread))
    BY TwoCalls
  <2> HIDE DEF new
  <2>5. /\ AreCalls(calls')
        /\ \A o, a : Flying(o, a, new) => Flying(o, a, calls')
        /\ \A o, a : Flying(o, a, calls') => Flying(o, a, calls) \/ Flying(o, a, new)
    BY <2>1, <2>2, <2>4, AtLogin, ReplyTakes
  <2>6. InFlight({"unread"})'
    <3>1. Flying("unread", arg(world.unread), calls')
      BY <2>4, <2>5
    <3> QED
      BY <3>1 DEF Flying, InFlight
  <2>7. \A o, a : Flying(o, a, calls) => o \in LoginOps
    BY AtLogin
  <2>8. /\ \A a : Flying("route", a, calls') => a \in Routes
        /\ \A a : Flying("unread", a, calls') => a.what = world.unread
        /\ \A a : ~Flying("saveProfile", a, calls')
    BY <2>3, <2>4, <2>5, <2>7, AtLogin DEF LoginOps
  <2>9. ~world.shared => \A o, a : Flying(o, a, calls') /\ o \in ApiOps \ {"login"} =>
                                   a.token = world.token
    <3>1. ~world.shared => \A o, a : Flying(o, a, calls) => o \in {"login", "route"}
      BY AtLogin
    <3> QED
      BY <2>3, <2>4, <2>5, <3>1 DEF ApiOps
  <2> QED
    BY <1>1, <1>3, <2>1, <2>5, <2>6, <2>8, <2>9, AtLogin, LayoutMounted
<1> QED
  BY <1>2, <1>3

-----------------------------------------------------------------------------
(* The visits of the browser *)

LEMMA ShellEntered ==
  ASSUME ShellConstants, Enter
  PROVE  ShellInv'
<1>1. \A token \in {None, 1}, source \in {"both", "artifact"} : \A part :
        LET w == World(token, source, part) IN
        /\ DOMAIN w = WorldFields /\ w.token = token /\ w.issued \in 0 .. MaxSessions
        /\ w.source = source /\ w.shared = FALSE /\ w.unread = FALSE /\ w.news = FALSE
        /\ token \in Sessions
  BY DEF World, WorldFields, Sessions, ShellConstants
<1>2. CASE EnterShell
  <2> DEFINE arg == [token |-> 1, what |-> None]
             count == [token |-> 1, what |-> FALSE]
             new == <<Call("settings", arg), Call("unread", count)>>
  <2>1. PICK r \in Routes, source \in {"both", "artifact"}, part \in Parts :
          Mount("Shell", Layout(r), World(1, source, part), new)
    BY <1>2 DEF EnterShell
  <2>3. arg.token = 1 /\ count.token = 1 /\ count.what = FALSE
    OBVIOUS
  <2> HIDE DEF arg, count
  <2>4. /\ AreCalls(new)
        /\ \A o, a : Flying(o, a, new) <=>
             (o = "settings" /\ a = arg) \/ (o = "unread" /\ a = count)
    BY TwoCalls
  <2> HIDE DEF new
  <2>5. /\ page' = "Shell" /\ view' = Layout(r) /\ world' = World(1, source, part)
        /\ calls' = Sent(<<>>, new)
    BY <2>1 DEF Mount
  <2>6. AreCalls(calls') /\ \A o, a : Flying(o, a, calls') <=> Flying(o, a, new)
    BY <2>4, <2>5, NoCall, SentCalls, SentFlies
  <2>7. InFlight({"unread"})'
    <3>1. Flying("unread", count, calls')
      BY <2>4, <2>6
    <3> QED
      BY <3>1 DEF Flying, InFlight
  <2>8. /\ DOMAIN world' = WorldFields /\ world'.token = 1 /\ world'.issued \in 0 .. MaxSessions
        /\ world'.source = source /\ world'.shared = FALSE /\ world'.unread = FALSE
        /\ world'.news = FALSE /\ 1 \in Sessions /\ None # 1
    BY <1>1, <2>5 DEF ShellConstants
  <2>9. /\ \A a : Flying("route", a, calls') => a \in Routes
        /\ \A a : Flying("unread", a, calls') => a.what = FALSE
        /\ \A a : ~Flying("saveProfile", a, calls')
        /\ \A o, a : Flying(o, a, calls') => a.token = 1
    BY <2>3, <2>4, <2>6
  <2> QED
    BY <2>5, <2>6, <2>7, <2>8, <2>9, LayoutMounted
<1>3. CASE EnterLogin
  <2>1. PICK r \in Routes, token \in {None, 1}, part \in Parts :
          Mount("Login", LoginRefs(r), World(token, "both", part), <<>>)
    BY <1>3 DEF EnterLogin
  <2>2. /\ page' = "Login" /\ view' = LoginRefs(r) /\ world' = World(token, "both", part)
        /\ calls' = Sent(<<>>, <<>>)
    BY <2>1 DEF Mount
  <2>3. AreCalls(calls') /\ \A o, a : ~Flying(o, a, calls')
    BY <2>2, NoCall, SentCalls, SentFlies
  <2>4. DOMAIN view' = {"redirect", "loading"} /\ view'.redirect = r /\ view'.loading = FALSE
    BY <2>2 DEF LoginRefs
  <2>5. /\ DOMAIN world' = WorldFields /\ world'.token = token
        /\ world'.issued \in 0 .. MaxSessions /\ world'.source = "both"
        /\ world'.shared = FALSE /\ world'.unread = FALSE /\ world'.news = FALSE
        /\ token \in Sessions
    BY <1>1, <2>2
  <2> QED
    BY <2>2, <2>3, <2>4, <2>5, LoginPage
<1> QED
  BY <1>2, <1>3 DEF Enter

LEMMA ShellStep ==
  ASSUME ShellInv, ShellConstants, Next
  PROVE  ShellInv'
<1>1. CASE On("Shell")
  <2>1. ~On("Login")
    BY <1>1 DEF On
  <2>2. CASE UserActs
    BY <1>1, <2>1, <2>2, ClickSteps, PlainSteps, TabSteps DEF UserActs, handleLogin
  <2>3. ASSUME NEW i \in DOMAIN calls,
               RouteSettles(i) \/ ChunkFails(i) \/ Unauthorized(i) \/ LoggedOut(i)
               \/ ShellOpens(i) \/ Unheard(i) \/ loadNotifications(i)
        PROVE  ShellInv'
    <3>1. CASE loadNotifications(i) \/ ChunkFails(i)
      BY <1>1, <3>1, AnswerSteps
    <3> QED
      BY <1>1, <2>1, <2>3, <3>1, SessionSteps DEF ShellOpens
  <2>4. ASSUME NEW i \in DOMAIN calls, NEW ok \in BOOLEAN,
               UnreadArrives(i, ok) \/ MarkedRead(i, ok)
               \/ SettingsArrive(i, ok) \/ loadProfile(i, ok) \/ ProfileSaved(i, ok)
               \/ CodeSent(i, ok) \/ PasswordChanged(i, ok) \/ LoggedIn(i, ok)
        PROVE  ShellInv'
    <3>1. CASE PasswordChanged(i, ok)
      BY <1>1, <3>1, SessionSteps
    <3> QED
      BY <1>1, <2>1, <2>4, <3>1, AnswerSteps DEF LoggedIn
  <2>5. CASE NotifyTick \/ NewMessage \/ CountdownEnds \/ OtherTab
    BY <1>1, <2>5, ClickSteps, PlainSteps
  <2> QED
    BY <2>2, <2>3, <2>4, <2>5 DEF Next, Arrivals
<1>2. CASE On("Login")
  <2>1. ~On("Shell") /\ \A p : ~Part(p)
    BY <1>2 DEF On, Part
  <2>2. CASE UserActs
    <3>1. handleLogin
      BY <2>1, <2>2 DEF UserActs, Menu, handleTabClick, CloseIcon, handleTabContextMenu,
         handleContextClose, handleContextCloseOthers, handleContextCloseAll, OnTabs,
         OpenDrawer, handleMarkAllRead, CloseDialog, OpenProfile, handleSaveProfile,
         OpenPassword, handleSendCode, handleSavePassword, handleLogout
    <3> QED
      BY <1>2, <3>1, LoginWaits
  <2>3. ASSUME NEW i \in DOMAIN calls,
               RouteSettles(i) \/ ChunkFails(i) \/ Unauthorized(i) \/ LoggedOut(i)
               \/ ShellOpens(i) \/ Unheard(i) \/ loadNotifications(i)
        PROVE  ShellInv'
    <3>1. ~RouteSettles(i) /\ ~LoggedOut(i) /\ ~loadNotifications(i)
      BY <2>1 DEF RouteSettles, LoggedOut, loadNotifications
    <3>2. CASE ShellOpens(i)
      BY <1>2, <3>2, ShellOpensStep
    <3> QED
      BY <1>2, <2>3, <3>1, <3>2, LoginSteps
  <2>4. ASSUME NEW i \in DOMAIN calls, NEW ok \in BOOLEAN,
               UnreadArrives(i, ok) \/ MarkedRead(i, ok)
               \/ SettingsArrive(i, ok) \/ loadProfile(i, ok) \/ ProfileSaved(i, ok)
               \/ CodeSent(i, ok) \/ PasswordChanged(i, ok) \/ LoggedIn(i, ok)
        PROVE  ShellInv'
    <3>1. LoggedIn(i, ok)
      BY <2>1, <2>4 DEF UnreadArrives, MarkedRead, SettingsArrive, loadProfile, ProfileSaved,
         CodeSent, PasswordChanged
    <3> QED
      BY <1>2, <3>1, LoginSteps
  <2>5. CASE NotifyTick \/ NewMessage \/ CountdownEnds \/ OtherTab
    <3>1. OtherTab
      BY <2>1, <2>5 DEF NotifyTick, NewMessage, CountdownEnds
    <3> QED
      BY <1>2, <3>1, LoginWaits
  <2> QED
    BY <2>2, <2>3, <2>4, <2>5 DEF Next, Arrivals
<1> QED
  BY <1>1, <1>2 DEF Next, InApp, On

LEMMA OutsideShell ==
  ASSUME ~InApp' PROVE ShellInv'
<1>1. ~On("Shell")' /\ ~On("Login")'
  BY DEF InApp, On
<1> QED
  BY <1>1 DEF ShellInv, Shape, TypeOK, InSession, Tabbed, OwnProfile, Counted, BusyEnds

LEMMA ShellStutters ==
  ASSUME ShellInv, UNCHANGED console PROVE ShellInv'
<1> USE DEF console, InApp, On
<1>1. Shape' /\ TypeOK' /\ InSession'
  BY DEF ShellInv, Shape, TypeOK, InSession
<1>2. Tabbed' /\ OwnProfile' /\ Counted' /\ BusyEnds'
  BY DEF ShellInv, Tabbed, OwnProfile, Counted, BusyEnds, InFlight
<1> QED
  BY <1>1, <1>2 DEF ShellInv

LEMMA ShellVisit ==
  ASSUME ShellInv, ShellConstants, [Enter \/ Leave \/ Next]_console
  PROVE  ShellInv'
<1>1. CASE Leave
  <2>1. ~InApp'
    BY <1>1 DEF Leave, LeaveWith, InApp, ShellConstants
  <2> QED
    BY <2>1, OutsideShell
<1> QED
  BY <1>1, ShellEntered, ShellStep, ShellStutters

\* What the shell promises, of its parts and of itself.
LEMMA ShellPromises ==
  ASSUME ShellInv
  PROVE  TypeOK /\ BusyEnds /\ RouteHasTab /\ SessionKept /\ WritesOwnSubject /\ BadgeIsServed
<1>1. TypeOK /\ BusyEnds
  BY DEF ShellInv
<1>2. RouteHasTab
  <2>1. Latest("route", calls) => InFlight({"route"})
    BY DEF Latest, InFlight
  <2> QED
    BY <2>1 DEF ShellInv, Tabbed, RouteHasTab
<1>3. SessionKept
  <2>1. \A i \in DOMAIN calls : Flying(calls[i].op, calls[i].arg, calls)
    BY DEF Flying
  <2> QED
    BY <2>1 DEF ShellInv, InSession, SessionKept
<1>4. WritesOwnSubject
  BY DEF ShellInv, OwnProfile, WritesOwnSubject, Indices, Flying
<1>5. BadgeIsServed
  <2>1. calls = <<>> => ~InFlight({"unread"})
    BY DEF InFlight
  <2> QED
    BY <2>1 DEF ShellInv, Counted, BadgeIsServed
<1> QED
  BY <1>1, <1>2, <1>3, <1>4, <1>5

\* The shell alone, whatever is shown inside it.
Visits == Init /\ [][Enter \/ Leave \/ Next]_console

LEMMA ShellInvariant ==
  ASSUME ShellConstants PROVE Visits => []ShellInv
<1>1. Init => ShellInv
  <2>1. Init => ~InApp
    BY DEF Init, InApp, ShellConstants
  <2> QED
    BY <2>1 DEF ShellInv, Shape, TypeOK, InSession, Tabbed, OwnProfile, Counted, BusyEnds,
       InApp, On
<1>2. ShellInv /\ [Enter \/ Leave \/ Next]_console => ShellInv'
  BY ShellVisit
<1> QED
  BY <1>1, <1>2, PTL DEF Visits

\* The form of the account that is saved is the user's own, and the unread badge
\* is what the server counts, once a user who waits has the answers: however
\* often the dialogs are opened, the drawer read and the count asked again.
THEOREM OwnFormAndBadge ==
  ASSUME ShellConstants PROVE Visits => [](WritesOwnSubject /\ BadgeIsServed)
  BY ShellInvariant, ShellPromises, PTL

\* The login button and the resend button are disabled only while a call or a
\* countdown is still to end that.
THEOREM ShellNeverStuck ==
  ASSUME ShellConstants PROVE Visits => []BusyEnds
  BY ShellInvariant, ShellPromises, PTL

-----------------------------------------------------------------------------
(* Server management *)

CONSTANTS ServerClicks, Servers, ServerSearches, Paths, MaxSockets

V == INSTANCE ServerPages WITH MaxClicks <- ServerClicks, Searches <- ServerSearches

\* Calls are sent and answered as in any page.
LEMMA ServersConsole ==
  /\ \A new : V!Send(new) <=> Send(new)
  /\ \A i, new : V!Reply(i, new) <=> Reply(i, new)
  /\ \A op, arg : V!Call(op, arg) = Call(op, arg)
  /\ \A op, i : i \in V!Indices(op) <=> i \in DOMAIN calls /\ calls[i].op = op
  /\ \A ops : V!InFlight(ops) <=> InFlight(ops)
  BY Zenon DEF V!Send, Send, V!Reply, Reply, V!Sent, Sent, V!Outdates, Outdates, V!Without,
     Without, V!Call, Call, V!Indices, V!InFlight, InFlight

Subjects == Servers \cup {"new"}
Texts == ServerSearches \cup {None}

\* An open form holds no key but its own; nor does one that is being saved.
ServerListInv ==
  /\ DOMAIN view = {"search", "loading", "rows", "form", "calm"} /\ AreCalls(calls)
  /\ view.search \in Texts /\ view.rows \in Texts
  /\ view.form \in V!FormType \cup {None}
  /\ view.loading \in BOOLEAN /\ view.calm \in BOOLEAN
  /\ \A a : Flying("servers", a, calls) => a \in Texts
  /\ \A a : Flying("readKey", a, calls) => a \in Subjects
  /\ view.loading => InFlight({"servers"})
  /\ view.calm => /\ view.form # None => view.form.key \in {None, view.form.of}
                  /\ \A a : Flying("saveServer", a, calls) => a.key \in {None, a.of}

\* A form opens, closes or stays, and no call is made or answered.
LEMMA FormMoves ==
  ASSUME ServerListInv, NEW form \in V!FormType \cup {None},
         form # None /\ view.calm => form.key \in {None, form.of},
         view' = [view EXCEPT !.form = form], calls' = calls
  PROVE  ServerListInv'
<1>1. /\ DOMAIN view' = {"search", "loading", "rows", "form", "calm"}
      /\ view'.form = form /\ view'.search = view.search /\ view'.rows = view.rows
      /\ view'.loading = view.loading /\ view'.calm = view.calm
  BY DEF ServerListInv
<1> QED
  BY <1>1 DEF ServerListInv, InFlight

\* A call is made, and perhaps the overlay goes up.
LEMMA ListAsks ==
  ASSUME ServerListInv, NEW search \in Texts, NEW b \in BOOLEAN, NEW op, NEW arg,
         view' = [view EXCEPT !.search = search, !.loading = b], Send(<<Call(op, arg)>>),
         op = "servers" => arg \in Texts,
         op = "readKey" => arg \in Subjects,
         op = "saveServer" /\ view.calm => arg.key \in {None, arg.of},
         b => op = "servers" \/ view.loading
  PROVE  ServerListInv'
<1>1. /\ AreCalls(calls')
      /\ \A o, a : Flying(o, a, calls') <=> Flying(o, a, calls) \/ (o = op /\ a = arg)
      /\ \A ops : InFlight(ops) \/ op \in ops => InFlight(ops)'
  BY SendOne DEF ServerListInv
<1>2. /\ DOMAIN view' = {"search", "loading", "rows", "form", "calm"}
      /\ view'.search = search /\ view'.loading = b
      /\ view'.form = view.form /\ view'.rows = view.rows /\ view'.calm = view.calm
  BY DEF ServerListInv
<1> QED
  BY <1>1, <1>2 DEF ServerListInv

\* A call is answered, and the list perhaps loaded again.
LEMMA ListAnswers ==
  ASSUME ServerListInv, NEW i \in DOMAIN calls, NEW again \in BOOLEAN,
         Reply(i, IF again THEN <<Call("servers", view.search)>> ELSE <<>>),
         DOMAIN view' = {"search", "loading", "rows", "form", "calm"},
         view'.search = view.search, view'.rows \in Texts,
         view'.form \in V!FormType \cup {None},
         view'.loading \in BOOLEAN, view'.calm \in BOOLEAN,
         view'.calm => /\ view.calm
                       /\ view'.form # None => view'.form.key \in {None, view'.form.of},
         view'.loading => again \/ (view.loading /\ calls[i].op # "servers")
  PROVE  ServerListInv'
<1>1. CASE again
  <2>1. Reply(i, <<Call("servers", view.search)>>)
    BY <1>1
  <2>2. /\ AreCalls(calls')
        /\ \A o, a : Flying(o, a, calls') =>
             Flying(o, a, calls) \/ (o = "servers" /\ a = view.search)
        /\ InFlight({"servers"})'
    BY <2>1, ReplyOne DEF ServerListInv
  <2> QED
    BY <2>2 DEF ServerListInv
<1>2. CASE ~again
  <2>1. Reply(i, <<>>)
    BY <1>2
  <2>2. /\ AreCalls(calls')
        /\ \A o, a : Flying(o, a, calls') => Flying(o, a, calls)
        /\ \A ops : InFlight(ops) /\ calls[i].op \notin ops => InFlight(ops)'
    BY <2>1, ReplyNone DEF ServerListInv
  <2> QED
    BY <1>2, <2>2 DEF ServerListInv
<1> QED
  BY <1>1, <1>2

LEMMA ServerListStep ==
  ASSUME ServerListInv, V!On("Servers"), V!Next, None \notin V!Views
  PROVE  ServerListInv'
<1> USE ServersConsole
<1>0. /\ ~V!On("Files") /\ ~V!On("Terminal") /\ ~V!On("Monitor")
      /\ page # None /\ page \notin {"Monitor", None}
  BY DEF V!On, V!Views
<1>1. CASE V!handleAdd \/ V!CloseServerForm \/ \E s \in Servers : V!handleEdit(s)
  <2>1. PICK s : (V!OpenServerForm(s) /\ s \in Subjects) \/ V!CloseServerForm
    BY <1>1 DEF V!handleAdd, V!handleEdit, Subjects
  <2>2. CASE V!CloseServerForm
    BY <2>2, FormMoves DEF V!CloseServerForm
  <2>3. CASE V!OpenServerForm(s) /\ s \in Subjects
    <3> DEFINE form == [of |-> s, key |-> None]
    <3>1. form \in V!FormType /\ form.key = None
      BY <2>3 DEF V!FormType, Subjects
    <3>2. view' = [view EXCEPT !.form = form] /\ calls' = calls
      BY <2>3 DEF V!OpenServerForm
    <3> HIDE DEF form
    <3> QED
      BY <3>1, <3>2, FormMoves
  <2> QED
    BY <2>1, <2>2, <2>3
<1>2. ASSUME NEW text \in Texts, V!Search(text) PROVE ServerListInv'
  <2>1. view' = [view EXCEPT !.search = text, !.loading = TRUE]
        /\ Send(<<Call("servers", text)>>)
    BY <1>2 DEF V!Search
  <2> QED
    BY <2>1, ListAsks
<1>3. ASSUME NEW op, NEW arg, view' = view, Send(<<Call(op, arg)>>), op # "servers",
             op = "readKey" => arg \in Subjects,
             op = "saveServer" /\ view.calm => arg.key \in {None, arg.of}
      PROVE  ServerListInv'
  <2>1. /\ AreCalls(calls')
        /\ \A o, a : Flying(o, a, calls') <=> Flying(o, a, calls) \/ (o = op /\ a = arg)
        /\ \A ops : InFlight(ops) \/ op \in ops => InFlight(ops)'
    BY <1>3, SendOne DEF ServerListInv
  <2> QED
    BY <1>3, <2>1 DEF ServerListInv
<1>4. CASE V!handleReadKey \/ V!handleSave
  <2>1. view.form \in V!FormType /\ view' = view
        /\ (Send(<<Call("readKey", view.form.of)>>) \/ Send(<<Call("saveServer", view.form)>>))
    BY <1>4 DEF V!handleReadKey, V!handleSave, ServerListInv
  <2>2. view.form.of \in Subjects /\ (view.calm => view.form.key \in {None, view.form.of})
        /\ view.form # None
    BY <1>4, <2>1 DEF V!FormType, Subjects, ServerListInv, V!handleReadKey, V!handleSave
  <2> QED
    BY <1>3, <2>1, <2>2
<1>5. ASSUME NEW s \in Servers, V!handleDelete(s) \/ V!handleTest(s) PROVE ServerListInv'
  BY <1>3, <1>5 DEF V!handleDelete, V!handleTest, V!TouchServer
<1>6. ASSUME NEW i \in DOMAIN calls, NEW ok \in BOOLEAN, V!ServersArrive(i, ok)
      PROVE  ServerListInv'
  <2>1. calls[i].op = "servers" /\ Reply(i, <<>>)
    BY <1>6 DEF V!ServersArrive
  <2>2. calls[i].arg \in Texts
    BY <2>1 DEF ServerListInv, Flying
  <2>3. PICK rows \in Texts, calm \in BOOLEAN :
          rows = (IF ok THEN calls[i].arg ELSE None) /\ calm = (view.calm /\ ok /\ calls[i].last)
    BY <2>2 DEF Texts
  <2>4. view' = [view EXCEPT !.rows = rows, !.loading = FALSE, !.calm = calm]
    BY <1>6, <2>3 DEF V!ServersArrive, V!Calmly
  <2>5. /\ DOMAIN view' = {"search", "loading", "rows", "form", "calm"}
        /\ view'.search = view.search /\ view'.rows = rows /\ view'.form = view.form
        /\ view'.loading = FALSE /\ view'.calm = calm
    BY <2>4 DEF ServerListInv
  <2>6. /\ view.form \in V!FormType \cup {None}
        /\ view.calm => (view.form # None => view.form.key \in {None, view.form.of})
    BY DEF ServerListInv
  <2>7. Reply(i, IF FALSE THEN <<Call("servers", view.search)>> ELSE <<>>)
    BY <2>1
  <2> QED
    BY <2>3, <2>5, <2>6, <2>7, ListAnswers
<1>7. ASSUME NEW i \in DOMAIN calls, NEW ok \in BOOLEAN, V!KeyArrives(i, ok)
      PROVE  ServerListInv'
  <2>1. calls[i].op = "readKey" /\ Reply(i, IF FALSE THEN <<Call("servers", view.search)>> ELSE <<>>)
    BY <1>7 DEF V!KeyArrives
  <2>2. calls[i].arg \in Subjects
    BY <2>1 DEF ServerListInv, Flying
  <2>3. CASE ok /\ view.form # None
    <3>1. PICK calm \in BOOLEAN : calm = (view.calm /\ calls[i].arg = view.form.of)
      OBVIOUS
    <3> DEFINE form == [view.form EXCEPT !.key = calls[i].arg]
    <3>2. view.form \in V!FormType
      BY <2>3 DEF ServerListInv
    <3>3. form \in V!FormType /\ form.of = view.form.of /\ form.key = calls[i].arg
      BY <2>2, <3>2 DEF V!FormType, Subjects
    <3>4. view' = [view EXCEPT !.form = form, !.calm = calm]
      BY <1>7, <2>3, <3>1 DEF V!KeyArrives, ServerListInv
    <3> HIDE DEF form
    <3>5. /\ DOMAIN view' = {"search", "loading", "rows", "form", "calm"}
          /\ view'.search = view.search /\ view'.rows = view.rows /\ view'.form = form
          /\ view'.loading = view.loading /\ view'.calm = calm
      BY <3>4 DEF ServerListInv
    <3>6. view'.rows \in Texts /\ view'.loading \in BOOLEAN
      BY <3>5 DEF ServerListInv
    <3> QED
      BY <2>1, <3>1, <3>3, <3>5, <3>6, ListAnswers
  <2>4. CASE ~(ok /\ view.form # None)
    <3>1. view' = view
      BY <1>7, <2>4 DEF V!KeyArrives
    <3> QED
      BY <2>1, <3>1, ListAnswers DEF ServerListInv
  <2> QED
    BY <2>3, <2>4
<1>8. ASSUME NEW i \in DOMAIN calls, NEW ok \in BOOLEAN,
             V!ServerSaved(i, ok) \/ V!ServerTouched(i, ok)
      PROVE  ServerListInv'
  <2>1. /\ calls[i].op \in {"saveServer", "deleteServer", "testServer"}
        /\ Reply(i, IF ok THEN <<Call("servers", view.search)>> ELSE <<>>)
        /\ view' = IF ~ok THEN view
                   ELSE IF calls[i].op = "saveServer"
                        THEN [view EXCEPT !.form = None, !.loading = TRUE]
                        ELSE [view EXCEPT !.loading = TRUE]
    BY <1>8 DEF V!ServerSaved, V!ServerTouched, V!loadServers
  <2>2. CASE ok
    <3>1. /\ DOMAIN view' = {"search", "loading", "rows", "form", "calm"}
          /\ view'.search = view.search /\ view'.rows = view.rows
          /\ view'.form \in {None, view.form}
          /\ view'.loading = TRUE /\ view'.calm = view.calm
      BY <2>1, <2>2 DEF ServerListInv
    <3> QED
      BY <2>1, <2>2, <3>1, ListAnswers DEF ServerListInv
  <2>3. CASE ~ok
    BY <2>1, <2>3, ListAnswers DEF ServerListInv
  <2> QED
    BY <2>2, <2>3
<1>9. ASSUME V!UserActs PROVE ServerListInv'
  BY <1>0, <1>1, <1>2, <1>4, <1>5, <1>9
     DEF V!UserActs, V!handleNavigate, V!handleGoUp, V!AskMkdir, V!AskRename, V!Dismiss,
     V!handlePathClick, V!handleMkdir, V!handleRename, V!handleUpload, V!handleReconnect, Texts
<1>10. ASSUME V!Arrivals PROVE ServerListInv'
  <2>1. ~V!MonitorTick /\ \A k : ~V!SocketOpens(k) /\ ~V!SocketCloses(k)
    BY <1>0 DEF V!MonitorTick, V!SocketOpens, V!SocketCloses
  <2>2. \A i : ~V!FilesServerArrives(i) /\ ~V!MonitorServerArrives(i)
    BY <1>0 DEF V!FilesServerArrives, V!MonitorServerArrives
  <2>3. \A i, ok : ~V!FilesArrive(i, ok) /\ ~V!FilesChanged(i, ok)
                   /\ ~V!TerminalServerArrives(i, ok) /\ ~V!initTerminal(i, ok)
                   /\ ~V!fetchMetrics(i, ok)
    BY <1>0 DEF V!FilesArrive, V!FilesChanged, V!TerminalServerArrives, V!initTerminal,
       V!fetchMetrics
  <2> QED
    BY <1>6, <1>7, <1>8, <1>10, <2>1, <2>2, <2>3 DEF V!Arrivals
<1> QED
  BY <1>9, <1>10 DEF V!Next

\* As long as nothing was out of turn, the listing, an open "rename" prompt and
\* whatever load will be applied last are about the path shown.
FilesInv ==
  /\ DOMAIN view = {"path", "listing", "loading", "prompt", "calm"} /\ AreCalls(calls)
  /\ view.path \in Paths /\ view.listing \in Paths \cup {None}
  /\ view.prompt \in [kind : {"mkdir", "rename"}, dir : Paths] \cup {None}
  /\ view.loading \in BOOLEAN /\ view.calm \in BOOLEAN /\ clicks \in Nat
  /\ view.prompt # None => clicks > 0
  /\ \A a : Flying("files", a, calls) => a \in Paths
  /\ view.loading => InFlight({"files"})
  /\ \E a : Asks("files", a, calls)
  /\ view.calm =>
       /\ view.listing # None => view.listing = view.path
       /\ view.prompt # None /\ view.prompt.kind = "rename" => view.prompt.dir = view.path
       /\ ~view.loading \/ (view.prompt # None /\ view.prompt.kind = "rename") =>
            Asks("files", view.path, calls)
       /\ \A a : Flying("rename", a, calls) => a.old = a.new

LEMMA FilesCall ==
  ASSUME FilesInv, NEW op, NEW arg, Send(<<Call(op, arg)>>)
  PROVE  /\ AreCalls(calls')
         /\ \A o, a : Flying(o, a, calls') <=> Flying(o, a, calls) \/ (o = op /\ a = arg)
         /\ InFlight({"files"}) \/ op = "files" => InFlight({"files"})'
         /\ op = "files" => Asks("files", arg, calls')
         /\ op # "files" => \A a : Asks("files", a, calls) => Asks("files", a, calls')
         /\ \E a : Asks("files", a, calls')
<1>1. /\ AreCalls(calls')
      /\ \A o, a : Flying(o, a, calls') <=> Flying(o, a, calls) \/ (o = op /\ a = arg)
      /\ \A ops : InFlight(ops) \/ op \in ops => InFlight(ops)'
  BY SendOne DEF FilesInv
<1>2. /\ Asks(op, arg, calls')
      /\ \A o, a : o # op /\ Asks(o, a, calls) => Asks(o, a, calls')
  BY SendAsks DEF FilesInv
<1> QED
  BY <1>1, <1>2 DEF FilesInv

\* A directory is loaded: no prompt is open.
LEMMA FilesLoad ==
  ASSUME FilesInv, view.prompt = None, NEW path \in Paths,
         view' = [view EXCEPT !.loading = TRUE], Send(<<Call("files", path)>>),
         clicks' = clicks + 1
  PROVE  FilesInv'
<1>1. /\ DOMAIN view' = {"path", "listing", "loading", "prompt", "calm"}
      /\ view'.path = view.path /\ view'.listing = view.listing /\ view'.loading = TRUE
      /\ view'.prompt = None /\ view'.calm = view.calm
  BY DEF FilesInv
<1> QED
  BY <1>1, FilesCall DEF FilesInv

\* A prompt opens, or is dismissed.
LEMMA PromptMoves ==
  ASSUME FilesInv, NEW prompt \in [kind : {"mkdir", "rename"}, dir : Paths] \cup {None},
         view.calm /\ prompt # None /\ prompt.kind = "rename" =>
           ~view.loading /\ prompt.dir = view.path,
         view' = [view EXCEPT !.prompt = prompt], calls' = calls, clicks' = clicks + 1
  PROVE  FilesInv'
<1>1. /\ DOMAIN view' = {"path", "listing", "loading", "prompt", "calm"}
      /\ view'.path = view.path /\ view'.listing = view.listing
      /\ view'.loading = view.loading /\ view'.prompt = prompt /\ view'.calm = view.calm
  BY DEF FilesInv
<1> QED
  BY <1>1 DEF FilesInv, InFlight

\* The prompt is answered, or a file picked: a call that is no load.
LEMMA PromptAnswered ==
  ASSUME FilesInv, NEW op, NEW arg, op # "files", op = "rename" /\ view.calm => arg.old = arg.new,
         view' = view \/ view' = [view EXCEPT !.prompt = None], Send(<<Call(op, arg)>>),
         clicks' = clicks + 1
  PROVE  FilesInv'
<1>1. /\ DOMAIN view' = {"path", "listing", "loading", "prompt", "calm"}
      /\ view'.path = view.path /\ view'.listing = view.listing
      /\ view'.loading = view.loading /\ view'.prompt \in {view.prompt, None}
      /\ view'.calm = view.calm
  BY DEF FilesInv
<1> QED
  BY <1>1, FilesCall DEF FilesInv

\* The directory shown is loaded again after a change.
LEMMA FilesReload ==
  ASSUME FilesInv, NEW i \in DOMAIN calls, NEW ok \in BOOLEAN, calls[i].op # "files",
         view' = IF ok THEN [view EXCEPT !.loading = TRUE] ELSE view,
         Reply(i, IF ok THEN <<Call("files", view.path)>> ELSE <<>>), clicks' = clicks
  PROVE  FilesInv'
<1>1. CASE ok
  <2>1. Reply(i, <<Call("files", view.path)>>)
    BY <1>1
  <2>2. /\ AreCalls(calls') /\ InFlight({"files"})'
        /\ \A o, a : Flying(o, a, calls') =>
             Flying(o, a, calls) \/ (o = "files" /\ a = view.path)
    BY <2>1, ReplyOne DEF FilesInv
  <2>3. Asks("files", view.path, calls')
    BY <2>1, ReplyAsks DEF FilesInv
  <2>4. /\ DOMAIN view' = {"path", "listing", "loading", "prompt", "calm"}
        /\ view'.path = view.path /\ view'.listing = view.listing /\ view'.loading = TRUE
        /\ view'.prompt = view.prompt /\ view'.calm = view.calm
    BY <1>1 DEF FilesInv
  <2> QED
    BY <2>2, <2>3, <2>4 DEF FilesInv
<1>2. CASE ~ok
  <2>1. Reply(i, <<>>) /\ view' = view
    BY <1>2
  <2>2. /\ AreCalls(calls')
        /\ \A o, a : Flying(o, a, calls') => Flying(o, a, calls)
        /\ \A ops : InFlight(ops) /\ calls[i].op \notin ops => InFlight(ops)'
    BY <2>1, ReplyNone DEF FilesInv
  <2>3. \A a : Asks("files", a, calls) => Asks("files", a, calls')
    BY <2>1, ReplyAsksNone DEF FilesInv
  <2> QED
    BY <2>1, <2>2, <2>3 DEF FilesInv
<1> QED
  BY <1>1, <1>2

LEMMA FilesArriveStep ==
  ASSUME FilesInv, V!On("Files"), NEW i \in DOMAIN calls, NEW ok \in BOOLEAN,
         V!FilesArrive(i, ok)
  PROVE  FilesInv'
<1>1. calls[i].op = "files" /\ Reply(i, <<>>) /\ clicks' = clicks
  BY ServersConsole DEF V!FilesArrive, V!Answer
<1>2. calls[i].arg \in Paths
  BY <1>1 DEF FilesInv, Flying
<1>3. PICK calm \in BOOLEAN : calm = (view.calm /\ ok /\ calls[i].last)
  OBVIOUS
<1>4. PICK path \in Paths : path = IF ok THEN calls[i].arg ELSE view.path
  BY <1>2 DEF FilesInv
<1>5. PICK listing \in Paths \cup {None} : listing = IF ok THEN calls[i].arg ELSE None
  BY <1>2
<1>6. view' = [view EXCEPT !.path = path, !.listing = listing, !.loading = FALSE,
                           !.calm = calm]
  BY <1>3, <1>4, <1>5 DEF V!FilesArrive, V!Calmly
<1>7. /\ DOMAIN view' = {"path", "listing", "loading", "prompt", "calm"}
      /\ view'.path = path /\ view'.listing = listing /\ view'.loading = FALSE
      /\ view'.prompt = view.prompt /\ view'.calm = calm
  BY <1>6 DEF FilesInv
<1>8. /\ AreCalls(calls')
      /\ \A o, a : Flying(o, a, calls') => Flying(o, a, calls)
  BY <1>1, ReplyNone DEF FilesInv
<1>9. \A a : Asks("files", a, calls) => Asks("files", a, calls')
  BY <1>1, ReplyAsksNone DEF FilesInv
<1>10. calm => /\ path = calls[i].arg /\ listing = path /\ Asks("files", path, calls')
               /\ Asks("files", view.path, calls) => path = view.path
  BY <1>1, <1>3, <1>4, <1>5, <1>9, AsksAlike DEF FilesInv
<1>11. calm => /\ view.calm
               /\ view.prompt # None /\ view.prompt.kind = "rename" => view.prompt.dir = path
               /\ \A a : Flying("rename", a, calls') => a.old = a.new
  BY <1>3, <1>8, <1>10 DEF FilesInv
<1> QED
  BY <1>1, <1>7, <1>8, <1>9, <1>10, <1>11 DEF FilesInv

LEMMA FilesStep ==
  ASSUME FilesInv, V!On("Files"), V!Next, V!ServersConstants
  PROVE  FilesInv'
<1> USE ServersConsole
<1>0. /\ ~V!On("Servers") /\ ~V!On("Terminal") /\ ~V!On("Monitor")
      /\ page # None /\ page \notin {"Monitor", None}
  BY DEF V!On, V!Views, V!ServersConstants
<1>1. \A path \in Paths : \A n \in 0 .. Len(path) : SubSeq(path, 1, n) \in Paths
  BY DEF V!ServersConstants
<1>2. ASSUME NEW path \in Paths, view.prompt = None, V!loadFiles(path) PROVE FilesInv'
  BY <1>2, FilesLoad DEF V!loadFiles, V!Load, V!User
<1>3. CASE V!handleGoUp
  <2>1. view.path \in Paths /\ view.path # <<>> /\ view.path \in Seq(V!Range(view.path))
    BY <1>3 DEF V!handleGoUp, FilesInv, V!ServersConstants
  <2>2. Len(view.path) - 1 \in 0 .. Len(view.path)
    BY <2>1
  <2>3. V!Parent(view.path) \in Paths
    BY <1>1, <2>1, <2>2 DEF V!Parent
  <2> QED
    BY <1>2, <1>3, <2>3 DEF V!handleGoUp
<1>4. ASSUME NEW idx, V!handlePathClick(idx) PROVE FilesInv'
  <2>1. SubSeq(view.path, 1, idx) \in Paths
    BY <1>1, <1>4 DEF V!handlePathClick, FilesInv
  <2> QED
    BY <1>2, <1>4, <2>1 DEF V!handlePathClick
<1>5. ASSUME NEW path \in Paths, V!handleNavigate(path) PROVE FilesInv'
  BY <1>2, <1>5 DEF V!handleNavigate
<1>6. CASE V!AskMkdir \/ V!AskRename \/ V!Dismiss
  <2>1. CASE V!AskMkdir
    <3> DEFINE prompt == [kind |-> "mkdir", dir |-> view.path]
    <3>1. prompt \in [kind : {"mkdir", "rename"}, dir : Paths] /\ prompt.kind = "mkdir"
      BY DEF FilesInv
    <3>2. view' = [view EXCEPT !.prompt = prompt] /\ calls' = calls /\ clicks' = clicks + 1
      BY <2>1 DEF V!AskMkdir, V!User
    <3> HIDE DEF prompt
    <3> QED
      BY <3>1, <3>2, PromptMoves
  <2>2. CASE V!AskRename
    <3> DEFINE prompt == [kind |-> "rename", dir |-> view.listing]
    <3>1. prompt \in [kind : {"mkdir", "rename"}, dir : Paths] /\ prompt.dir = view.listing
          /\ ~view.loading /\ (view.calm => view.listing = view.path)
      BY <2>2 DEF V!AskRename, FilesInv
    <3>2. view' = [view EXCEPT !.prompt = prompt] /\ calls' = calls /\ clicks' = clicks + 1
      BY <2>2 DEF V!AskRename, V!User
    <3> HIDE DEF prompt
    <3> QED
      BY <3>1, <3>2, PromptMoves
  <2>3. CASE V!Dismiss
    BY <2>3, PromptMoves DEF V!Dismiss, V!User
  <2> QED
    BY <1>6, <2>1, <2>2, <2>3
<1>7. CASE V!handleMkdir \/ V!handleUpload
  BY <1>7, PromptAnswered DEF V!handleMkdir, V!handleUpload, V!User
<1>8. CASE V!handleRename
  <2> DEFINE arg == [old |-> view.prompt.dir, new |-> view.path]
  <2>1. arg.old = view.prompt.dir /\ arg.new = view.path
    OBVIOUS
  <2>2. view' = [view EXCEPT !.prompt = None] /\ Send(<<Call("rename", arg)>>)
        /\ clicks' = clicks + 1
    BY <1>8 DEF V!handleRename, V!User
  <2>3. view.calm => view.prompt.dir = view.path
    BY <1>8 DEF V!handleRename, FilesInv
  <2> HIDE DEF arg
  <2> QED
    BY <2>1, <2>2, <2>3, PromptAnswered
<1>9. ASSUME V!UserActs PROVE FilesInv'
  BY <1>0, <1>3, <1>4, <1>5, <1>6, <1>7, <1>8, <1>9
     DEF V!UserActs, V!Search, V!handleAdd, V!OpenServerForm, V!CloseServerForm,
     V!handleReadKey, V!handleSave, V!handleEdit, V!handleDelete, V!handleTest, V!TouchServer,
     V!handleReconnect
<1>10. ASSUME NEW i \in DOMAIN calls, V!FilesServerArrives(i) PROVE FilesInv'
  <2>1. calls[i].op = "server" /\ Reply(i, <<Call("files", <<>>)>>) /\ clicks' = clicks
    BY <1>10 DEF V!FilesServerArrives, V!Answer
  <2>2. PICK calm \in BOOLEAN : calm = (view.calm /\ clicks = 0)
    OBVIOUS
  <2>10. calm => view.calm /\ clicks = 0
    BY Zenon, <2>2
  <2>3. view' = [view EXCEPT !.loading = TRUE, !.calm = calm]
    BY <1>10, <2>2 DEF V!FilesServerArrives
  <2>4. /\ DOMAIN view' = {"path", "listing", "loading", "prompt", "calm"}
        /\ view'.path = view.path /\ view'.listing = view.listing /\ view'.loading = TRUE
        /\ view'.prompt = view.prompt /\ view'.calm = calm
    BY <2>3 DEF FilesInv
  <2>5. /\ AreCalls(calls') /\ InFlight({"files"})'
        /\ \A o, a : Flying(o, a, calls') => Flying(o, a, calls) \/ (o = "files" /\ a = <<>>)
    BY <2>1, ReplyOne DEF FilesInv
  <2>6. Asks("files", <<>>, calls')
    BY <2>1, ReplyAsks DEF FilesInv
  <2>9. clicks \in Nat /\ (view.prompt # None => clicks > 0)
    BY DEF FilesInv
  <2>7. calm => view.calm /\ view.prompt = None
    BY <2>9, <2>10
  <2>8. <<>> \in Paths
    BY DEF V!ServersConstants
  <2> QED
    BY <2>1, <2>4, <2>5, <2>6, <2>7, <2>8 DEF FilesInv
<1>11. ASSUME V!Arrivals PROVE FilesInv'
  <2>1. ~V!MonitorTick /\ \A k : ~V!SocketOpens(k) /\ ~V!SocketCloses(k)
    BY <1>0 DEF V!MonitorTick, V!SocketOpens, V!SocketCloses
  <2>2. \A i : ~V!MonitorServerArrives(i)
    BY <1>0 DEF V!MonitorServerArrives
  <2>3. \A i, ok : ~V!ServersArrive(i, ok) /\ ~V!KeyArrives(i, ok)
                   /\ ~V!ServerSaved(i, ok) /\ ~V!ServerTouched(i, ok)
                   /\ ~V!TerminalServerArrives(i, ok) /\ ~V!initTerminal(i, ok)
                   /\ ~V!fetchMetrics(i, ok)
    BY <1>0 DEF V!ServersArrive, V!KeyArrives, V!ServerSaved, V!ServerTouched,
       V!TerminalServerArrives, V!initTerminal, V!fetchMetrics
  <2>4. ASSUME NEW i \in DOMAIN calls, NEW ok \in BOOLEAN, V!FilesChanged(i, ok)
        PROVE  FilesInv'
    <3>1. calls[i].op # "files" /\ clicks' = clicks
          /\ Reply(i, IF ok THEN <<Call("files", view.path)>> ELSE <<>>)
          /\ view' = IF ok THEN [view EXCEPT !.loading = TRUE] ELSE view
      BY <2>4 DEF V!FilesChanged, V!Answer
    <3> QED
      BY <3>1, FilesReload
  <2> QED
    BY <1>10, <1>11, <2>1, <2>2, <2>3, <2>4, FilesArriveStep DEF V!Arrivals
<1> QED
  BY <1>9, <1>11 DEF V!Next

Ends == {"closing", "closed"}

\* A socket that is not the one referred to was closed, and all of them were as long
\* as a new one is to come; unless two came at once.
TerminalInv ==
  /\ DOMAIN view = {"sockets", "ws", "connected", "twice"} /\ AreCalls(calls)
  /\ view.sockets \in Seq({"connecting", "open"} \cup Ends)
  /\ view.ws \in 0 .. Len(view.sockets)
  /\ view.connected \in BOOLEAN /\ view.twice \in BOOLEAN
  /\ view.connected => \E k \in DOMAIN view.sockets : view.sockets[k] = "open"
  /\ ~view.twice =>
       /\ Lone({"server", "xterm"}, calls)
       /\ \A k \in DOMAIN view.sockets :
            k # view.ws \/ InFlight({"server", "xterm"}) => view.sockets[k] \in Ends

\* One socket changes its state.
LEMMA SocketMoves ==
  ASSUME TerminalInv, NEW k \in DOMAIN view.sockets,
         NEW s \in {"connecting", "open"} \cup Ends, NEW b \in BOOLEAN,
         b => s = "open", s \in Ends \/ view.sockets[k] \notin Ends,
         view' = [view EXCEPT !.sockets = [view.sockets EXCEPT ![k] = s], !.connected = b],
         calls' = calls
  PROVE  TerminalInv'
<1> DEFINE sockets == [view.sockets EXCEPT ![k] = s]
<1>1. /\ DOMAIN view' = {"sockets", "ws", "connected", "twice"}
      /\ view'.sockets = sockets /\ view'.ws = view.ws /\ view'.connected = b
      /\ view'.twice = view.twice
  BY DEF TerminalInv
<1>2. /\ sockets \in Seq({"connecting", "open"} \cup Ends) /\ Len(sockets) = Len(view.sockets)
      /\ DOMAIN sockets = DOMAIN view.sockets /\ sockets[k] = s
      /\ \A j \in DOMAIN view.sockets : j # k => sockets[j] = view.sockets[j]
  BY DEF TerminalInv
<1> HIDE DEF sockets
<1>3. b => \E j \in DOMAIN sockets : sockets[j] = "open"
  BY <1>2
<1>4. InFlight({"server", "xterm"}) <=> InFlight({"server", "xterm"})'
  BY DEF InFlight
<1> QED
  BY <1>1, <1>2, <1>3, <1>4 DEF TerminalInv, Ends

LEMMA TerminalStep ==
  ASSUME TerminalInv, V!On("Terminal"), V!Next, None \notin V!Views
  PROVE  TerminalInv'
<1> USE ServersConsole
<1>0. /\ ~V!On("Servers") /\ ~V!On("Files") /\ ~V!On("Monitor")
      /\ page # None /\ page \notin {"Monitor", None}
  BY DEF V!On, V!Views
<1>1. ASSUME V!handleReconnect PROVE TerminalInv'
  <2> DEFINE sockets == V!Closing(view.sockets, view.ws)
  <2>1. PICK b \in BOOLEAN : b = (view.twice \/ InFlight({"server", "xterm"}))
    OBVIOUS
  <2>2. /\ view' = [view EXCEPT !.sockets = sockets, !.connected = FALSE, !.twice = b]
        /\ Send(<<Call("xterm", None)>>)
    BY <1>1, <2>1 DEF V!handleReconnect
  <2>3. /\ sockets \in Seq({"connecting", "open"} \cup Ends)
        /\ Len(sockets) = Len(view.sockets) /\ DOMAIN sockets = DOMAIN view.sockets
        /\ \A k \in DOMAIN sockets :
             \/ k = view.ws /\ sockets[k] \in Ends
             \/ k # view.ws /\ sockets[k] = view.sockets[k]
    BY DEF TerminalInv, V!Closing, Ends
  <2> HIDE DEF sockets
  <2>4. /\ DOMAIN view' = {"sockets", "ws", "connected", "twice"}
        /\ view'.sockets = sockets /\ view'.ws = view.ws /\ view'.connected = FALSE
        /\ view'.twice = b
    BY <2>2 DEF TerminalInv
  <2>5. AreCalls(calls')
    BY <2>2, SendOne DEF TerminalInv
  <2>6. ~b => Lone({"server", "xterm"}, calls')
    BY <2>1, <2>2, LoneSend DEF TerminalInv
  <2>7. ~b => \A k \in DOMAIN sockets : sockets[k] \in Ends
    BY <2>1, <2>3 DEF TerminalInv
  <2> QED
    BY <2>3, <2>4, <2>5, <2>6, <2>7 DEF TerminalInv
<1>2. ASSUME V!UserActs PROVE TerminalInv'
  BY <1>0, <1>1, <1>2
     DEF V!UserActs, V!Search, V!handleAdd, V!OpenServerForm, V!CloseServerForm,
     V!handleReadKey, V!handleSave, V!handleEdit, V!handleDelete, V!handleTest, V!TouchServer,
     V!handleNavigate, V!handleGoUp, V!AskMkdir, V!AskRename, V!Dismiss,
     V!handlePathClick, V!handleMkdir, V!handleRename, V!handleUpload
<1>3. ASSUME NEW i \in DOMAIN calls, calls[i].op \in {"server", "xterm"}, Reply(i, <<>>)
      PROVE  /\ AreCalls(calls')
             /\ ~view.twice => /\ Lone({"server", "xterm"}, calls')
                               /\ ~InFlight({"server", "xterm"})'
  BY <1>3, ReplyNone, LoneReplyNone DEF TerminalInv
<1>4. ASSUME NEW i \in DOMAIN calls, NEW ok \in BOOLEAN, V!TerminalServerArrives(i, ok)
      PROVE  TerminalInv'
  <2>1. calls[i].op = "server" /\ view' = view
        /\ Reply(i, IF ok THEN <<Call("xterm", None)>> ELSE <<>>)
    BY <1>4 DEF V!TerminalServerArrives
  <2>2. CASE ok
    <3>1. Reply(i, <<Call("xterm", None)>>)
      BY <2>1, <2>2
    <3>2. AreCalls(calls')
      BY <3>1, ReplyOne DEF TerminalInv
    <3>3. ~view.twice => Lone({"server", "xterm"}, calls')
      BY <2>1, <3>1, LoneReply DEF TerminalInv
    <3>4. InFlight({"server", "xterm"})
      BY <2>1 DEF InFlight
    <3> QED
      BY <2>1, <3>2, <3>3, <3>4 DEF TerminalInv
  <2>3. CASE ~ok
    BY <1>3, <2>1, <2>3 DEF TerminalInv
  <2> QED
    BY <2>2, <2>3
<1>5. ASSUME NEW i \in DOMAIN calls, NEW ok \in BOOLEAN, V!initTerminal(i, ok)
      PROVE  TerminalInv'
  <2>1. calls[i].op = "xterm" /\ Reply(i, <<>>)
    BY <1>5 DEF V!initTerminal
  <2>2. CASE ~ok
    BY <1>3, <1>5, <2>1, <2>2 DEF V!initTerminal, TerminalInv
  <2>3. CASE ok
    <3> DEFINE sockets == Append(view.sockets, "connecting")
               ws == Len(view.sockets) + 1
    <3>1. view' = [view EXCEPT !.sockets = sockets, !.ws = ws]
      BY <1>5, <2>3 DEF V!initTerminal
    <3>2. /\ sockets \in Seq({"connecting", "open"} \cup Ends)
          /\ Len(sockets) = ws /\ ws \in 0 .. Len(sockets)
          /\ \A k \in DOMAIN sockets :
               k = ws \/ (k \in DOMAIN view.sockets /\ sockets[k] = view.sockets[k])
          /\ \A k \in DOMAIN view.sockets : k \in DOMAIN sockets /\ sockets[k] = view.sockets[k]
      BY DEF TerminalInv
    <3> HIDE DEF sockets, ws
    <3>3. /\ DOMAIN view' = {"sockets", "ws", "connected", "twice"}
          /\ view'.sockets = sockets /\ view'.ws = ws
          /\ view'.connected = view.connected /\ view'.twice = view.twice
      BY <3>1 DEF TerminalInv
    <3>4. InFlight({"server", "xterm"})
      BY <2>1 DEF InFlight
    <3>5. ~view.twice => \A k \in DOMAIN view.sockets : view.sockets[k] \in Ends
      BY <3>4 DEF TerminalInv
    <3> QED
      BY <1>3, <2>1, <3>2, <3>3, <3>5 DEF TerminalInv
  <2> QED
    BY <2>2, <2>3
<1>6. ASSUME NEW k, V!SocketOpens(k) \/ V!SocketCloses(k) PROVE TerminalInv'
  <2>1. /\ k \in DOMAIN view.sockets /\ calls' = calls
        /\ \/ /\ view.sockets[k] = "connecting"
              /\ view' = [view EXCEPT !.sockets = [view.sockets EXCEPT ![k] = "open"],
                                      !.connected = TRUE]
           \/ view' = [view EXCEPT !.sockets = [view.sockets EXCEPT ![k] = "closed"],
                                   !.connected = FALSE]
    BY <1>6 DEF V!SocketOpens, V!SocketCloses, TerminalInv
  <2> QED
    BY <2>1, SocketMoves DEF Ends
<1>7. ASSUME V!Arrivals PROVE TerminalInv'
  <2>1. ~V!MonitorTick
    BY <1>0 DEF V!MonitorTick
  <2>2. \A i : ~V!FilesServerArrives(i) /\ ~V!MonitorServerArrives(i)
    BY <1>0 DEF V!FilesServerArrives, V!MonitorServerArrives
  <2>3. \A i, ok : ~V!ServersArrive(i, ok) /\ ~V!KeyArrives(i, ok)
                   /\ ~V!ServerSaved(i, ok) /\ ~V!ServerTouched(i, ok)
                   /\ ~V!FilesArrive(i, ok) /\ ~V!FilesChanged(i, ok)
                   /\ ~V!fetchMetrics(i, ok)
    BY <1>0 DEF V!ServersArrive, V!KeyArrives, V!ServerSaved, V!ServerTouched,
       V!FilesArrive, V!FilesChanged, V!fetchMetrics
  <2> QED
    BY <1>4, <1>5, <1>6, <1>7, <2>1, <2>2, <2>3 DEF V!Arrivals
<1> QED
  BY <1>2, <1>7 DEF V!Next

MonitorInv ==
  /\ DOMAIN view = {"loading", "error", "timer"} /\ AreCalls(calls)
  /\ view.loading \in BOOLEAN /\ view.error \in BOOLEAN /\ view.timer \in BOOLEAN
  /\ view.loading => InFlight({"server", "firstMetrics"})

LEMMA MonitorStep ==
  ASSUME MonitorInv, V!On("Monitor"), V!Next, None \notin V!Views
  PROVE  MonitorInv'
<1> USE ServersConsole
<1>0. ~V!On("Servers") /\ ~V!On("Files") /\ ~V!On("Terminal") /\ page # None
  BY DEF V!On, V!Views
<1>1. ~V!UserActs
  BY <1>0
     DEF V!UserActs, V!Search, V!handleAdd, V!OpenServerForm, V!CloseServerForm,
     V!handleReadKey, V!handleSave, V!handleEdit, V!handleDelete, V!handleTest, V!TouchServer,
     V!handleNavigate, V!handleGoUp, V!AskMkdir, V!AskRename, V!Dismiss,
     V!handlePathClick, V!handleMkdir, V!handleRename, V!handleUpload, V!handleReconnect
<1>2. CASE V!MonitorTick
  <2>1. view' = view /\ Send(<<Call("metrics", None)>>)
    BY <1>2 DEF V!MonitorTick
  <2>2. AreCalls(calls') /\ \A ops : InFlight(ops) => InFlight(ops)'
    BY <2>1, SendOne DEF MonitorInv
  <2> QED
    BY <2>1, <2>2 DEF MonitorInv
<1>3. ASSUME NEW i \in DOMAIN calls, V!MonitorServerArrives(i) PROVE MonitorInv'
  <2>1. view' = view /\ Reply(i, <<Call("firstMetrics", None)>>)
    BY <1>3 DEF V!MonitorServerArrives
  <2>2. AreCalls(calls') /\ InFlight({"server", "firstMetrics"})'
    BY <2>1, ReplyOne DEF MonitorInv
  <2> QED
    BY <2>1, <2>2 DEF MonitorInv
<1>4. ASSUME NEW i \in DOMAIN calls, NEW ok \in BOOLEAN, V!fetchMetrics(i, ok)
      PROVE  MonitorInv'
  <2>1. PICK timer \in BOOLEAN : timer = (view.timer \/ calls[i].op = "firstMetrics")
    OBVIOUS
  <2>2. PICK error \in BOOLEAN : error = ~ok
    OBVIOUS
  <2>3. /\ view' = [view EXCEPT !.loading = FALSE, !.error = error, !.timer = timer]
        /\ Reply(i, <<>>)
    BY <1>0, <1>4, <2>1, <2>2 DEF V!fetchMetrics
  <2>4. AreCalls(calls')
    BY <2>3, ReplyNone DEF MonitorInv
  <2>5. /\ DOMAIN view' = {"loading", "error", "timer"}
        /\ view'.loading = FALSE /\ view'.error = error /\ view'.timer = timer
    BY <2>3 DEF MonitorInv
  <2> QED
    BY <2>4, <2>5 DEF MonitorInv
<1>5. ASSUME V!Arrivals PROVE MonitorInv'
  <2>1. \A k : ~V!SocketOpens(k) /\ ~V!SocketCloses(k) /\ ~V!FilesServerArrives(k)
    BY <1>0 DEF V!FilesServerArrives, V!SocketOpens, V!SocketCloses
  <2>2. \A i, ok : ~V!ServersArrive(i, ok) /\ ~V!KeyArrives(i, ok)
                   /\ ~V!ServerSaved(i, ok) /\ ~V!ServerTouched(i, ok)
                   /\ ~V!FilesArrive(i, ok) /\ ~V!FilesChanged(i, ok)
                   /\ ~V!TerminalServerArrives(i, ok) /\ ~V!initTerminal(i, ok)
    BY <1>0 DEF V!ServersArrive, V!KeyArrives, V!ServerSaved, V!ServerTouched,
       V!FilesArrive, V!FilesChanged, V!TerminalServerArrives, V!initTerminal
  <2> QED
    BY <1>2, <1>3, <1>4, <1>5, <2>1, <2>2 DEF V!Arrivals
<1> QED
  BY <1>1, <1>5 DEF V!Next

ServersInv ==
  /\ V!On("Servers") => ServerListInv
  /\ V!On("Files") => FilesInv
  /\ V!On("Terminal") => TerminalInv
  /\ V!On("Monitor") => MonitorInv

LEMMA OutsideServers ==
  ASSUME page' \notin V!Views PROVE ServersInv'
  BY DEF ServersInv, V!Views, V!On

LEMMA ServersStutter ==
  ASSUME ServersInv, UNCHANGED console PROVE ServersInv'
<1>1. page' = page /\ view' = view /\ calls' = calls /\ clicks' = clicks
  BY DEF console
<1>2. V!On("Servers") => ServerListInv'
  BY <1>1 DEF ServersInv, ServerListInv, InFlight
<1>3. V!On("Files") => FilesInv'
  BY <1>1 DEF ServersInv, FilesInv, InFlight
<1>4. V!On("Terminal") => TerminalInv'
  BY <1>1 DEF ServersInv, TerminalInv, InFlight
<1>5. V!On("Monitor") => MonitorInv'
  BY <1>1 DEF ServersInv, MonitorInv, InFlight
<1> QED
  BY <1>1, <1>2, <1>3, <1>4, <1>5 DEF ServersInv, V!On

LEMMA ServersMount ==
  ASSUME NEW p, NEW refs, NEW servers, NEW new PROVE
  V!Mount(p, refs, servers, new) <=> Mount(p, refs, servers, new)
  BY Zenon DEF V!Mount, Mount, V!Sent, Sent, V!Outdates, Outdates

LEMMA ServersEntered ==
  ASSUME V!Enter, V!ServersConstants PROVE ServersInv'
<1> USE ServersConsole, ServersMount
<1>1. CASE V!EnterServers
  <2>1. Mount("Servers",
              [search |-> None, loading |-> TRUE, rows |-> None, form |-> None, calm |-> TRUE],
              None, <<Call("servers", None)>>)
    BY <1>1 DEF V!EnterServers
  <2>2. /\ page' = "Servers" /\ DOMAIN view' = {"search", "loading", "rows", "form", "calm"}
        /\ view'.search = None /\ view'.loading = TRUE /\ view'.rows = None
        /\ view'.form = None /\ view'.calm = TRUE
    BY <2>1 DEF Mount
  <2>3. /\ AreCalls(calls') /\ InFlight({"servers"})'
        /\ \A o, a : Flying(o, a, calls') => o = "servers" /\ a = None
    BY <2>1, MountOne
  <2> QED
    BY <2>2, <2>3 DEF ServersInv, ServerListInv, Texts, V!On
<1>2. CASE V!EnterFiles
  <2>1. Mount("Files",
              [path |-> <<>>, listing |-> None, loading |-> FALSE, prompt |-> None,
               calm |-> TRUE],
              None, <<Call("server", None)>>)
    BY <1>2 DEF V!EnterFiles
  <2>2. /\ page' = "Files" /\ DOMAIN view' = {"path", "listing", "loading", "prompt", "calm"}
        /\ view'.path = <<>> /\ view'.loading = FALSE /\ view'.listing = None
        /\ view'.prompt = None /\ view'.calm = TRUE /\ clicks' = 0
    BY <2>1 DEF Mount
  <2>3. /\ AreCalls(calls') /\ \A o, a : Flying(o, a, calls') => o = "server" /\ a = None
    BY <2>1, MountOne
  <2>4. \A a : Asks("files", a, calls')
    BY <2>1, MountLone
  <2> QED
    BY <2>2, <2>3, <2>4 DEF ServersInv, FilesInv, V!ServersConstants, V!On
<1>3. CASE V!EnterTerminal
  <2>1. Mount("Terminal",
              [sockets |-> <<>>, ws |-> 0, connected |-> FALSE, twice |-> FALSE],
              None, <<Call("server", None)>>)
    BY <1>3 DEF V!EnterTerminal
  <2>2. /\ page' = "Terminal" /\ DOMAIN view' = {"sockets", "ws", "connected", "twice"}
        /\ view'.sockets = <<>> /\ view'.ws = 0 /\ view'.connected = FALSE
        /\ view'.twice = FALSE
    BY <2>1 DEF Mount
  <2>3. AreCalls(calls') /\ Lone({"server", "xterm"}, calls')
    BY <2>1, MountOne, MountLone
  <2>4. /\ view'.sockets \in Seq({"connecting", "open"} \cup Ends)
        /\ view'.ws \in 0 .. Len(view'.sockets) /\ DOMAIN view'.sockets = {}
    BY <2>2
  <2>5. TerminalInv'
    BY <2>2, <2>3, <2>4 DEF TerminalInv
  <2> QED
    BY <2>2, <2>5 DEF ServersInv, V!On
<1>4. CASE V!EnterMonitor
  <2>1. Mount("Monitor", [loading |-> TRUE, error |-> FALSE, timer |-> FALSE], None,
              <<Call("server", None)>>)
    BY <1>4 DEF V!EnterMonitor
  <2>2. /\ page' = "Monitor" /\ DOMAIN view' = {"loading", "error", "timer"}
        /\ view'.loading = TRUE /\ view'.error = FALSE /\ view'.timer = FALSE
    BY <2>1 DEF Mount
  <2>3. AreCalls(calls') /\ InFlight({"server", "firstMetrics"})'
    BY <2>1, MountOne
  <2> QED
    BY <2>2, <2>3 DEF ServersInv, MonitorInv, V!On
<1> QED
  BY <1>1, <1>2, <1>3, <1>4 DEF V!Enter

\* A view that was left has nothing but continuations, and what those make is known
\* to be late.
Kept == page' = page /\ (page = None => \A r \in world' : r \in world \/ r.late)

LEMMA ServersKeepPage ==
  ASSUME V!Next, None \notin V!Views
  PROVE  page \in V!Views \cup {None} /\ Kept
<1> USE DEF V!Views
<1>1. V!handleAdd \/ V!CloseServerForm \/ V!handleReadKey \/ V!handleSave
      \/ V!handleGoUp => page' = page
  BY DEF V!handleAdd, V!OpenServerForm, V!User, V!CloseServerForm, V!handleReadKey,
     V!handleSave, V!handleGoUp, V!loadFiles
<1>2. V!AskMkdir \/ V!AskRename \/ V!Dismiss \/ V!handleMkdir \/ V!handleRename => page' = page
  BY DEF V!AskMkdir, V!User, V!AskRename, V!Dismiss, V!handleMkdir, V!handleRename
<1>3. V!handleUpload \/ V!handleReconnect => page' = page
  BY DEF V!handleUpload, V!User, V!handleReconnect
<1>4. \A x : V!Search(x) \/ V!handleEdit(x) \/ V!handleDelete(x) \/ V!handleTest(x)
             \/ V!handleNavigate(x) => page' = page
  BY DEF V!Search, V!User, V!handleEdit, V!OpenServerForm, V!handleDelete, V!TouchServer,
     V!handleTest, V!handleNavigate, V!loadFiles
<1>5. \A x : V!handlePathClick(x) => page' = page
  BY DEF V!handlePathClick, V!loadFiles, V!User
<1>6. V!MonitorTick => Kept
  BY DEF V!MonitorTick, V!Answer, V!On, Kept
<1>7. \A i : V!FilesServerArrives(i) \/ V!MonitorServerArrives(i) \/ V!SocketOpens(i)
             \/ V!SocketCloses(i) => Kept
  BY DEF V!FilesServerArrives, V!Answer, V!MonitorServerArrives, V!SocketOpens,
     V!SocketCloses, V!On, Kept
<1>8. \A i, ok : V!ServersArrive(i, ok) \/ V!KeyArrives(i, ok) \/ V!ServerSaved(i, ok)
                 \/ V!ServerTouched(i, ok) \/ V!FilesArrive(i, ok) => Kept
  BY DEF V!ServersArrive, V!Answer, V!KeyArrives, V!ServerSaved, V!ServerTouched,
     V!FilesArrive, V!On, Kept
<1>9. \A i, ok : V!FilesChanged(i, ok) \/ V!TerminalServerArrives(i, ok)
                 \/ V!initTerminal(i, ok) \/ V!fetchMetrics(i, ok) => Kept
  BY DEF V!FilesChanged, V!Answer, V!TerminalServerArrives, V!initTerminal,
     V!fetchMetrics, V!On, V!Residue, V!Views, Kept
<1> QED
  BY <1>1, <1>2, <1>3, <1>4, <1>5, <1>6, <1>7, <1>8, <1>9 DEF V!Next,
     V!UserActs, V!Arrivals, V!Views, Kept

LEMMA ServersVisit ==
  ASSUME ServersInv, V!ServersConstants, [V!Enter \/ V!Leave \/ V!Next]_console
  PROVE  ServersInv'
<1>0. None \notin V!Views
  BY DEF V!ServersConstants
<1>1. CASE V!Leave
  <2>1. page' = None
    BY <1>1 DEF V!Leave, V!LeavePlain, V!LeaveTerminal, V!LeaveMonitor, V!LeaveWith
  <2> QED
    BY <1>0, <2>1, OutsideServers
<1>2. CASE V!Next
  <2>1. V!UserActs \/ V!Arrivals
    BY <1>2 DEF V!Next
  <2>2. CASE page \in V!Views
    <3>1. page' = page
      BY <1>0, <1>2, <2>2, ServersKeepPage DEF Kept
    <3> QED
      BY <1>0, <1>2, <2>2, <3>1, ServerListStep, FilesStep, TerminalStep, MonitorStep
         DEF ServersInv, V!On, V!Views
  <2>3. CASE page = None
    <3>1. page' = None
      BY <1>0, <1>2, <2>3, ServersKeepPage DEF Kept
    <3> QED
      BY <1>0, <3>1, OutsideServers
  <2> QED
    BY <1>2, <2>2, <2>3 DEF V!Next
<1> QED
  BY <1>1, <1>2, ServersEntered, ServersStutter

\* What server management promises, of its parts.
LEMMA ServersPromises ==
  ASSUME ServersInv
  PROVE  /\ V!TypeOK /\ V!BusyEnds
         /\ V!RenameKeepsDirectory /\ V!KeyOfItsForm /\ V!ConnectedHasSocket
<1> USE ServersConsole
<1>1. V!On("Servers") => ServerListInv
  BY DEF ServersInv
<1>2. V!On("Files") => FilesInv
  BY DEF ServersInv
<1>3. V!On("Terminal") => TerminalInv
  BY DEF ServersInv
<1>4. V!On("Monitor") => MonitorInv
  BY DEF ServersInv
<1>5. V!TypeOK
  <2>1. V!On("Servers") =>
          /\ view.search \in ServerSearches \cup {None}
          /\ view.rows \in ServerSearches \cup {None}
          /\ view.form \in V!FormType \cup {None}
          /\ {view.loading, view.calm} \subseteq BOOLEAN
    BY <1>1 DEF ServerListInv, Texts
  <2>2. V!On("Files") =>
          /\ view.path \in Paths /\ view.listing \in Paths \cup {None}
          /\ view.prompt \in [kind : {"mkdir", "rename"}, dir : Paths] \cup {None}
          /\ {view.loading, view.calm} \subseteq BOOLEAN
    BY <1>2 DEF FilesInv
  <2>3. V!On("Terminal") =>
          /\ view.sockets \in Seq({"connecting", "open", "closing", "closed"})
          /\ view.ws \in 0 .. Len(view.sockets)
          /\ {view.connected, view.twice} \subseteq BOOLEAN
    <3>1. {"connecting", "open", "closing", "closed"} = {"connecting", "open"} \cup Ends
      BY DEF Ends
    <3> QED
      BY <1>3, <3>1 DEF TerminalInv
  <2>4. V!On("Monitor") => {view.loading, view.error, view.timer} \subseteq BOOLEAN
    BY <1>4 DEF MonitorInv
  <2> QED
    BY <2>1, <2>2, <2>3, <2>4 DEF V!TypeOK
<1>6. V!BusyEnds
  BY <1>1, <1>2, <1>4 DEF V!BusyEnds, ServerListInv, FilesInv, MonitorInv
<1>7. V!RenameKeepsDirectory
  BY <1>2 DEF V!RenameKeepsDirectory, FilesInv, Flying
<1>8. V!KeyOfItsForm
  BY <1>1 DEF V!KeyOfItsForm, ServerListInv, Flying
<1>9. V!ConnectedHasSocket
  <2> SUFFICES ASSUME V!On("Terminal"), view.connected
               PROVE  /\ \E k \in DOMAIN view.sockets : view.sockets[k] = "open"
                      /\ view.twice \/ view.sockets[view.ws] = "open"
    BY DEF V!ConnectedHasSocket
  <2>1. PICK k \in DOMAIN view.sockets : view.sockets[k] = "open"
    BY <1>3 DEF TerminalInv
  <2>2. ~view.twice => k = view.ws
    BY <1>3, <2>1 DEF TerminalInv, Ends
  <2> QED
    BY <2>1, <2>2
<1> QED
  BY <1>5, <1>6, <1>7, <1>8, <1>9

\* A view that is left leaves no socket open but one made beside another.
LEMMA ServersLeave ==
  ASSUME ServersInv, V!Leave PROVE \A r \in world' : r.late
<1>1. CASE V!LeavePlain \/ V!LeaveMonitor
  BY <1>1 DEF V!LeavePlain, V!LeaveMonitor, V!LeaveWith
<1>2. CASE V!LeaveTerminal
  <2>1. TerminalInv
    BY <1>2 DEF V!LeaveTerminal, ServersInv
  <2>2. ASSUME NEW k \in DOMAIN view.sockets \ {view.ws},
               view.sockets[k] \in {"connecting", "open"}
        PROVE  view.twice
    BY <2>1, <2>2 DEF TerminalInv, Ends
  <2> DEFINE left == {k \in DOMAIN view.sockets \ {view.ws} :
                         view.sockets[k] \in {"connecting", "open"}}
  <2>3. world' = {V!Residue("socket", view.twice) : k \in left}
    BY <1>2 DEF V!LeaveTerminal, V!LeaveWith
  <2>4. left # {} => view.twice
    BY <2>2
  <2>5. \A b : V!Residue("socket", b).late = b
    BY DEF V!Residue
  <2> HIDE DEF left
  <2> QED
    BY <2>3, <2>4, <2>5
<1> QED
  BY <1>1, <1>2 DEF V!Leave

\* Server management alone.
ServerVisits == Init /\ [][V!Enter \/ V!Leave \/ V!Next]_console

LEMMA ServersInvariant ==
  ASSUME V!ServersConstants PROVE ServerVisits => []ServersInv
<1>1. Init => ServersInv
  BY DEF Init, ServersInv, V!On, V!ServersConstants, V!Views
<1>2. ServersInv /\ [V!Enter \/ V!Leave \/ V!Next]_console => ServersInv'
  BY ServersVisit
<1> QED
  BY <1>1, <1>2, PTL DEF ServerVisits

\* The terminal says "Connected" only with an open socket behind it, and what is typed
\* reaches that one, unless the user reconnected while a connection was being made:
\* however sockets open, close and are replaced.
THEOREM TerminalIsConnected ==
  ASSUME V!ServersConstants PROVE ServerVisits => []V!ConnectedHasSocket
  BY ServersInvariant, ServersPromises, PTL

\* A file is renamed in its directory, and a private key saved for the server whose
\* form asked for it, as long as no answer was overtaken or out of turn.
THEOREM ServersWriteTheirOwn ==
  ASSUME V!ServersConstants
  PROVE  ServerVisits => [](V!RenameKeepsDirectory /\ V!KeyOfItsForm)
  BY ServersInvariant, ServersPromises, PTL

\* No overlay of server management stays up without a call that will take it down.
THEOREM ServersNeverStuck ==
  ASSUME V!ServersConstants PROVE ServerVisits => []V!BusyEnds
  BY ServersInvariant, ServersPromises, PTL

-----------------------------------------------------------------------------
(* The settings views *)

CONSTANTS Ids, RowContents, TableSearches, PageNos, Probes

T == INSTANCE SettingsPages WITH Searches <- TableSearches, Contents <- RowContents

LEMMA SettingsConsole ==
  /\ \A new : T!Send(new) <=> Send(new)
  /\ \A i, new : T!Reply(i, new) <=> Reply(i, new)
  /\ \A op, arg : T!Call(op, arg) = Call(op, arg)
  /\ \A op, i : i \in T!Indices(op) <=> i \in DOMAIN calls /\ calls[i].op = op
  /\ \A ops : T!InFlight(ops) <=> InFlight(ops)
  /\ \A p, refs, servers, new : T!Mount(p, refs, servers, new) <=> Mount(p, refs, servers, new)
  /\ \A i, ok : T!Calmly(i, ok) <=> Calmly(i, ok)
  BY Zenon DEF T!Send, Send, T!Reply, Reply, T!Sent, Sent, T!Outdates, Outdates, T!Without,
     Without, T!Call, Call, T!Indices, T!InFlight, InFlight, T!Mount, Mount, T!Calmly, Calmly

TableFields == {"rows", "page", "search", "typing", "loading", "edit", "form", "calm", "tab",
                "value", "edited", "saving"}

SettingValues == {"stored", "default", "typed", "read"}

RowSets == [Ids -> RowContents \cup {None}]

\* What every view of the settings keeps to.
SettingsShape ==
  /\ AreCalls(calls) /\ view.calm \in BOOLEAN /\ view.loading \in BOOLEAN
  /\ world = [rows |-> world.rows, value |-> world.value, store |-> world.store]
  /\ world.rows \in RowSets /\ world.value \in SettingValues /\ world.store \in SettingValues

\* A table whose last load for page, text and what the server holds is due, or shown.
Wanted(text) == [page |-> view.page, search |-> text, seen |-> world.rows]

RowsAsked(text) ==
  /\ view.typing \/ text = view.search
  /\ Asks("list", Wanted(text), calls)
  /\ view.tab = "general" \/ view.rows = Wanted(text) \/ Latest("list", calls)

RowsDue == view.calm => \E text : RowsAsked(text)

RowCalls ==
  /\ \A a : Flying("list", a, calls) =>
       a = [page |-> a.page, search |-> a.search, seen |-> a.seen] /\ a.seen \in RowSets
  /\ \A a : Flying("save", a, calls) =>
       a.id \in Ids \cup {None} /\ a.form \in T!FormType /\ a.id = a.form.of
  /\ \A a : Flying("delete", a, calls) => a \in Ids

TableInv ==
  /\ DOMAIN view = TableFields
  /\ view.rows = None \/ view.rows.seen \in RowSets
  /\ view.page \in PageNos /\ view.search \in TableSearches \cup {None}
  /\ view.edit \in Ids \cup {None} /\ view.form \in T!FormType \cup {None}
  /\ view.typing \in BOOLEAN
  /\ view.form # None => view.edit = view.form.of
  /\ view.loading => InFlight({"list"})
  /\ RowCalls /\ RowsDue

\* A form that nobody edited: its values come back, are on their way to the server
\* or are what that holds.
FormShown ==
  /\ view.calm => \A a : Flying("settings", a, calls) => a = world.value
  /\ view.calm /\ ~view.edited => Asks("put", view.value, calls)
  /\ view.calm /\ ~view.edited /\ ~(page = "Settings" /\ view.tab = "notifications") =>
       view.value = world.value \/ Latest("put", calls) \/ InFlight({"settings"})

FormInv ==
  /\ view.value \in SettingValues /\ view.edited \in BOOLEAN
  /\ \A a : Flying("settings", a, calls) \/ Flying("put", a, calls) => a \in SettingValues
  /\ FormShown

EnvironmentFields == {"value", "edited", "loading", "saving", "testing", "reading", "listing",
                      "calm"}

EnvironmentInv ==
  /\ DOMAIN view = EnvironmentFields
  /\ view.saving \in BOOLEAN /\ view.reading \in BOOLEAN /\ view.listing \in BOOLEAN
  /\ view.testing \in Probes \cup {None}
  /\ view.loading => InFlight({"settings"})
  /\ view.saving => InFlight({"put", "store"})
  /\ view.testing # None => Flying("probe", view.testing, calls)
  /\ view.reading => InFlight({"kubeconfig"})
  /\ view.listing => InFlight({"namespaces"})
  /\ view.calm => world.store = world.value \/ InFlight({"store"})

SettingsInv ==
  /\ page \in T!Tables \cup T!Forms => SettingsShape
  /\ page \in T!Tables => TableInv
  /\ page \in T!Forms => FormInv
  /\ page = "Environment" => EnvironmentInv

\* A step that does not concern the table.
TableKept ==
  /\ DOMAIN view' = TableFields /\ view'.rows = view.rows /\ view'.page = view.page
  /\ view'.search = view.search /\ view'.typing = view.typing /\ view'.edit = view.edit
  /\ view'.form = view.form /\ view'.tab = view.tab
  /\ (view'.loading => view.loading) /\ (view'.calm => view.calm)
  /\ world'.rows = world.rows

LEMMA TableLeft ==
  ASSUME TableInv, TableKept, \A op \in {"list", "save", "delete"} : LeftAlone(op)
  PROVE  TableInv'
<1>1. RowCalls'
  BY DEF TableInv, RowCalls, LeftAlone
<1>2. RowsDue'
  <2> SUFFICES ASSUME view.calm PROVE \E text : RowsAsked(text)'
    BY DEF RowsDue, TableKept
  <2>1. PICK text : RowsAsked(text)
    BY DEF TableInv, RowsDue
  <2>2. Wanted(text)' = Wanted(text)
    BY DEF TableKept, Wanted
  <2>3. Asks("list", Wanted(text), calls')
    BY <2>1 DEF RowsAsked, LeftAlone
  <2> QED
    BY <2>1, <2>2, <2>3 DEF RowsAsked, TableKept, LeftAlone
<1>3. view'.loading => InFlight({"list"})'
  BY FlightFlies DEF TableInv, TableKept, LeftAlone
<1> QED
  BY <1>1, <1>2, <1>3 DEF TableInv, TableKept

\* A step that does not concern the form over the settings.
FormKept ==
  /\ view'.value = view.value /\ view'.edited = view.edited /\ (view'.calm => view.calm)
  /\ page' = page /\ (page = "Settings" => view'.tab = view.tab)
  /\ world'.value = world.value

LEMMA FormLeft ==
  ASSUME FormInv, FormKept, \A op \in {"settings", "put"} : LeftAlone(op)
  PROVE  FormInv'
<1>1. InFlight({"settings"}) => InFlight({"settings"})'
  BY FlightFlies DEF LeftAlone
<1>2. \A a : Flying("settings", a, calls') \/ Flying("put", a, calls') => a \in SettingValues
  BY DEF FormInv, LeftAlone
<1>3. view'.calm => \A a : Flying("settings", a, calls') => a = world'.value
  BY DEF FormInv, FormShown, FormKept, LeftAlone
<1>4. view'.calm /\ ~view'.edited => Asks("put", view'.value, calls')
  BY DEF FormInv, FormShown, FormKept, LeftAlone
<1>5. view'.calm /\ ~view'.edited /\ ~(page' = "Settings" /\ view'.tab = "notifications") =>
        view'.value = world'.value \/ Latest("put", calls') \/ InFlight({"settings"})'
  BY <1>1 DEF FormInv, FormShown, FormKept, LeftAlone
<1> QED
  BY <1>2, <1>3, <1>4, <1>5 DEF FormInv, FormShown, FormKept

LEMMA TableOnly ==
  ASSUME SettingsInv, page \in T!Tables, page' = page, SettingsShape', TableInv', FormKept,
         LeftAlone("settings"), LeftAlone("put")
  PROVE  SettingsInv'
<1>1. page # "Environment"
  BY DEF T!Tables
<1>2. page \in T!Forms => FormInv'
  BY FormLeft DEF SettingsInv
<1> QED
  BY <1>1, <1>2 DEF SettingsInv

\* What a table asks for when its rows are loaded.
ListOf(refs, rows) == [page |-> refs.page, search |-> refs.search, seen |-> rows]

\* The rows are asked for: the step sends a call for them, beside others or instead of one.
ListSent(refs, rows) ==
  /\ AreCalls(calls')
  /\ \A a : Flying("list", a, calls') => Flying("list", a, calls) \/ a = ListOf(refs, rows)
  /\ \A o, a : Flying(o, a, calls') => Flying(o, a, calls) \/ o = "list"
  /\ Asks("list", ListOf(refs, rows), calls') /\ Latest("list", calls') /\ InFlight({"list"})'

LEMMA ListSends ==
  ASSUME AreCalls(calls), NEW refs, NEW rows, T!Send(<<T!List(refs, rows)>>)
  PROVE  ListSent(refs, rows) /\ \A o : o # "list" => LeftAlone(o)
<1>1. T!List(refs, rows) = Call("list", ListOf(refs, rows))
  BY SettingsConsole DEF T!List, ListOf
<1> HIDE DEF ListOf
<1>2. Send(<<Call("list", ListOf(refs, rows))>>)
  BY <1>1, SettingsConsole
<1> QED
  BY <1>2, SendOne, SendAsks, SendLatest, SendLeaves DEF ListSent

LEMMA ListReplies ==
  ASSUME AreCalls(calls), NEW i \in DOMAIN calls, NEW refs, NEW rows,
         T!Reply(i, <<T!List(refs, rows)>>)
  PROVE  ListSent(refs, rows) /\ \A o : o \notin {"list", calls[i].op} => LeftAlone(o)
<1>1. T!List(refs, rows) = Call("list", ListOf(refs, rows))
  BY SettingsConsole DEF T!List, ListOf
<1> HIDE DEF ListOf
<1>2. Reply(i, <<Call("list", ListOf(refs, rows))>>)
  BY <1>1, SettingsConsole
<1> QED
  BY <1>2, ReplyOne, ReplyAsks, ReplyOneLatest, ReplyOneLeaves DEF ListSent

\* The refs that a load of the rows can find: those of the view, perhaps with another
\* page, or with the form closed.
Loads(refs) ==
  /\ DOMAIN refs = TableFields /\ refs.rows = view.rows /\ refs.search = view.search
  /\ refs.edit = view.edit /\ refs.tab = view.tab /\ refs.value = view.value
  /\ refs.edited = view.edited /\ refs.calm = view.calm
  /\ refs.page \in PageNos /\ refs.form \in {view.form, None}

LEMMA TableReloads ==
  ASSUME SettingsInv, page \in T!Tables, page' = page, NEW refs, NEW rows \in RowSets, Loads(refs),
         view' = T!Reload(refs, rows), ListSent(refs, rows),
         world' = [world EXCEPT !.rows = rows],
         LeftAlone("settings"), LeftAlone("put")
  PROVE  SettingsInv'
<1>1. SettingsShape /\ TableInv
  BY DEF SettingsInv
<1>2. PICK over \in BOOLEAN : over = (page \in {"Apps", "BuildConfigs"})
  BY MemberOrNot
<1>3. view' = [refs EXCEPT !.loading = over, !.typing = FALSE]
  BY <1>2 DEF T!Reload, T!Overlaid
<1>4. /\ DOMAIN view' = TableFields /\ view'.rows = view.rows /\ view'.search = view.search
      /\ view'.edit = view.edit /\ view'.tab = view.tab /\ view'.value = view.value
      /\ view'.edited = view.edited /\ view'.calm = view.calm
      /\ view'.page = refs.page /\ view'.form = refs.form
      /\ view'.loading = over /\ view'.typing = FALSE
  BY <1>3 DEF Loads, TableFields
<1>5. /\ world'.rows = rows /\ world'.value = world.value /\ world'.store = world.store
      /\ world' = [rows |-> world'.rows, value |-> world'.value, store |-> world'.store]
  BY <1>1 DEF SettingsShape
<1>6. SettingsShape'
  BY <1>1, <1>4, <1>5 DEF SettingsShape, ListSent
<1>7. RowCalls'
  <2>1. /\ ListOf(refs, rows) = [page |-> ListOf(refs, rows).page,
                                 search |-> ListOf(refs, rows).search,
                                 seen |-> ListOf(refs, rows).seen]
        /\ ListOf(refs, rows).seen = rows
    BY DEF ListOf
  <2> QED
    BY <1>1, <2>1 DEF TableInv, RowCalls, ListSent
<1>8. RowsDue'
  <2>3. PICK text : text = view.search
    OBVIOUS
  <2>1. Wanted(text)' = ListOf(refs, rows)
    BY <1>4, <1>5, <2>3 DEF Wanted, ListOf, Loads
  <2>2. RowsAsked(text)'
    BY <1>4, <2>1, <2>3 DEF RowsAsked, ListSent
  <2> QED
    BY <2>2 DEF RowsDue
<1>9. TableInv'
  <2>1. view'.form # None => view'.edit = view'.form.of
    BY <1>1, <1>4 DEF TableInv, Loads
  <2>2. view'.loading => InFlight({"list"})'
    BY DEF ListSent
  <2>3. /\ DOMAIN view' = TableFields
        /\ view'.rows = None \/ view'.rows.seen \in RowSets
        /\ view'.page \in PageNos /\ view'.search \in TableSearches \cup {None}
        /\ view'.edit \in Ids \cup {None} /\ view'.form \in T!FormType \cup {None}
        /\ view'.typing \in BOOLEAN
    BY <1>1, <1>4 DEF TableInv, Loads
  <2> QED
    BY <1>7, <1>8, <2>1, <2>2, <2>3 DEF TableInv
<1>10. FormKept
  BY <1>4, <1>5 DEF FormKept
<1> QED
  BY <1>6, <1>9, <1>10, TableOnly

\* The controls of the table.
LEMMA TableControls ==
  ASSUME SettingsInv, T!SettingsConstants, page \in T!Tables,
         \/ T!handleSearch \/ T!handleSizeChange \/ \E n \in PageNos : T!handlePageChange(n)
  PROVE  SettingsInv'
<1>1. SettingsShape /\ TableInv
  BY DEF SettingsInv
<1>2. PICK n \in PageNos : T!Reloads([view EXCEPT !.page = n])
  BY DEF T!handleSearch, T!handleSizeChange, T!handlePageChange, T!SettingsConstants
<1> DEFINE refs == [view EXCEPT !.page = n]
<1>3. /\ view' = T!Reload(refs, world.rows) /\ T!Send(<<T!List(refs, world.rows)>>)
      /\ page' = page /\ world' = world
  BY <1>2 DEF T!Reloads, T!User
<1>4. Loads(refs)
  BY <1>1 DEF TableInv, Loads, TableFields
<1> HIDE DEF refs
<1>5. ListSent(refs, world.rows) /\ LeftAlone("settings") /\ LeftAlone("put")
  BY <1>1, <1>3, ListSends DEF SettingsShape
<1>6. world' = [world EXCEPT !.rows = world.rows] /\ world.rows \in RowSets
  BY <1>1, <1>3 DEF SettingsShape
<1> QED
  BY <1>3, <1>4, <1>5, <1>6, TableReloads

\* Steps that only open, fill or close the form of a row.
LEMMA RowFormMoves ==
  ASSUME SettingsInv, page \in T!Tables, page' = page, calls' = calls, world' = world,
         NEW edit \in Ids \cup {None}, NEW form \in T!FormType \cup {None},
         form # None => edit = form.of,
         view' = [view EXCEPT !.edit = edit, !.form = form]
  PROVE  SettingsInv'
<1>1. SettingsShape /\ TableInv
  BY DEF SettingsInv
<1>2. /\ DOMAIN view' = TableFields /\ view'.rows = view.rows /\ view'.page = view.page
      /\ view'.search = view.search /\ view'.typing = view.typing /\ view'.edit = edit
      /\ view'.form = form /\ view'.tab = view.tab /\ view'.loading = view.loading
      /\ view'.calm = view.calm /\ view'.value = view.value /\ view'.edited = view.edited
  BY <1>1 DEF TableInv, TableFields
<1>3. SettingsShape'
  BY <1>1, <1>2 DEF SettingsShape
<1>4. RowCalls' /\ (InFlight({"list"}) => InFlight({"list"})')
  BY <1>1 DEF TableInv, RowCalls, InFlight
<1>5. RowsDue'
  BY <1>1, <1>2 DEF TableInv, RowsDue, RowsAsked, Wanted
<1>6. TableInv'
  BY <1>1, <1>2, <1>4, <1>5 DEF TableInv
<1>7. FormKept
  BY <1>2 DEF FormKept
<1> QED
  BY <1>3, <1>6, <1>7, AllLeft, TableOnly

LEMMA RowForms ==
  ASSUME SettingsInv, page \in T!Tables,
         \/ T!handleAdd \/ T!CloseForm \/ \E c \in RowContents : T!FillForm(c)
         \/ \E id \in Ids : T!handleEdit(id)
  PROVE  SettingsInv'
<1>1. SettingsShape /\ TableInv
  BY DEF SettingsInv
<1>2. CASE T!handleAdd
  <2> DEFINE form == [of |-> None, content |-> None]
  <2>1. form \in T!FormType /\ form.of = None
    BY DEF T!FormType
  <2> HIDE DEF form
  <2>2. /\ view' = [view EXCEPT !.edit = None, !.form = form]
        /\ calls' = calls /\ page' = page /\ world' = world
    BY <1>2 DEF T!handleAdd, T!User, form
  <2> QED
    BY <2>1, <2>2, RowFormMoves
<1>3. CASE T!CloseForm
  <2>1. view' = [view EXCEPT !.edit = view.edit, !.form = None]
    <3>1. view' = [view EXCEPT !.form = None]
      BY <1>3 DEF T!CloseForm
    <3> QED
      BY <1>1, <3>1 DEF TableInv, TableFields
  <2>2. calls' = calls /\ page' = page /\ world' = world /\ view.edit \in Ids \cup {None}
    BY <1>1, <1>3 DEF T!CloseForm, T!User, TableInv
  <2> QED
    BY <2>1, <2>2, RowFormMoves
<1>4. ASSUME NEW c \in RowContents, T!FillForm(c) PROVE SettingsInv'
  <2>1. /\ view.form \in T!FormType /\ view.edit = view.form.of
        /\ view.edit \in Ids \cup {None}
    BY <1>1, <1>4 DEF T!FillForm, TableInv
  <2>2. PICK form : form = [view.form EXCEPT !.content = c]
    OBVIOUS
  <2>3. form \in T!FormType /\ form.of = view.form.of
    BY <2>1, <2>2 DEF T!FormType
  <2>4. view' = [view EXCEPT !.edit = view.edit, !.form = form]
    <3>1. view' = [view EXCEPT !.form = form]
      BY <1>4, <2>2 DEF T!FillForm
    <3> QED
      BY <1>1, <3>1 DEF TableInv, TableFields
  <2>5. calls' = calls /\ page' = page /\ world' = world
    BY <1>4 DEF T!FillForm
  <2> QED
    BY <2>1, <2>3, <2>4, <2>5, RowFormMoves
<1>5. ASSUME NEW id \in Ids, T!handleEdit(id) PROVE SettingsInv'
  <2> DEFINE form == [of |-> id, content |-> view.rows.seen[id]]
  <2>1. view.rows # None /\ view.rows.seen \in RowSets
    BY <1>1, <1>5 DEF T!handleEdit, T!OnRow, TableInv
  <2>2. form \in T!FormType /\ form.of = id
    BY <2>1 DEF T!FormType, RowSets
  <2> HIDE DEF form
  <2>3. /\ view' = [view EXCEPT !.edit = id, !.form = form]
        /\ calls' = calls /\ page' = page /\ world' = world
    BY <1>5 DEF T!handleEdit, T!User, form
  <2> QED
    BY <2>2, <2>3, RowFormMoves
<1> QED
  BY <1>2, <1>3, <1>4, <1>5

\* The text of the box is not asked for before it is entered.
LEMMA TableTyped ==
  ASSUME SettingsInv, page \in T!Tables, NEW entry \in TableSearches, T!TypeSearch(entry)
  PROVE  SettingsInv'
<1>1. SettingsShape /\ TableInv
  BY DEF SettingsInv
<1>2. /\ view' = [view EXCEPT !.search = entry, !.typing = TRUE]
      /\ calls' = calls /\ page' = page /\ world' = world
  BY DEF T!TypeSearch, T!User
<1>3. /\ DOMAIN view' = TableFields /\ view'.rows = view.rows /\ view'.page = view.page
      /\ view'.search = entry /\ view'.typing = TRUE /\ view'.edit = view.edit
      /\ view'.form = view.form /\ view'.tab = view.tab /\ view'.loading = view.loading
      /\ view'.calm = view.calm /\ view'.value = view.value /\ view'.edited = view.edited
  BY <1>1, <1>2 DEF TableInv, TableFields
<1>4. SettingsShape'
  BY <1>1, <1>2, <1>3 DEF SettingsShape
<1>5. RowCalls' /\ (InFlight({"list"}) => InFlight({"list"})')
  BY <1>1, <1>2 DEF TableInv, RowCalls, InFlight
<1>6. RowsDue'
  BY <1>1, <1>2, <1>3 DEF TableInv, RowsDue, RowsAsked, Wanted
<1>7. TableInv'
  BY <1>1, <1>3, <1>5, <1>6 DEF TableInv
<1>8. FormKept
  BY <1>2, <1>3 DEF FormKept
<1> QED
  BY <1>2, <1>4, <1>7, <1>8, AllLeft, TableOnly

\* The calls for other things than rows and settings, as a table sends them.
LEMMA RowCallSent ==
  ASSUME SettingsInv, page \in T!Tables, page' = page, view' = view, world' = world,
         NEW op \in {"save", "delete", "test"}, NEW arg, Send(<<Call(op, arg)>>),
         op = "save" => arg.id \in Ids \cup {None} /\ arg.form \in T!FormType /\ arg.id = arg.form.of,
         op = "delete" => arg \in Ids
  PROVE  SettingsInv'
<1>1. SettingsShape /\ TableInv
  BY DEF SettingsInv
<1>2. /\ AreCalls(calls')
      /\ \A o, a : Flying(o, a, calls') <=> Flying(o, a, calls) \/ (o = op /\ a = arg)
      /\ \A ops : InFlight(ops) => InFlight(ops)'
  BY <1>1, SendOne DEF SettingsShape
<1>3. LeftAlone("list") /\ LeftAlone("settings") /\ LeftAlone("put")
  BY <1>1, SendLeaves DEF SettingsShape
<1>4. SettingsShape'
  BY <1>1, <1>2 DEF SettingsShape
<1>5. RowCalls'
  BY <1>1, <1>2 DEF TableInv, RowCalls
<1>6. RowsDue'
  BY <1>1, <1>3 DEF TableInv, RowsDue, RowsAsked, Wanted, LeftAlone
<1>7. TableInv'
  BY <1>1, <1>2, <1>5, <1>6 DEF TableInv
<1> QED
  BY <1>3, <1>4, <1>7, TableOnly DEF FormKept

LEMMA RowSends ==
  ASSUME SettingsInv, page \in T!Tables,
         T!handleSave \/ \E id \in Ids : T!handleDelete(id) \/ T!handleTestNotify(id)
  PROVE  SettingsInv'
<1>1. CASE T!handleSave
  <2> DEFINE arg == [id |-> view.edit, form |-> view.form]
  <2>1. view.form \in T!FormType /\ view.edit = view.form.of /\ view.edit \in Ids \cup {None}
    BY <1>1 DEF T!handleSave, SettingsInv, TableInv
  <2>2. Send(<<Call("save", arg)>>)
    BY <1>1, SettingsConsole DEF T!handleSave
  <2>3. arg.id = view.edit /\ arg.form = view.form
    OBVIOUS
  <2> HIDE DEF arg
  <2>4. page' = page /\ view' = view /\ world' = world
    BY <1>1 DEF T!handleSave, T!User
  <2> QED
    BY <2>1, <2>2, <2>3, <2>4, RowCallSent
<1>2. ASSUME NEW id \in Ids, T!handleDelete(id) PROVE SettingsInv'
  <2>1. Send(<<Call("delete", id)>>) /\ page' = page /\ view' = view /\ world' = world
    BY <1>2, SettingsConsole DEF T!handleDelete, T!User
  <2> QED
    BY <2>1, RowCallSent
<1>3. ASSUME NEW id \in Ids, T!handleTestNotify(id) PROVE SettingsInv'
  <2>1. Send(<<Call("test", id)>>) /\ page' = page /\ view' = view /\ world' = world
    BY <1>3, SettingsConsole DEF T!handleTestNotify, T!User
  <2> QED
    BY <2>1, RowCallSent
<1> QED
  BY <1>1, <1>2, <1>3

LEMMA TestEnds ==
  ASSUME SettingsInv, NEW i \in DOMAIN calls, T!TestAnswered(i) PROVE SettingsInv'
<1>1. /\ page = "Settings" /\ page \in T!Tables /\ page' = page /\ view' = view /\ world' = world
      /\ calls[i].op = "test" /\ Reply(i, <<>>)
  BY SettingsConsole DEF T!TestAnswered, T!On, T!Answer, T!Tables
<1>2. SettingsShape /\ TableInv
  BY <1>1 DEF SettingsInv
<1>3. \A o : o # "test" => LeftAlone(o)
  BY <1>1, <1>2, ReplyNoneLeaves DEF SettingsShape
<1>4. AreCalls(calls')
  BY <1>1, <1>2, ReplyNone DEF SettingsShape
<1>5. SettingsShape'
  BY <1>1, <1>2, <1>4 DEF SettingsShape
<1>6. TableInv'
  BY <1>1, <1>2, <1>3, TableLeft DEF TableKept, TableInv
<1> QED
  BY <1>1, <1>3, <1>5, <1>6, TableOnly DEF FormKept

\* The rows as they were served some time since they were asked for.
LEMMA RowsShown ==
  ASSUME SettingsInv, NEW i \in DOMAIN calls, NEW ok \in BOOLEAN, T!RowsArrive(i, ok)
  PROVE  SettingsInv'
<1>1. /\ page \in T!Tables /\ page' = page /\ world' = world
      /\ calls[i].op = "list" /\ Reply(i, <<>>)
  BY SettingsConsole DEF T!RowsArrive, T!Answer
<1>2. SettingsShape /\ TableInv
  BY <1>1 DEF SettingsInv
<1> DEFINE arg == calls[i].arg
<1>3. /\ arg = [page |-> arg.page, search |-> arg.search, seen |-> arg.seen]
      /\ arg.seen \in RowSets
  <2>1. Flying("list", arg, calls)
    BY <1>1 DEF Flying
  <2> HIDE DEF arg
  <2> QED
    BY <1>2, <2>1 DEF TableInv, RowCalls
<1>4. PICK calm \in BOOLEAN : calm = T!Calmly(i, ok)
  <2>1. T!Calmly(i, ok) \in BOOLEAN
    BY DEF T!Calmly
  <2> QED
    BY <2>1
<1>5. calm => view.calm /\ ok /\ calls[i].last
  BY <1>4 DEF T!Calmly
<1>6. PICK served \in {arg.seen, world.rows} :
         view' = [view EXCEPT !.rows = IF ok THEN [arg EXCEPT !.seen = served] ELSE None,
                              !.loading = FALSE, !.calm = calm]
  BY <1>4 DEF T!RowsArrive
<1> HIDE DEF arg
<1>7. PICK rows : /\ rows = IF ok THEN [arg EXCEPT !.seen = served] ELSE None
                  /\ view' = [view EXCEPT !.rows = rows, !.loading = FALSE, !.calm = calm]
  BY <1>6
<1>8. /\ DOMAIN view' = TableFields /\ view'.rows = rows /\ view'.page = view.page
      /\ view'.search = view.search /\ view'.typing = view.typing /\ view'.edit = view.edit
      /\ view'.form = view.form /\ view'.tab = view.tab /\ view'.loading = FALSE
      /\ view'.calm = calm /\ view'.value = view.value /\ view'.edited = view.edited
  BY <1>2, <1>7 DEF TableInv, TableFields
<1>9. rows = None \/ rows.seen \in RowSets
  BY <1>2, <1>3, <1>7 DEF SettingsShape
<1>10. /\ AreCalls(calls')
       /\ \A o, a : Flying(o, a, calls') => Flying(o, a, calls)
       /\ \A o : o # "list" => LeftAlone(o)
       /\ \A o, a : Asks(o, a, calls) => Asks(o, a, calls')
  BY <1>1, <1>2, ReplyNone, ReplyNoneLeaves, ReplyAsksNone DEF SettingsShape
<1>11. SettingsShape'
  BY <1>1, <1>2, <1>8, <1>10 DEF SettingsShape
<1>12. RowCalls'
  BY <1>2, <1>10 DEF TableInv, RowCalls
<1>13. RowsDue'
  <2> SUFFICES ASSUME calm PROVE \E text : RowsAsked(text)'
    BY <1>8 DEF RowsDue
  <2>1. PICK text : RowsAsked(text)
    BY <1>2, <1>5 DEF TableInv, RowsDue
  <2>2. arg = Wanted(text)
    BY <1>1, <1>5, <2>1 DEF RowsAsked, Asks, arg
  <2>3. rows = Wanted(text)
    BY <1>5, <1>7, <2>2 DEF Wanted
  <2>4. Wanted(text)' = Wanted(text)
    BY <1>1, <1>8 DEF Wanted
  <2> QED
    BY <1>8, <1>10, <2>1, <2>3, <2>4 DEF RowsAsked
<1>14. TableInv'
  BY <1>2, <1>8, <1>9, <1>12, <1>13 DEF TableInv
<1>15. FormKept
  BY <1>1, <1>5, <1>8 DEF FormKept
<1> QED
  BY <1>1, <1>10, <1>11, <1>14, <1>15, TableOnly

\* The answer to a write, whatever it wrote: a success is followed by a load, and
\* what a failure may have written makes the view uneasy.
LEMMA RowsWritten ==
  ASSUME SettingsInv, page \in T!Tables, NEW i \in DOMAIN calls, calls[i].op \in {"save", "delete"},
         NEW ok \in BOOLEAN, NEW rows \in RowSets, NEW refs, Loads(refs),
         T!Wrote(i, ok, rows, refs)
  PROVE  SettingsInv'
<1>1. SettingsShape /\ TableInv
  BY DEF SettingsInv
<1>2. world' = [world EXCEPT !.rows = rows] /\ page' = page
  BY DEF T!Wrote, T!Writes
<1>3. CASE ok
  <2>1. view' = T!Reload(refs, rows) /\ T!Reply(i, <<T!List(refs, rows)>>)
    BY <1>3 DEF T!Wrote
  <2>2. ListSent(refs, rows) /\ LeftAlone("settings") /\ LeftAlone("put")
    BY <1>1, <2>1, ListReplies DEF SettingsShape
  <2> QED
    BY <1>2, <2>1, <2>2, TableReloads
<1>4. CASE ~ok
  <2>1. PICK calm \in BOOLEAN : calm = (view.calm /\ rows = world.rows)
    <3>1. (view.calm /\ rows = world.rows) \in BOOLEAN
      OBVIOUS
    <3> QED
      BY <3>1
  <2>2. view' = [view EXCEPT !.calm = calm] /\ Reply(i, <<>>)
    BY <1>4, <2>1, SettingsConsole DEF T!Wrote
  <2>3. /\ DOMAIN view' = TableFields /\ view'.rows = view.rows /\ view'.page = view.page
        /\ view'.search = view.search /\ view'.typing = view.typing /\ view'.edit = view.edit
        /\ view'.form = view.form /\ view'.tab = view.tab /\ view'.loading = view.loading
        /\ view'.calm = calm /\ view'.value = view.value /\ view'.edited = view.edited
    BY <1>1, <2>2 DEF TableInv, TableFields
  <2>4. /\ AreCalls(calls')
        /\ \A o, a : Flying(o, a, calls') => Flying(o, a, calls)
        /\ \A o : o \notin {"save", "delete"} => LeftAlone(o)
    BY <1>1, <2>2, ReplyNone, ReplyNoneLeaves DEF SettingsShape
  <2>5. /\ world'.rows = rows /\ world'.value = world.value /\ world'.store = world.store
        /\ world' = [rows |-> world'.rows, value |-> world'.value, store |-> world'.store]
    BY <1>1, <1>2 DEF SettingsShape
  <2>6. SettingsShape'
    BY <1>1, <2>3, <2>4, <2>5 DEF SettingsShape
  <2>7. RowCalls'
    BY <1>1, <2>4 DEF TableInv, RowCalls
  <2>8. RowsDue'
    <3> SUFFICES ASSUME calm PROVE \E text : RowsAsked(text)'
      BY <2>3 DEF RowsDue
    <3>1. PICK text : RowsAsked(text)
      BY <1>1, <2>1 DEF TableInv, RowsDue
    <3>2. Wanted(text)' = Wanted(text)
      BY <2>1, <2>3, <2>5 DEF Wanted
    <3>3. LeftAlone("list")
      BY <2>4
    <3> QED
      BY <2>3, <3>1, <3>2, <3>3 DEF RowsAsked, LeftAlone
  <2>9. view'.loading => InFlight({"list"})'
    <3>1. LeftAlone("list")
      BY <2>4
    <3> QED
      BY <1>1, <2>3, <3>1, FlightFlies DEF TableInv, LeftAlone
  <2>10. TableInv'
    BY <1>1, <2>3, <2>7, <2>8, <2>9 DEF TableInv
  <2>11. FormKept
    BY <1>2, <2>1, <2>3, <2>5 DEF FormKept
  <2> QED
    BY <1>2, <2>4, <2>6, <2>10, <2>11, TableOnly
<1> QED
  BY <1>3, <1>4

LEMMA RowsSavedOrDeleted ==
  ASSUME SettingsInv, NEW i \in DOMAIN calls, NEW ok \in BOOLEAN,
         T!RowSaved(i, ok) \/ T!RowDeleted(i, ok)
  PROVE  SettingsInv'
<1>1. page \in T!Tables /\ calls[i].op \in {"save", "delete"}
  BY SettingsConsole DEF T!RowSaved, T!RowDeleted
<1>2. SettingsShape /\ TableInv
  BY <1>1 DEF SettingsInv
<1>3. Loads(view) /\ Loads([view EXCEPT !.form = None]) /\ world.rows \in RowSets
  BY <1>2 DEF Loads, TableInv, TableFields, SettingsShape
<1>4. CASE ~ok /\ T!Wrote(i, FALSE, world.rows, view)
  BY <1>1, <1>3, <1>4, RowsWritten
<1> DEFINE arg == calls[i].arg
<1>5. ASSUME calls[i].op = "save", NEW n \in T!Written(arg.id),
             T!Wrote(i, ok, [world.rows EXCEPT ![n] = T!Stored(@, arg.form.content)],
                     [view EXCEPT !.form = None])
      PROVE  SettingsInv'
  <2>1. arg.id \in Ids \cup {None} /\ arg.form \in T!FormType
    <3>1. Flying("save", arg, calls)
      BY <1>5 DEF Flying
    <3> HIDE DEF arg
    <3> QED
      BY <1>2, <3>1 DEF TableInv, RowCalls
  <2> HIDE DEF arg
  <2>2. n \in Ids
    BY <1>5, <2>1 DEF T!Written
  <2>3. T!Stored(world.rows[n], arg.form.content) \in RowContents \cup {None}
    BY <1>3, <2>1, <2>2 DEF T!Stored, T!FormType, RowSets
  <2>4. PICK rows : rows = [world.rows EXCEPT ![n] = T!Stored(@, arg.form.content)]
    OBVIOUS
  <2>5. rows \in RowSets
    BY <1>3, <2>2, <2>3, <2>4 DEF RowSets
  <2>6. T!Wrote(i, ok, rows, [view EXCEPT !.form = None])
    BY <1>5, <2>4
  <2> QED
    BY <1>1, <1>3, <2>5, <2>6, RowsWritten
<1>6. ASSUME calls[i].op = "delete", T!Wrote(i, ok, [world.rows EXCEPT ![arg] = None], view)
      PROVE  SettingsInv'
  <2>1. arg \in Ids
    <3>1. Flying("delete", arg, calls)
      BY <1>6 DEF Flying
    <3> HIDE DEF arg
    <3> QED
      BY <1>2, <3>1 DEF TableInv, RowCalls
  <2> HIDE DEF arg
  <2>2. PICK rows : rows = [world.rows EXCEPT ![arg] = None]
    OBVIOUS
  <2>3. rows \in RowSets
    BY <1>3, <2>1, <2>2 DEF RowSets
  <2>4. T!Wrote(i, ok, rows, view)
    BY <1>6, <2>2
  <2> QED
    BY <1>1, <1>3, <2>3, <2>4, RowsWritten
<1>7. T!RowSaved(i, ok) => SettingsInv'
  BY <1>4, <1>5, SettingsConsole DEF T!RowSaved
<1>8. T!RowDeleted(i, ok) => SettingsInv'
  BY <1>4, <1>6, SettingsConsole DEF T!RowDeleted
<1> QED
  BY <1>7, <1>8

\* What is left of a promise of the environment's form, or made anew.
LEMMA EnvironmentLeft ==
  ASSUME EnvironmentInv, DOMAIN view' = EnvironmentFields,
         view'.saving \in BOOLEAN, view'.reading \in BOOLEAN, view'.listing \in BOOLEAN,
         view'.testing \in Probes \cup {None},
         view'.loading => (view.loading /\ LeftAlone("settings")) \/ InFlight({"settings"})',
         view'.saving => \/ view.saving /\ LeftAlone("put") /\ LeftAlone("store")
                         \/ InFlight({"put", "store"})',
         view'.testing # None => \/ view'.testing = view.testing /\ LeftAlone("probe")
                                 \/ Flying("probe", view'.testing, calls'),
         view'.reading => (view.reading /\ LeftAlone("kubeconfig")) \/ InFlight({"kubeconfig"})',
         view'.listing => (view.listing /\ LeftAlone("namespaces")) \/ InFlight({"namespaces"})',
         view'.calm => \/ /\ view.calm /\ LeftAlone("store")
                          /\ world'.store = world.store /\ world'.value = world.value
                       \/ world'.store = world'.value \/ InFlight({"store"})'
  PROVE  EnvironmentInv'
<1>1. \A op : LeftAlone(op) /\ InFlight({op}) => InFlight({op})'
  BY FlightFlies DEF LeftAlone
<1>2. LeftAlone("put") /\ LeftAlone("store") /\ InFlight({"put", "store"}) =>
        InFlight({"put", "store"})'
  BY DEF LeftAlone, InFlight, Flying
<1>3. view'.loading => InFlight({"settings"})'
  BY <1>1 DEF EnvironmentInv
<1>4. view'.saving => InFlight({"put", "store"})'
  BY <1>2 DEF EnvironmentInv
<1>5. view'.testing # None => Flying("probe", view'.testing, calls')
  BY DEF EnvironmentInv, LeftAlone
<1>6. view'.reading => InFlight({"kubeconfig"})'
  BY <1>1 DEF EnvironmentInv
<1>7. view'.listing => InFlight({"namespaces"})'
  BY <1>1 DEF EnvironmentInv
<1>8. view'.calm => world'.store = world'.value \/ InFlight({"store"})'
  BY <1>1 DEF EnvironmentInv
<1> QED
  BY <1>3, <1>4, <1>5, <1>6, <1>7, <1>8 DEF EnvironmentInv

\* Something was typed or filled in.
LEMMA FormEdited ==
  ASSUME FormInv, view'.value \in SettingValues, view'.edited = TRUE, view'.calm => view.calm,
         world'.value = world.value, LeftAlone("settings"), LeftAlone("put")
  PROVE  FormInv'
<1>1. \A a : Flying("settings", a, calls') \/ Flying("put", a, calls') => a \in SettingValues
  BY DEF FormInv, LeftAlone
<1>2. view'.calm => \A a : Flying("settings", a, calls') => a = world'.value
  BY DEF FormInv, FormShown, LeftAlone
<1> QED
  BY <1>1, <1>2 DEF FormInv, FormShown

LEMMA SettingTyped ==
  ASSUME SettingsInv, T!TypeSetting PROVE SettingsInv'
<1>1. /\ page \in T!Forms /\ page' = page /\ world' = world /\ calls' = calls
      /\ view' = [view EXCEPT !.value = "typed", !.edited = TRUE]
  BY DEF T!TypeSetting, T!User
<1>2. SettingsShape /\ FormInv
  BY <1>1 DEF SettingsInv
<1>3. \A o : LeftAlone(o)
  BY <1>1, AllLeft
<1>4. CASE page = "Settings"
  <2>1. TableInv /\ page \in T!Tables
    BY <1>4 DEF SettingsInv, T!Tables
  <2>2. /\ DOMAIN view' = TableFields /\ view'.rows = view.rows /\ view'.page = view.page
        /\ view'.search = view.search /\ view'.typing = view.typing /\ view'.edit = view.edit
        /\ view'.form = view.form /\ view'.tab = view.tab /\ view'.loading = view.loading
        /\ view'.calm = view.calm /\ view'.value = "typed" /\ view'.edited = TRUE
    BY <1>1, <2>1 DEF TableInv, TableFields
  <2>3. SettingsShape'
    BY <1>1, <1>2, <2>2 DEF SettingsShape
  <2>4. TableInv'
    BY <1>1, <1>3, <2>1, <2>2, TableLeft DEF TableKept
  <2>5. FormInv'
    BY <1>1, <1>2, <1>3, <2>2, FormEdited DEF SettingValues
  <2> QED
    BY <1>1, <1>4, <2>3, <2>4, <2>5 DEF SettingsInv
<1>5. CASE page = "Environment"
  <2>1. EnvironmentInv /\ page \notin T!Tables
    BY <1>5 DEF SettingsInv, T!Tables
  <2>2. /\ DOMAIN view' = EnvironmentFields /\ view'.loading = view.loading
        /\ view'.saving = view.saving /\ view'.testing = view.testing
        /\ view'.reading = view.reading /\ view'.listing = view.listing
        /\ view'.calm = view.calm /\ view'.value = "typed" /\ view'.edited = TRUE
    BY <1>1, <2>1 DEF EnvironmentInv, EnvironmentFields
  <2>3. SettingsShape'
    BY <1>1, <1>2, <2>2 DEF SettingsShape
  <2>4. EnvironmentInv'
    BY <1>1, <1>3, <2>1, <2>2, EnvironmentLeft DEF EnvironmentInv
  <2>5. FormInv'
    BY <1>1, <1>2, <1>3, <2>2, FormEdited DEF SettingValues
  <2> QED
    BY <1>1, <2>1, <2>3, <2>4, <2>5 DEF SettingsInv
<1> QED
  BY <1>1, <1>4, <1>5 DEF T!Forms

\* The settings as they were served some time since they were asked for.
LEMMA FormLoaded ==
  ASSUME SettingsInv, NEW i \in DOMAIN calls, NEW ok \in BOOLEAN, T!SettingsArrive(i, ok)
  PROVE  SettingsInv'
<1>1. /\ page \in T!Forms /\ page' = page /\ world' = world
      /\ calls[i].op = "settings" /\ Reply(i, <<>>)
  BY SettingsConsole DEF T!SettingsArrive, T!Answer
<1>2. SettingsShape /\ FormInv
  BY <1>1 DEF SettingsInv
<1>3. /\ calls[i].arg \in SettingValues
      /\ view.calm => calls[i].arg = world.value
  <2>1. Flying("settings", calls[i].arg, calls)
    BY <1>1 DEF Flying
  <2> QED
    BY <1>2, <2>1 DEF FormInv, FormShown
<1>4. PICK calm \in BOOLEAN : calm = (ok /\ T!Calmly(i, ok) /\ ~T!InFlight({"put"}))
  <2>1. (ok /\ T!Calmly(i, ok) /\ ~T!InFlight({"put"})) \in BOOLEAN
    OBVIOUS
  <2> QED
    BY <2>1
<1>5. calm => view.calm /\ ok /\ ~InFlight({"put"})
  BY <1>4, SettingsConsole DEF T!Calmly
<1>6. PICK value \in SettingValues, edited \in BOOLEAN :
         /\ view' = [view EXCEPT !.value = value, !.edited = edited, !.loading = FALSE,
                                 !.calm = calm]
         /\ calm => value = world.value
  <2>1. PICK served \in {calls[i].arg, world.value} :
          view' = IF ok THEN [view EXCEPT !.value = served, !.edited = FALSE,
                                          !.loading = FALSE,
                                          !.calm = T!Calmly(i, ok) /\ ~T!InFlight({"put"})]
                  ELSE [view EXCEPT !.loading = FALSE, !.calm = FALSE]
    BY DEF T!SettingsArrive
  <2>2. served \in SettingValues /\ (calm => served = world.value)
    BY <1>2, <1>3, <1>5 DEF SettingsShape
  <2>3. CASE ok
    <3>1. calm = (T!Calmly(i, ok) /\ ~T!InFlight({"put"}))
      BY <1>4, <2>3
    <3>2. view' = [view EXCEPT !.value = served, !.edited = FALSE, !.loading = FALSE,
                               !.calm = calm]
      BY <2>1, <2>3, <3>1
    <3> QED
      BY <2>2, <3>2
  <2>4. CASE ~ok
    <3>1. calm = FALSE
      BY <1>4, <2>4
    <3>2. view' = [view EXCEPT !.loading = FALSE, !.calm = FALSE]
      BY <2>1, <2>4
    <3>3. {"value", "edited"} \subseteq DOMAIN view
      BY <1>1 DEF SettingsInv, T!Forms, T!Tables, TableInv, EnvironmentInv, TableFields,
         EnvironmentFields
    <3>4. view' = [view EXCEPT !.value = view.value, !.edited = view.edited,
                               !.loading = FALSE, !.calm = calm]
      BY <3>1, <3>2, <3>3
    <3> QED
      BY <1>2, <3>1, <3>4 DEF FormInv
  <2> QED
    BY <2>3, <2>4
<1>7. /\ AreCalls(calls')
      /\ \A o, a : Flying(o, a, calls') => Flying(o, a, calls)
      /\ \A o : o # "settings" => LeftAlone(o)
  BY <1>1, <1>2, ReplyNone, ReplyNoneLeaves DEF SettingsShape
<1>8. ASSUME view'.value = value, view'.edited = edited, view'.calm = calm
      PROVE  FormInv'
  <2>1. \A a : Flying("settings", a, calls') \/ Flying("put", a, calls') => a \in SettingValues
    BY <1>2, <1>7 DEF FormInv
  <2>2. calm => \A a : Flying("settings", a, calls') => a = world'.value
    BY <1>1, <1>2, <1>5, <1>7 DEF FormInv, FormShown
  <2>3. calm => Asks("put", view'.value, calls')
    <3> SUFFICES ASSUME calm, NEW k \in DOMAIN calls', calls'[k].op = "put" PROVE FALSE
      BY DEF Asks
    <3>1. Flying("put", calls'[k].arg, calls')
      BY DEF Flying
    <3>2. Flying("put", calls'[k].arg, calls)
      BY <1>7, <3>1
    <3> QED
      BY <1>5, <3>2 DEF Flying, InFlight
  <2> QED
    BY <1>1, <1>6, <1>8, <2>1, <2>2, <2>3 DEF FormInv, FormShown
<1>9. CASE page = "Settings"
  <2>1. TableInv /\ page \in T!Tables
    BY <1>9 DEF SettingsInv, T!Tables
  <2>2. /\ DOMAIN view' = TableFields /\ view'.rows = view.rows /\ view'.page = view.page
        /\ view'.search = view.search /\ view'.typing = view.typing /\ view'.edit = view.edit
        /\ view'.form = view.form /\ view'.tab = view.tab /\ view'.loading = FALSE
        /\ view'.calm = calm /\ view'.value = value /\ view'.edited = edited
    BY <1>6, <2>1 DEF TableInv, TableFields
  <2>3. SettingsShape'
    BY <1>1, <1>2, <1>7, <2>2 DEF SettingsShape
  <2>4. TableInv'
    BY <1>1, <1>5, <1>7, <2>1, <2>2, TableLeft DEF TableKept
  <2> QED
    BY <1>1, <1>8, <1>9, <2>2, <2>3, <2>4 DEF SettingsInv
<1>10. CASE page = "Environment"
  <2>1. EnvironmentInv /\ page \notin T!Tables
    BY <1>10 DEF SettingsInv, T!Tables
  <2>2. /\ DOMAIN view' = EnvironmentFields /\ view'.loading = FALSE
        /\ view'.saving = view.saving /\ view'.testing = view.testing
        /\ view'.reading = view.reading /\ view'.listing = view.listing
        /\ view'.calm = calm /\ view'.value = value /\ view'.edited = edited
    BY <1>6, <2>1 DEF EnvironmentInv, EnvironmentFields
  <2>3. SettingsShape'
    BY <1>1, <1>2, <1>7, <2>2 DEF SettingsShape
  <2>4. EnvironmentInv'
    BY <1>1, <1>5, <1>7, <2>1, <2>2, EnvironmentLeft DEF EnvironmentInv
  <2> QED
    BY <1>1, <1>8, <2>1, <2>2, <2>3, <2>4 DEF SettingsInv
<1> QED
  BY <1>1, <1>9, <1>10 DEF T!Forms

\* The router keeps the view and shows its other tab, which is loaded.
LEMMA TabSwitched ==
  ASSUME SettingsInv, NEW tab \in {"general", "notifications"}, T!SwitchTab(tab)
  PROVE  SettingsInv'
<1>1. /\ page = "Settings" /\ page \in T!Tables /\ page \in T!Forms
      /\ page' = page /\ world' = world /\ view' = [view EXCEPT !.tab = tab]
  BY DEF T!SwitchTab, T!On, T!User, T!Tables, T!Forms
<1>2. SettingsShape /\ TableInv /\ FormInv
  BY <1>1 DEF SettingsInv
<1>3. /\ DOMAIN view' = TableFields /\ view'.rows = view.rows /\ view'.page = view.page
      /\ view'.search = view.search /\ view'.typing = view.typing /\ view'.edit = view.edit
      /\ view'.form = view.form /\ view'.tab = tab /\ view'.loading = view.loading
      /\ view'.calm = view.calm /\ view'.value = view.value /\ view'.edited = view.edited
  BY <1>1, <1>2 DEF TableInv, TableFields
<1>4. CASE tab = "general"
  <2>1. Send(<<Call("settings", world.value)>>)
    BY <1>4, SettingsConsole DEF T!SwitchTab, T!loadGeneral
  <2>2. /\ AreCalls(calls')
        /\ \A o, a : Flying(o, a, calls') <=>
             Flying(o, a, calls) \/ (o = "settings" /\ a = world.value)
        /\ \A ops : InFlight(ops) \/ "settings" \in ops => InFlight(ops)'
        /\ \A o : o # "settings" => LeftAlone(o)
    BY <1>2, <2>1, SendOne, SendLeaves DEF SettingsShape
  <2>3. SettingsShape'
    BY <1>1, <1>2, <1>3, <2>2 DEF SettingsShape
  <2>4. RowCalls'
    BY <1>2, <2>2 DEF TableInv, RowCalls
  <2>5. RowsDue'
    <3> SUFFICES ASSUME view.calm PROVE \E text : RowsAsked(text)'
      BY <1>3 DEF RowsDue
    <3>1. PICK text : RowsAsked(text)
      BY <1>2 DEF TableInv, RowsDue
    <3>2. Wanted(text)' = Wanted(text)
      BY <1>1, <1>3 DEF Wanted
    <3>3. Asks("list", Wanted(text), calls')
      BY <2>2, <3>1 DEF RowsAsked, LeftAlone
    <3> QED
      BY <1>3, <1>4, <3>1, <3>2, <3>3 DEF RowsAsked
  <2>6. TableInv'
    BY <1>2, <1>3, <2>2, <2>4, <2>5 DEF TableInv
  <2>7. FormInv'
    <3>1. \A a : Flying("settings", a, calls') \/ Flying("put", a, calls') => a \in SettingValues
      BY <1>2, <2>2 DEF FormInv, SettingsShape
    <3>2. view'.calm => \A a : Flying("settings", a, calls') => a = world'.value
      BY <1>1, <1>2, <1>3, <2>2 DEF FormInv, FormShown
    <3>3. view'.calm /\ ~view'.edited => Asks("put", view'.value, calls')
      BY <1>2, <1>3, <2>2 DEF FormInv, FormShown, LeftAlone
    <3>4. InFlight({"settings"})'
      BY <2>2
    <3> QED
      BY <1>2, <1>3, <3>1, <3>2, <3>3, <3>4 DEF FormInv, FormShown
  <2> QED
    BY <1>1, <2>3, <2>6, <2>7 DEF SettingsInv
<1>5. CASE tab # "general"
  <2>1. T!Send(<<T!List(view, world.rows)>>)
    BY <1>5 DEF T!SwitchTab
  <2>2. ListSent(view, world.rows) /\ \A o : o # "list" => LeftAlone(o)
    BY <1>2, <2>1, ListSends DEF SettingsShape
  <2>3. SettingsShape'
    BY <1>1, <1>2, <1>3, <2>2 DEF SettingsShape, ListSent
  <2>4. RowCalls'
    <3>1. /\ ListOf(view, world.rows) = [page |-> ListOf(view, world.rows).page,
                                         search |-> ListOf(view, world.rows).search,
                                         seen |-> ListOf(view, world.rows).seen]
          /\ ListOf(view, world.rows).seen = world.rows /\ world.rows \in RowSets
      BY <1>2 DEF ListOf, SettingsShape
    <3> QED
      BY <1>2, <2>2, <3>1 DEF TableInv, RowCalls, ListSent
  <2>5. RowsDue'
    <3>1. PICK text : text = view.search
      OBVIOUS
    <3>2. Wanted(text)' = ListOf(view, world.rows)
      BY <1>1, <1>3, <3>1 DEF Wanted, ListOf
    <3>3. RowsAsked(text)'
      BY <1>3, <2>2, <3>1, <3>2 DEF RowsAsked, ListSent
    <3> QED
      BY <3>3 DEF RowsDue
  <2>6. TableInv'
    BY <1>2, <1>3, <2>2, <2>4, <2>5 DEF TableInv, ListSent
  <2>7. FormInv'
    <3>1. \A a : Flying("settings", a, calls') \/ Flying("put", a, calls') => a \in SettingValues
      BY <1>2, <2>2 DEF FormInv, LeftAlone
    <3>2. view'.calm => \A a : Flying("settings", a, calls') => a = world'.value
      BY <1>1, <1>2, <1>3, <2>2 DEF FormInv, FormShown, LeftAlone
    <3>3. view'.calm /\ ~view'.edited => Asks("put", view'.value, calls')
      BY <1>2, <1>3, <2>2 DEF FormInv, FormShown, LeftAlone
    <3>4. tab = "notifications"
      BY <1>5
    <3> QED
      BY <1>1, <1>2, <1>3, <3>1, <3>2, <3>3, <3>4 DEF FormInv, FormShown
  <2> QED
    BY <1>1, <2>3, <2>6, <2>7 DEF SettingsInv
<1> QED
  BY <1>4, <1>5

\* The form is sent as it is shown.
LEMMA FormPut ==
  ASSUME SettingsShape, FormInv, page' = page, world' = world, Send(<<Call("put", view.value)>>),
         view'.value = view.value, view'.edited = FALSE, view'.calm = view.calm
  PROVE  /\ FormInv' /\ AreCalls(calls') /\ InFlight({"put", "store"})'
         /\ \A o : o # "put" => LeftAlone(o)
<1>1. /\ AreCalls(calls')
      /\ \A o, a : Flying(o, a, calls') <=> Flying(o, a, calls) \/ (o = "put" /\ a = view.value)
      /\ \A ops : InFlight(ops) \/ "put" \in ops => InFlight(ops)'
      /\ \A o : o # "put" => LeftAlone(o)
  BY SendOne, SendLeaves DEF SettingsShape
<1>2. Asks("put", view.value, calls') /\ Latest("put", calls')
  BY SendAsks, SendLatest DEF SettingsShape
<1>3. \A a : Flying("settings", a, calls') \/ Flying("put", a, calls') => a \in SettingValues
  BY <1>1 DEF FormInv
<1>4. view'.calm => \A a : Flying("settings", a, calls') => a = world'.value
  BY <1>1 DEF FormInv, FormShown
<1> QED
  BY <1>1, <1>2, <1>3, <1>4 DEF FormInv, FormShown

LEMMA GeneralSaved ==
  ASSUME SettingsInv, T!handleSaveGeneral PROVE SettingsInv'
<1>1. /\ page = "Settings" /\ page \in T!Tables /\ page \in T!Forms
      /\ page' = page /\ world' = world /\ view' = [view EXCEPT !.edited = FALSE]
      /\ Send(<<Call("put", view.value)>>)
  BY SettingsConsole DEF T!handleSaveGeneral, T!PutSettings, T!On, T!User, T!Tables, T!Forms
<1>2. SettingsShape /\ TableInv /\ FormInv
  BY <1>1 DEF SettingsInv
<1>3. /\ DOMAIN view' = TableFields /\ view'.rows = view.rows /\ view'.page = view.page
      /\ view'.search = view.search /\ view'.typing = view.typing /\ view'.edit = view.edit
      /\ view'.form = view.form /\ view'.tab = view.tab /\ view'.loading = view.loading
      /\ view'.calm = view.calm /\ view'.value = view.value /\ view'.edited = FALSE
  BY <1>1, <1>2 DEF TableInv, TableFields
<1>4. FormInv' /\ AreCalls(calls') /\ \A o : o # "put" => LeftAlone(o)
  BY <1>1, <1>2, <1>3, FormPut
<1>5. SettingsShape'
  BY <1>1, <1>2, <1>3, <1>4 DEF SettingsShape
<1>6. TableInv'
  BY <1>1, <1>2, <1>3, <1>4, TableLeft DEF TableKept
<1> QED
  BY <1>1, <1>4, <1>5, <1>6 DEF SettingsInv

LEMMA EnvironmentSaved ==
  ASSUME SettingsInv, T!saveSettings PROVE SettingsInv'
<1>1. /\ page = "Environment" /\ page \notin T!Tables /\ page \in T!Forms
      /\ page' = page /\ world' = world
      /\ view' = [[view EXCEPT !.saving = TRUE] EXCEPT !.edited = FALSE]
      /\ Send(<<Call("put", view.value)>>)
  BY SettingsConsole DEF T!saveSettings, T!PutSettings, T!OnForm, T!On, T!User, T!Tables, T!Forms
<1>2. SettingsShape /\ EnvironmentInv /\ FormInv
  BY <1>1 DEF SettingsInv
<1>3. /\ DOMAIN view' = EnvironmentFields /\ view'.loading = view.loading
      /\ view'.saving = TRUE /\ view'.testing = view.testing
      /\ view'.reading = view.reading /\ view'.listing = view.listing
      /\ view'.calm = view.calm /\ view'.value = view.value /\ view'.edited = FALSE
  BY <1>1, <1>2 DEF EnvironmentInv, EnvironmentFields
<1>4. /\ FormInv' /\ AreCalls(calls') /\ InFlight({"put", "store"})'
      /\ \A o : o # "put" => LeftAlone(o)
  BY <1>1, <1>2, <1>3, FormPut
<1>5. SettingsShape'
  BY <1>1, <1>2, <1>3, <1>4 DEF SettingsShape
<1>6. EnvironmentInv'
  BY <1>1, <1>2, <1>3, <1>4, EnvironmentLeft DEF EnvironmentInv
<1> QED
  BY <1>1, <1>4, <1>5, <1>6 DEF SettingsInv

\* The server has taken a form, or may have: what it holds then is the form it was
\* sent last, unless something else was, or is read.
LEMMA FormStored ==
  ASSUME SettingsInv, NEW i \in DOMAIN calls, NEW ok \in BOOLEAN, T!SettingsPut(i, ok)
  PROVE  SettingsInv'
<1>1. /\ page \in T!Forms /\ page' = page /\ calls[i].op = "put"
  BY SettingsConsole DEF T!SettingsPut
<1>2. SettingsShape /\ FormInv
  BY <1>1 DEF SettingsInv
<1>3. calls[i].arg \in SettingValues
  <2>1. Flying("put", calls[i].arg, calls)
    BY <1>1 DEF Flying
  <2> QED
    BY <1>2, <2>1 DEF FormInv
<1>4. PICK value \in {calls[i].arg} \cup (IF ok THEN {} ELSE {world.value}) :
         world' = [world EXCEPT !.value = value]
  BY DEF T!SettingsPut
<1>5. value \in SettingValues /\ (ok => value = calls[i].arg)
  BY <1>2, <1>3 DEF SettingsShape
<1>6. /\ world'.rows = world.rows /\ world'.value = value /\ world'.store = world.store
      /\ world' = [rows |-> world'.rows, value |-> world'.value, store |-> world'.store]
  BY <1>2, <1>4 DEF SettingsShape
<1>7. PICK calm \in BOOLEAN : calm = (T!Calmly(i, ok) /\ ~T!InFlight({"settings"}))
  <2>1. (T!Calmly(i, ok) /\ ~T!InFlight({"settings"})) \in BOOLEAN
    OBVIOUS
  <2> QED
    BY <2>1
<1>8. calm => view.calm /\ ok /\ calls[i].last /\ ~InFlight({"settings"})
  BY <1>7, SettingsConsole DEF T!Calmly
<1>9. PICK edited \in BOOLEAN : edited = (view.edited \/ ~ok)
  <2>1. (view.edited \/ ~ok) \in BOOLEAN
    OBVIOUS
  <2> QED
    BY <2>1
<1>10. PICK saving \in BOOLEAN : saving = (view.saving /\ ok)
  <2>1. (view.saving /\ ok) \in BOOLEAN
    OBVIOUS
  <2> QED
    BY <2>1
<1>11. view' = [view EXCEPT !.edited = edited, !.calm = calm, !.saving = saving]
  BY <1>7, <1>9, <1>10 DEF T!SettingsPut
<1>12. Reply(i, IF ok /\ page = "Environment" THEN <<Call("store", None)>> ELSE <<>>)
  BY SettingsConsole DEF T!SettingsPut, T!On
<1>13. /\ AreCalls(calls')
       /\ \A o, a : Flying(o, a, calls') => Flying(o, a, calls) \/ o = "store"
       /\ \A o : o \notin {"put", "store"} => LeftAlone(o)
       /\ \A a : Asks("put", a, calls) => Asks("put", a, calls')
       /\ ok /\ page = "Environment" => InFlight({"store"})' /\ InFlight({"put", "store"})'
       /\ ~(ok /\ page = "Environment") => LeftAlone("store")
  <2>1. CASE ok /\ page = "Environment"
    <3>1. Reply(i, <<Call("store", None)>>)
      BY <1>12, <2>1
    <3> QED
      BY <1>1, <1>2, <2>1, <3>1, ReplyOne, ReplyOneLeaves, ReplyAsks DEF SettingsShape
  <2>2. CASE ~(ok /\ page = "Environment")
    <3>1. Reply(i, <<>>)
      BY <1>12, <2>2
    <3> QED
      BY <1>1, <1>2, <2>2, <3>1, ReplyNone, ReplyNoneLeaves, ReplyAsksNone DEF SettingsShape
  <2> QED
    BY <2>1, <2>2
<1>14. ASSUME view'.value = view.value, view'.edited = edited, view'.calm = calm
       PROVE  FormInv'
  <2>1. \A a : Flying("settings", a, calls') \/ Flying("put", a, calls') => a \in SettingValues
    BY <1>2, <1>13 DEF FormInv
  <2>2. calm => \A a : ~Flying("settings", a, calls')
    <3>1. \A a : Flying("settings", a, calls') => InFlight({"settings"})
      BY <1>13, FlightFlies DEF LeftAlone
    <3> QED
      BY <1>8, <3>1
  <2>3. calm /\ ~edited => Asks("put", view.value, calls)
    BY <1>2, <1>8, <1>9 DEF FormInv, FormShown
  <2>4. calm /\ ~edited => calls[i].arg = view.value
    BY <1>1, <1>8, <2>3, AsksAlike
  <2> QED
    BY <1>2, <1>5, <1>6, <1>8, <1>13, <1>14, <2>1, <2>2, <2>3, <2>4 DEF FormInv, FormShown
<1>15. CASE page = "Settings"
  <2>1. TableInv /\ page \in T!Tables
    BY <1>15 DEF SettingsInv, T!Tables
  <2>2. /\ DOMAIN view' = TableFields /\ view'.rows = view.rows /\ view'.page = view.page
        /\ view'.search = view.search /\ view'.typing = view.typing /\ view'.edit = view.edit
        /\ view'.form = view.form /\ view'.tab = view.tab /\ view'.loading = view.loading
        /\ view'.calm = calm /\ view'.value = view.value /\ view'.edited = edited
    BY <1>11, <2>1 DEF TableInv, TableFields
  <2>3. SettingsShape'
    BY <1>2, <1>5, <1>6, <1>13, <2>2 DEF SettingsShape
  <2>4. TableInv'
    BY <1>1, <1>6, <1>8, <1>13, <2>1, <2>2, TableLeft DEF TableKept
  <2> QED
    BY <1>1, <1>14, <1>15, <2>2, <2>3, <2>4 DEF SettingsInv
<1>16. CASE page = "Environment"
  <2>1. EnvironmentInv /\ page \notin T!Tables
    BY <1>16 DEF SettingsInv, T!Tables
  <2>2. /\ DOMAIN view' = EnvironmentFields /\ view'.loading = view.loading
        /\ view'.saving = saving /\ view'.testing = view.testing
        /\ view'.reading = view.reading /\ view'.listing = view.listing
        /\ view'.calm = calm /\ view'.value = view.value /\ view'.edited = edited
    BY <1>11, <2>1 DEF EnvironmentInv, EnvironmentFields
  <2>3. SettingsShape'
    BY <1>2, <1>5, <1>6, <1>13, <2>2 DEF SettingsShape
  <2>4. saving => InFlight({"put", "store"})'
    BY <1>10, <1>13, <1>16
  <2>5. calm => InFlight({"store"})'
    BY <1>8, <1>13, <1>16
  <2>6. EnvironmentInv'
    BY <1>13, <2>1, <2>2, <2>4, <2>5, EnvironmentLeft DEF EnvironmentInv
  <2> QED
    BY <1>1, <1>14, <2>1, <2>2, <2>3, <2>6 DEF SettingsInv
<1> QED
  BY <1>1, <1>15, <1>16 DEF T!Forms

\* What the environment's form does beside loading and saving.
LEMMA EnvironmentOnly ==
  ASSUME SettingsInv, page = "Environment", page' = page, SettingsShape', EnvironmentInv', FormInv'
  PROVE  SettingsInv'
  BY DEF SettingsInv, T!Tables

LEMMA StoreTold ==
  ASSUME SettingsInv, NEW i \in DOMAIN calls, NEW ok \in BOOLEAN, T!StoreArrives(i, ok)
  PROVE  SettingsInv'
<1>1. /\ page = "Environment" /\ page \in T!Forms /\ page' = page
      /\ calls[i].op = "store" /\ Reply(i, <<>>)
  BY SettingsConsole DEF T!StoreArrives, T!On, T!Forms
<1>2. SettingsShape /\ FormInv /\ EnvironmentInv
  BY <1>1 DEF SettingsInv
<1>3. PICK calm \in BOOLEAN : calm = T!Calmly(i, ok)
  <2>1. T!Calmly(i, ok) \in BOOLEAN
    BY DEF T!Calmly
  <2> QED
    BY <2>1
<1>4. calm => view.calm /\ ok
  BY <1>3 DEF T!Calmly
<1>5. view' = [view EXCEPT !.saving = FALSE, !.calm = calm]
  BY <1>3 DEF T!StoreArrives
<1>6. /\ DOMAIN view' = EnvironmentFields /\ view'.loading = view.loading
      /\ view'.saving = FALSE /\ view'.testing = view.testing
      /\ view'.reading = view.reading /\ view'.listing = view.listing
      /\ view'.calm = calm /\ view'.value = view.value /\ view'.edited = view.edited
  BY <1>2, <1>5 DEF EnvironmentInv, EnvironmentFields
<1>7. /\ world'.rows = world.rows /\ world'.value = world.value
      /\ world'.store \in SettingValues /\ (ok => world'.store = world'.value)
      /\ world' = [rows |-> world'.rows, value |-> world'.value, store |-> world'.store]
  <2>1. CASE ok
    <3>1. world' = [world EXCEPT !.store = world.value]
      BY <2>1 DEF T!StoreArrives
    <3> QED
      BY <1>2, <3>1 DEF SettingsShape
  <2>2. CASE ~ok
    <3>1. world' = world
      BY <2>2 DEF T!StoreArrives
    <3> QED
      BY <1>2, <2>2, <3>1 DEF SettingsShape
  <2> QED
    BY <2>1, <2>2
<1>8. AreCalls(calls') /\ \A o : o # "store" => LeftAlone(o)
  BY <1>1, <1>2, ReplyNone, ReplyNoneLeaves DEF SettingsShape
<1>9. SettingsShape'
  BY <1>2, <1>6, <1>7, <1>8 DEF SettingsShape
<1>10. FormInv'
  BY <1>1, <1>2, <1>4, <1>6, <1>7, <1>8, FormLeft DEF FormKept
<1>11. EnvironmentInv'
  BY <1>2, <1>4, <1>6, <1>7, <1>8, EnvironmentLeft DEF EnvironmentInv
<1> QED
  BY <1>1, <1>9, <1>10, <1>11, EnvironmentOnly

\* A button of the form asks for something of its own.
LEMMA EnvironmentAsks ==
  ASSUME SettingsInv, page = "Environment",
         \/ \E type \in Probes : T!testConnection(type)
         \/ T!handleReadKubeconfig \/ T!handleLoadNamespaces
  PROVE  SettingsInv'
<1>1. SettingsShape /\ FormInv /\ EnvironmentInv
  BY DEF SettingsInv, T!Forms
<1>2. ASSUME NEW op \in {"probe", "kubeconfig", "namespaces"}, NEW arg,
             Send(<<Call(op, arg)>>), page' = page, world' = world,
             DOMAIN view' = EnvironmentFields, view'.loading = view.loading,
             view'.saving = view.saving, view'.calm = view.calm,
             view'.value = view.value, view'.edited = view.edited,
             view'.testing = IF op = "probe" THEN arg ELSE view.testing,
             view'.reading = IF op = "kubeconfig" THEN TRUE ELSE view.reading,
             view'.listing = IF op = "namespaces" THEN TRUE ELSE view.listing,
             op = "probe" => arg \in Probes
      PROVE  SettingsInv'
  <2>1. /\ AreCalls(calls') /\ Flying(op, arg, calls')
        /\ \A ops : op \in ops => InFlight(ops)'
        /\ \A o : o # op => LeftAlone(o)
    BY <1>1, <1>2, SendOne, SendLeaves DEF SettingsShape
  <2>2. SettingsShape'
    BY <1>1, <1>2, <2>1 DEF SettingsShape
  <2>3. FormInv'
    BY <1>1, <1>2, <2>1, FormLeft DEF FormKept
  <2>4. /\ view'.reading \in BOOLEAN /\ view'.listing \in BOOLEAN
        /\ view'.testing \in Probes \cup {None}
        /\ view'.testing # None => \/ view'.testing = view.testing /\ LeftAlone("probe")
                                   \/ Flying("probe", view'.testing, calls')
        /\ view'.reading => (view.reading /\ LeftAlone("kubeconfig")) \/ InFlight({"kubeconfig"})'
        /\ view'.listing => (view.listing /\ LeftAlone("namespaces")) \/ InFlight({"namespaces"})'
    BY <1>1, <1>2, <2>1 DEF EnvironmentInv
  <2>5. EnvironmentInv'
    BY <1>1, <1>2, <2>1, <2>4, EnvironmentLeft DEF EnvironmentInv
  <2> QED
    BY <1>2, <2>2, <2>3, <2>5, EnvironmentOnly
<1>3. ASSUME NEW type \in Probes, T!testConnection(type) PROVE SettingsInv'
  <2>1. /\ Send(<<Call("probe", type)>>) /\ page' = page /\ world' = world
        /\ view' = [view EXCEPT !.testing = type]
    BY <1>3, SettingsConsole DEF T!testConnection, T!User
  <2>2. /\ DOMAIN view' = EnvironmentFields /\ view'.loading = view.loading
        /\ view'.saving = view.saving /\ view'.testing = type
        /\ view'.reading = view.reading /\ view'.listing = view.listing
        /\ view'.calm = view.calm /\ view'.value = view.value /\ view'.edited = view.edited
    BY <1>1, <2>1 DEF EnvironmentInv, EnvironmentFields
  <2> QED
    BY <1>2, <2>1, <2>2
<1>4. ASSUME T!handleReadKubeconfig PROVE SettingsInv'
  <2>1. /\ Send(<<Call("kubeconfig", None)>>) /\ page' = page /\ world' = world
        /\ view' = [view EXCEPT !.reading = TRUE]
    BY <1>4, SettingsConsole DEF T!handleReadKubeconfig, T!User
  <2>2. /\ DOMAIN view' = EnvironmentFields /\ view'.loading = view.loading
        /\ view'.saving = view.saving /\ view'.testing = view.testing
        /\ view'.reading = TRUE /\ view'.listing = view.listing
        /\ view'.calm = view.calm /\ view'.value = view.value /\ view'.edited = view.edited
    BY <1>1, <2>1 DEF EnvironmentInv, EnvironmentFields
  <2> QED
    BY <1>2, <2>1, <2>2
<1>5. ASSUME T!handleLoadNamespaces PROVE SettingsInv'
  <2>1. /\ Send(<<Call("namespaces", None)>>) /\ page' = page /\ world' = world
        /\ view' = [view EXCEPT !.listing = TRUE]
    BY <1>5, SettingsConsole DEF T!handleLoadNamespaces, T!User
  <2>2. /\ DOMAIN view' = EnvironmentFields /\ view'.loading = view.loading
        /\ view'.saving = view.saving /\ view'.testing = view.testing
        /\ view'.reading = view.reading /\ view'.listing = TRUE
        /\ view'.calm = view.calm /\ view'.value = view.value /\ view'.edited = view.edited
    BY <1>1, <2>1 DEF EnvironmentInv, EnvironmentFields
  <2> QED
    BY <1>2, <2>1, <2>2
<1> QED
  BY <1>3, <1>4, <1>5

\* Its answers fill the form, or only end the waiting.
LEMMA EnvironmentAnswered ==
  ASSUME SettingsInv, NEW i \in DOMAIN calls, NEW found \in BOOLEAN,
         T!ProbeAnswered(i) \/ T!KubeconfigArrives(i, found) \/ T!NamespacesArrive(i, found)
  PROVE  SettingsInv'
<1>1. /\ page = "Environment" /\ page \in T!Forms /\ page' = page /\ world' = world
      /\ calls[i].op \in {"probe", "kubeconfig", "namespaces"} /\ Reply(i, <<>>)
  BY SettingsConsole DEF T!ProbeAnswered, T!KubeconfigArrives, T!NamespacesArrive, T!On, T!Answer,
     T!Forms
<1>2. SettingsShape /\ FormInv /\ EnvironmentInv
  BY <1>1 DEF SettingsInv
<1>3. AreCalls(calls') /\ \A o : o # calls[i].op => LeftAlone(o)
  BY <1>1, <1>2, ReplyNone, ReplyNoneLeaves DEF SettingsShape
<1>4. ASSUME DOMAIN view' = EnvironmentFields, view'.loading = view.loading,
             view'.saving = view.saving, view'.calm = view.calm,
             \/ view'.value = view.value /\ view'.edited = view.edited
             \/ view'.value \in SettingValues /\ view'.edited = TRUE,
             view'.testing = IF calls[i].op = "probe" THEN None ELSE view.testing,
             view'.reading = IF calls[i].op = "kubeconfig" THEN FALSE ELSE view.reading,
             view'.listing = IF calls[i].op = "namespaces" THEN FALSE ELSE view.listing
      PROVE  SettingsInv'
  <2>1. SettingsShape'
    BY <1>1, <1>2, <1>3, <1>4 DEF SettingsShape
  <2>2. LeftAlone("settings") /\ LeftAlone("put") /\ LeftAlone("store")
    BY <1>1, <1>3
  <2>3. FormInv'
    <3>1. CASE view'.value = view.value /\ view'.edited = view.edited
      BY <1>1, <1>2, <1>4, <2>2, <3>1, FormLeft DEF FormKept
    <3>2. CASE view'.value \in SettingValues /\ view'.edited = TRUE
      BY <1>1, <1>2, <1>4, <2>2, <3>2, FormEdited
    <3> QED
      BY <1>4, <3>1, <3>2
  <2>4. /\ view'.reading \in BOOLEAN /\ view'.listing \in BOOLEAN
        /\ view'.testing \in Probes \cup {None}
        /\ view'.testing # None => view'.testing = view.testing /\ LeftAlone("probe")
        /\ view'.reading => view.reading /\ LeftAlone("kubeconfig")
        /\ view'.listing => view.listing /\ LeftAlone("namespaces")
    BY <1>2, <1>3, <1>4 DEF EnvironmentInv
  <2>5. EnvironmentInv'
    BY <1>1, <1>2, <1>4, <2>2, <2>4, EnvironmentLeft DEF EnvironmentInv
  <2> QED
    BY <1>1, <2>1, <2>3, <2>5, EnvironmentOnly
<1>5. CASE T!ProbeAnswered(i)
  <2>1. view' = [view EXCEPT !.testing = None] /\ calls[i].op = "probe"
    BY <1>5, SettingsConsole DEF T!ProbeAnswered
  <2> QED
    BY <1>2, <1>4, <2>1 DEF EnvironmentInv, EnvironmentFields
<1>6. CASE T!KubeconfigArrives(i, found)
  <2>1. calls[i].op = "kubeconfig"
    BY <1>6, SettingsConsole DEF T!KubeconfigArrives
  <2>2. CASE found
    <3>1. view' = [view EXCEPT !.value = "read", !.edited = TRUE, !.reading = FALSE]
      BY <1>6, <2>2 DEF T!KubeconfigArrives
    <3> QED
      BY <1>2, <1>4, <2>1, <3>1 DEF EnvironmentInv, EnvironmentFields, SettingValues
  <2>3. CASE ~found
    <3>1. view' = [view EXCEPT !.reading = FALSE]
      BY <1>6, <2>3 DEF T!KubeconfigArrives
    <3> QED
      BY <1>2, <1>4, <2>1, <3>1 DEF EnvironmentInv, EnvironmentFields
  <2> QED
    BY <2>2, <2>3
<1>7. CASE T!NamespacesArrive(i, found)
  <2>1. calls[i].op = "namespaces"
    BY <1>7, SettingsConsole DEF T!NamespacesArrive
  <2>2. PICK edited \in BOOLEAN : edited = (view.edited \/ found)
    <3>1. (view.edited \/ found) \in BOOLEAN
      OBVIOUS
    <3> QED
      BY <3>1
  <2>3. PICK value : value = IF found THEN "typed" ELSE view.value
    OBVIOUS
  <2>4. view' = [view EXCEPT !.listing = FALSE, !.value = value, !.edited = edited]
    BY <1>7, <2>2, <2>3 DEF T!NamespacesArrive
  <2>5. \/ value = view.value /\ edited = view.edited
        \/ value \in SettingValues /\ edited = TRUE
    BY <1>2, <2>2, <2>3 DEF FormInv, SettingValues
  <2>6. /\ DOMAIN view' = EnvironmentFields /\ view'.loading = view.loading
        /\ view'.saving = view.saving /\ view'.testing = view.testing
        /\ view'.reading = view.reading /\ view'.listing = FALSE
        /\ view'.calm = view.calm /\ view'.value = value /\ view'.edited = edited
    BY <1>2, <2>4 DEF EnvironmentInv, EnvironmentFields
  <2> QED
    BY <1>4, <2>1, <2>5, <2>6
<1> QED
  BY <1>5, <1>6, <1>7

\* A view of the settings as its setup leaves it.
LEMMA TableMounted ==
  ASSUME T!SettingsConstants, NEW p \in T!Tables, NEW tab \in {None, "general", "notifications"},
         NEW busy \in BOOLEAN, NEW rows \in RowSets, NEW refs,
         \/ refs = T!TableRefs(busy) /\ tab = None
         \/ refs = [T!TableRefs(busy) EXCEPT !.tab = tab],
         \/ /\ p = "Settings" => tab # "general"
            /\ T!Mount(p, refs, T!AtFirst(rows), <<T!List(refs, rows)>>)
         \/ /\ p = "Settings" /\ tab = "general" /\ busy = FALSE
            /\ T!Mount(p, refs, T!AtFirst(rows), <<T!Call("settings", "stored")>>),
         p = "Settings" => tab \in {"general", "notifications"}
  PROVE  SettingsInv'
<1>1. /\ page' = p /\ view' = refs /\ world' = T!AtFirst(rows)
  BY DEF T!Mount
<1>2. /\ DOMAIN view' = TableFields /\ view'.rows = None /\ view'.page = 1
      /\ view'.search = None /\ view'.typing = FALSE /\ view'.edit = None
      /\ view'.form = None /\ view'.tab = tab /\ view'.loading = busy
      /\ view'.calm = TRUE /\ view'.value = "default" /\ view'.edited = FALSE
  <2>1. CASE refs = T!TableRefs(busy) /\ tab = None
    BY <1>1, <2>1 DEF T!TableRefs, TableFields
  <2>2. CASE refs = [T!TableRefs(busy) EXCEPT !.tab = tab]
    BY <1>1, <2>2 DEF T!TableRefs, TableFields
  <2> QED
    BY <2>1, <2>2
<1>3. /\ world'.rows = rows /\ world'.value = "stored" /\ world'.store = "stored"
      /\ world' = [rows |-> world'.rows, value |-> world'.value, store |-> world'.store]
      /\ {"stored", "default"} \subseteq SettingValues
  BY <1>1 DEF T!AtFirst, SettingValues
<1>4. p # "Environment" /\ (p \in T!Forms => p = "Settings")
  BY DEF T!Tables, T!Forms
<1>5. CASE /\ p = "Settings" => tab # "general"
           /\ T!Mount(p, refs, T!AtFirst(rows), <<T!List(refs, rows)>>)
  <2>1. T!List(refs, rows) = Call("list", ListOf(refs, rows))
    BY SettingsConsole DEF T!List, ListOf
  <2>2. /\ ListOf(refs, rows) = [page |-> ListOf(refs, rows).page,
                                 search |-> ListOf(refs, rows).search,
                                 seen |-> ListOf(refs, rows).seen]
        /\ ListOf(refs, rows).seen = rows
    BY DEF ListOf
  <2>3. PICK arg : arg = ListOf(refs, rows)
    OBVIOUS
  <2>4. Mount(p, refs, T!AtFirst(rows), <<Call("list", arg)>>)
    BY <1>5, <2>1, <2>3, SettingsConsole
  <2>5. /\ AreCalls(calls') /\ \A o, a : Flying(o, a, calls') <=> o = "list" /\ a = arg
        /\ \A ops : "list" \in ops => InFlight(ops)'
        /\ \A o, a : o # "list" \/ a = arg => Asks(o, a, calls')
    BY <2>4, MountOne, MountLone
  <2>6. Latest("list", calls')
    <3>1. calls' = Sent(<<>>, <<Call("list", arg)>>)
      BY <2>4 DEF Mount
    <3>2. /\ AreCalls(<<>>) /\ DOMAIN <<>> = {} /\ Len(<<>>) = 0
          /\ AreCalls(<<Call("list", arg)>>) /\ DOMAIN <<Call("list", arg)>> = {1}
          /\ <<Call("list", arg)>>[1].op = "list" /\ <<Call("list", arg)>>[1].last = TRUE
      BY NoCall, OneCall DEF Call
    <3>3. /\ Len(calls') = 0 + Len(<<Call("list", arg)>>) /\ calls'[0 + 1] = <<Call("list", arg)>>[1]
      BY <3>1, <3>2, SentCalls
    <3>4. DOMAIN calls' # {}
      BY <2>5 DEF Flying
    <3>5. \A s : AreCalls(s) => Len(s) \in Nat /\ DOMAIN s = 1..Len(s)
      BY DEF AreCalls
    <3>6. 1 \in DOMAIN calls' /\ 0 + 1 = 1
      BY <2>5, <3>4, <3>5
    <3> QED
      BY <3>2, <3>3, <3>6 DEF Latest
  <2>7. SettingsShape'
    BY <1>2, <1>3, <2>5 DEF SettingsShape
  <2>8. RowCalls'
    BY <2>2, <2>3, <2>5 DEF RowCalls
  <2>9. RowsDue'
    <3>1. Wanted(None)' = arg
      BY <1>1, <1>2, <1>3, <2>3 DEF Wanted, ListOf
    <3>2. RowsAsked(None)'
      BY <1>2, <2>5, <2>6, <3>1 DEF RowsAsked
    <3> QED
      BY <3>2 DEF RowsDue
  <2>10. TableInv'
    BY <1>2, <2>5, <2>8, <2>9 DEF TableInv, T!SettingsConstants
  <2>11. p = "Settings" => FormInv'
    <3> SUFFICES ASSUME p = "Settings" PROVE FormInv'
      OBVIOUS
    <3>1. \A a : ~Flying("settings", a, calls') /\ ~Flying("put", a, calls')
      BY <2>5
    <3>2. Asks("put", view'.value, calls')
      BY <2>5
    <3>3. tab = "notifications"
      BY <1>5
    <3> QED
      BY <1>1, <1>2, <1>3, <3>1, <3>2, <3>3 DEF FormInv, FormShown
  <2> QED
    BY <1>1, <1>4, <2>7, <2>10, <2>11 DEF SettingsInv
<1>6. CASE /\ p = "Settings" /\ tab = "general" /\ busy = FALSE
           /\ T!Mount(p, refs, T!AtFirst(rows), <<T!Call("settings", "stored")>>)
  <2>1. Mount(p, refs, T!AtFirst(rows), <<Call("settings", "stored")>>)
    BY <1>6, SettingsConsole
  <2>2. /\ AreCalls(calls') /\ \A o, a : Flying(o, a, calls') <=> o = "settings" /\ a = "stored"
        /\ \A ops : "settings" \in ops => InFlight(ops)'
        /\ \A o, a : o # "settings" \/ a = "stored" => Asks(o, a, calls')
    BY <2>1, MountOne, MountLone
  <2>3. SettingsShape'
    BY <1>2, <1>3, <2>2 DEF SettingsShape
  <2>4. RowCalls'
    BY <2>2 DEF RowCalls
  <2>5. RowsDue'
    <3>1. RowsAsked(None)'
      BY <1>2, <1>6, <2>2 DEF RowsAsked
    <3> QED
      BY <3>1 DEF RowsDue
  <2>6. TableInv'
    BY <1>2, <1>6, <2>4, <2>5 DEF TableInv, T!SettingsConstants
  <2>7. FormInv'
    <3>1. \A a : Flying("settings", a, calls') \/ Flying("put", a, calls') => a = "stored"
      BY <2>2
    <3>2. Asks("put", view'.value, calls') /\ InFlight({"settings"})'
      BY <2>2
    <3> QED
      BY <1>2, <1>3, <3>1, <3>2 DEF FormInv, FormShown
  <2> QED
    BY <1>1, <1>4, <2>3, <2>6, <2>7 DEF SettingsInv
<1> QED
  BY <1>5, <1>6

LEMMA EnvironmentMounted ==
  ASSUME T!SettingsConstants, T!EnterEnvironment PROVE SettingsInv'
<1> DEFINE refs == [value |-> "default", edited |-> FALSE, loading |-> TRUE,
                    saving |-> FALSE, testing |-> None, reading |-> FALSE, listing |-> FALSE,
                    calm |-> TRUE]
           rows == [n \in Ids |-> None]
<1>1. Mount("Environment", refs, T!AtFirst(rows), <<Call("settings", "stored")>>)
  BY SettingsConsole DEF T!EnterEnvironment
<1>2. /\ DOMAIN refs = EnvironmentFields /\ refs.value = "default" /\ refs.edited = FALSE
      /\ refs.loading = TRUE /\ refs.saving = FALSE /\ refs.testing = None
      /\ refs.reading = FALSE /\ refs.listing = FALSE /\ refs.calm = TRUE
  BY DEF EnvironmentFields
<1>3. rows \in RowSets
  BY DEF RowSets
<1> HIDE DEF refs, rows
<1>4. /\ AreCalls(calls') /\ \A o, a : Flying(o, a, calls') <=> o = "settings" /\ a = "stored"
      /\ \A ops : "settings" \in ops => InFlight(ops)'
      /\ \A o, a : o # "settings" \/ a = "stored" => Asks(o, a, calls')
  BY <1>1, MountOne, MountLone
<1>5. page' = "Environment" /\ view' = refs /\ world' = T!AtFirst(rows)
  BY <1>1 DEF Mount
<1>6. /\ world'.rows = rows /\ world'.value = "stored" /\ world'.store = "stored"
      /\ world' = [rows |-> world'.rows, value |-> world'.value, store |-> world'.store]
      /\ {"stored", "default"} \subseteq SettingValues
  BY <1>5 DEF T!AtFirst, SettingValues
<1>7. SettingsShape'
  BY <1>2, <1>3, <1>4, <1>5, <1>6 DEF SettingsShape
<1>8. FormInv'
  BY <1>2, <1>4, <1>5, <1>6 DEF FormInv, FormShown
<1>9. EnvironmentInv'
  BY <1>2, <1>4, <1>5, <1>6 DEF EnvironmentInv
<1> QED
  BY <1>5, <1>7, <1>8, <1>9 DEF SettingsInv, T!Tables

LEMMA SettingsEntered ==
  ASSUME T!SettingsConstants, T!Enter PROVE SettingsInv'
<1>1. \A rows \in [Ids -> {CHOOSE c \in RowContents : TRUE, None}] : rows \in RowSets
  BY DEF T!SettingsConstants, RowSets
<1>2. ASSUME NEW p \in T!Tables, p # "Settings", T!EnterTable(p) PROVE SettingsInv'
  <2>1. PICK busy \in BOOLEAN : busy = (p \in {"Apps", "BuildConfigs"})
    BY MemberOrNot
  <2>2. PICK rows \in [Ids -> {CHOOSE c \in RowContents : TRUE, None}] :
          T!Mount(p, T!TableRefs(busy), T!AtFirst(rows), <<T!List(T!TableRefs(busy), rows)>>)
    BY <1>2, <2>1 DEF T!EnterTable
  <2>3. PICK refs : refs = T!TableRefs(busy)
    OBVIOUS
  <2>5. T!Mount(p, refs, T!AtFirst(rows), <<T!List(refs, rows)>>)
    BY <2>2, <2>3
  <2> QED
    BY <1>1, <1>2, <2>3, <2>5, TableMounted
<1>3. ASSUME NEW tab \in {"general", "notifications"}, T!EnterSettings(tab) PROVE SettingsInv'
  <2> DEFINE refs == [T!TableRefs(FALSE) EXCEPT !.tab = tab]
  <2>1. PICK rows \in [Ids -> {CHOOSE c \in RowContents : TRUE, None}] :
          T!Mount("Settings", refs, T!AtFirst(rows),
                  <<IF tab = "general" THEN T!Call("settings", "stored") ELSE T!List(refs, rows)>>)
    BY <1>3 DEF T!EnterSettings
  <2>2. \/ /\ tab # "general"
           /\ T!Mount("Settings", refs, T!AtFirst(rows), <<T!List(refs, rows)>>)
        \/ /\ tab = "general"
           /\ T!Mount("Settings", refs, T!AtFirst(rows), <<T!Call("settings", "stored")>>)
    <3>1. CASE tab = "general"
      BY <2>1, <3>1
    <3>2. CASE tab # "general"
      BY <2>1, <3>2
    <3> QED
      BY <3>1, <3>2
  <2>3. "Settings" \in T!Tables /\ rows \in RowSets
    BY <1>1 DEF T!Tables
  <2> QED
    BY <2>2, <2>3, TableMounted DEF refs
<1> QED
  BY <1>2, <1>3, EnvironmentMounted DEF T!Enter, T!EnterApps, T!EnterBuildConfigs,
     T!EnterConfigItems, T!Tables

LEMMA OutsideSettings ==
  page' \notin T!Tables \cup T!Forms => SettingsInv'
  BY DEF SettingsInv, T!Forms

LEMMA SettingsUnchanged ==
  ASSUME SettingsInv, UNCHANGED console PROVE SettingsInv'
<1>1. UNCHANGED <<page, view, calls, world>>
  BY DEF console
<1>2. SettingsShape => SettingsShape'
  BY <1>1 DEF SettingsShape
<1>3. TableInv => TableInv'
  BY <1>1 DEF TableInv, RowCalls, RowsDue, RowsAsked, Wanted, InFlight
<1>4. FormInv => FormInv'
  BY <1>1 DEF FormInv, FormShown, InFlight
<1>5. EnvironmentInv => EnvironmentInv'
  BY <1>1 DEF EnvironmentInv, InFlight
<1> QED
  BY <1>1, <1>2, <1>3, <1>4, <1>5 DEF SettingsInv

LEMMA SettingsClicked ==
  ASSUME SettingsInv, T!SettingsConstants, page \in T!Tables \cup T!Forms, T!UserActs
  PROVE  SettingsInv'
<1>1. CASE page \in T!Tables
  <2>1. ~T!saveSettings /\ ~T!handleReadKubeconfig /\ ~T!handleLoadNamespaces
        /\ \A type : ~T!testConnection(type)
    BY <1>1 DEF T!saveSettings, T!handleReadKubeconfig, T!handleLoadNamespaces,
       T!testConnection, T!OnForm, T!On, T!Tables
  <2>2. ASSUME \/ \E text \in TableSearches : T!TypeSearch(text)
               \/ \E n \in PageNos : T!handlePageChange(n)
               \/ T!handleSearch \/ T!handleSizeChange
        PROVE  SettingsInv'
    BY <1>1, <2>2, TableTyped, TableControls
  <2>3. ASSUME \/ T!handleAdd \/ T!CloseForm \/ \E c \in RowContents : T!FillForm(c)
               \/ \E id \in Ids : T!handleEdit(id)
        PROVE  SettingsInv'
    BY <1>1, <2>3, RowForms
  <2>4. ASSUME T!handleSave \/ \E id \in Ids : T!handleDelete(id) \/ T!handleTestNotify(id)
        PROVE  SettingsInv'
    BY <1>1, <2>4, RowSends
  <2>5. ASSUME \/ \E tab \in {"general", "notifications"} : T!SwitchTab(tab)
               \/ T!TypeSetting \/ T!handleSaveGeneral
        PROVE  SettingsInv'
    BY <2>5, TabSwitched, SettingTyped, GeneralSaved
  <2> QED
    BY <2>1, <2>2, <2>3, <2>4, <2>5 DEF T!UserActs
<1>2. CASE page = "Environment"
  <2>1. ~T!handleSearch /\ ~T!handleSizeChange /\ ~T!handleAdd /\ ~T!CloseForm /\ ~T!handleSave
        /\ ~T!handleSaveGeneral
    BY <1>2 DEF T!handleSearch, T!handleSizeChange, T!handleAdd, T!HasTable, T!CloseForm,
       T!handleSave, T!handleSaveGeneral, T!On, T!Tables
  <2>2. \A x : /\ ~T!TypeSearch(x) /\ ~T!handlePageChange(x) /\ ~T!FillForm(x)
               /\ ~T!handleEdit(x) /\ ~T!handleDelete(x) /\ ~T!handleTestNotify(x)
               /\ ~T!SwitchTab(x)
    BY <1>2 DEF T!TypeSearch, T!handlePageChange, T!FillForm, T!handleEdit, T!handleDelete,
       T!OnRow, T!HasTable, T!handleTestNotify, T!SwitchTab, T!On, T!Tables
  <2> QED
    BY <1>2, <2>1, <2>2, SettingTyped, EnvironmentSaved, EnvironmentAsks DEF T!UserActs
<1> QED
  BY <1>1, <1>2 DEF T!Tables, T!Forms

LEMMA SettingsAnswered ==
  ASSUME SettingsInv, T!Arrivals PROVE SettingsInv'
<1>1. PICK i \in DOMAIN calls :
         \/ T!TestAnswered(i) \/ T!ProbeAnswered(i)
         \/ \E ok \in BOOLEAN :
               \/ T!RowsArrive(i, ok) \/ T!RowSaved(i, ok) \/ T!RowDeleted(i, ok)
               \/ T!SettingsArrive(i, ok) \/ T!SettingsPut(i, ok) \/ T!StoreArrives(i, ok)
               \/ T!KubeconfigArrives(i, ok) \/ T!NamespacesArrive(i, ok)
  BY DEF T!Arrivals
<1>2. ASSUME NEW ok \in BOOLEAN, T!RowsArrive(i, ok) \/ T!RowSaved(i, ok) \/ T!RowDeleted(i, ok)
      PROVE  SettingsInv'
  BY <1>2, RowsShown, RowsSavedOrDeleted
<1>3. ASSUME NEW ok \in BOOLEAN,
             T!SettingsArrive(i, ok) \/ T!SettingsPut(i, ok) \/ T!StoreArrives(i, ok)
      PROVE  SettingsInv'
  BY <1>3, FormLoaded, FormStored, StoreTold
<1>4. ASSUME NEW ok \in BOOLEAN,
             T!ProbeAnswered(i) \/ T!KubeconfigArrives(i, ok) \/ T!NamespacesArrive(i, ok)
      PROVE  SettingsInv'
  BY <1>4, EnvironmentAnswered
<1> QED
  BY <1>1, <1>2, <1>3, <1>4, TestEnds

LEMMA SettingsVisit ==
  ASSUME T!SettingsConstants, SettingsInv, [T!Enter \/ T!Leave \/ T!Next]_console
  PROVE  SettingsInv'
<1>1. CASE T!Enter
  BY <1>1, SettingsEntered
<1>2. CASE T!Leave
  <2>1. page' = None
    BY <1>2 DEF T!Leave, T!LeaveWith
  <2> QED
    BY <2>1, OutsideSettings DEF T!SettingsConstants
<1>3. CASE T!Next
  BY <1>3, SettingsClicked, SettingsAnswered DEF T!Next
<1>4. CASE UNCHANGED console
  BY <1>4, SettingsUnchanged
<1> QED
  BY <1>1, <1>2, <1>3, <1>4

LEMMA SettingsPromises ==
  ASSUME SettingsInv
  PROVE  /\ T!TypeOK /\ T!BusyEnds /\ T!WritesOwnSubject /\ T!RowsOfControls /\ T!FormIsServed
<1>1. T!WritesOwnSubject
  <2> SUFFICES ASSUME page \in T!Tables, NEW i \in DOMAIN calls, calls[i].op = "save"
               PROVE  calls[i].arg.id = calls[i].arg.form.of
    BY SettingsConsole DEF T!WritesOwnSubject
  <2>1. Flying("save", calls[i].arg, calls)
    BY DEF Flying
  <2> QED
    BY <2>1 DEF SettingsInv, TableInv, RowCalls
<1>2. T!RowsOfControls
  <2> SUFFICES ASSUME page \in T!Tables, calls = <<>>, view.calm, view.tab # "general"
               PROVE  /\ view.rows.seen = world.rows /\ view.rows.page = view.page
                      /\ view.typing \/ view.rows.search = view.search
    BY DEF T!RowsOfControls
  <2>1. PICK text : RowsAsked(text)
    BY DEF SettingsInv, TableInv, RowsDue
  <2>2. DOMAIN calls = {}
    OBVIOUS
  <2>3. view.rows = Wanted(text)
    BY <2>1, <2>2 DEF RowsAsked, Latest
  <2> QED
    BY <2>1, <2>3 DEF RowsAsked, Wanted
<1>3. T!FormIsServed
  <2> SUFFICES ASSUME page \in T!Forms, calls = <<>>, view.calm
               PROVE  /\ \/ view.edited \/ (page = "Settings" /\ view.tab = "notifications")
                         \/ view.value = world.value
                      /\ page = "Environment" => world.store = world.value
    BY DEF T!FormIsServed, T!On
  <2>1. DOMAIN calls = {}
    OBVIOUS
  <2> QED
    BY <2>1 DEF SettingsInv, FormInv, FormShown, EnvironmentInv, Latest, InFlight
<1>4. T!BusyEnds
  <2>1. view.testing # None /\ page = "Environment" =>
          \E i \in T!Indices("probe") : calls[i].arg = view.testing
    BY SettingsConsole DEF SettingsInv, EnvironmentInv, Flying
  <2> QED
    BY <2>1, SettingsConsole DEF T!BusyEnds, T!On, SettingsInv, TableInv, EnvironmentInv
<1>5. T!TypeOK
  <2>1. page \in T!Tables \cup T!Forms => world \in T!Served
    BY DEF SettingsInv, SettingsShape, T!Served, RowSets, SettingValues
  <2>2. page \in T!Tables =>
          /\ view.rows = None \/ view.rows.seen \in [Ids -> RowContents \cup {None}]
          /\ view.page \in PageNos /\ view.search \in TableSearches \cup {None}
          /\ view.edit \in Ids \cup {None} /\ view.form \in T!FormType \cup {None}
          /\ {view.loading, view.typing, view.calm} \subseteq BOOLEAN
    BY DEF SettingsInv, SettingsShape, TableInv, RowSets
  <2>3. page = "Environment" =>
          /\ view.testing \in Probes \cup {None}
          /\ {view.edited, view.loading, view.saving, view.reading, view.listing,
              view.calm} \subseteq BOOLEAN
    BY DEF SettingsInv, SettingsShape, FormInv, EnvironmentInv, T!Forms
  <2> QED
    BY <2>1, <2>2, <2>3 DEF T!TypeOK, T!On
<1> QED
  BY <1>1, <1>2, <1>3, <1>4, <1>5

\* The settings views alone.
SettingsVisits == Init /\ [][T!Enter \/ T!Leave \/ T!Next]_console

LEMMA SettingsInvariant ==
  ASSUME T!SettingsConstants PROVE SettingsVisits => []SettingsInv
<1>1. Init => SettingsInv
  BY DEF Init, SettingsInv, T!SettingsConstants, T!Forms
<1>2. SettingsInv /\ [T!Enter \/ T!Leave \/ T!Next]_console => SettingsInv'
  BY SettingsVisit
<1> QED
  BY <1>1, <1>2, PTL DEF SettingsVisits

\* A row is saved with the content of the form that was filled from it, and a form
\* that was opened empty makes a new row, whatever was opened and closed meanwhile.
THEOREM RowsWriteTheirOwn ==
  ASSUME T!SettingsConstants PROVE SettingsVisits => []T!WritesOwnSubject
  BY SettingsInvariant, SettingsPromises, PTL

\* Once everything is answered, in turn, a table shows what the server holds for the
\* page and the text of its controls.
THEOREM TablesShowTheirRows ==
  ASSUME T!SettingsConstants PROVE SettingsVisits => []T!RowsOfControls
  BY SettingsInvariant, SettingsPromises, PTL

\* A form over the settings that nobody edited since it was loaded or saved is what
\* the server holds, and so is what the rest of the console was told.
THEOREM FormsShowTheSettings ==
  ASSUME T!SettingsConstants PROVE SettingsVisits => []T!FormIsServed
  BY SettingsInvariant, SettingsPromises, PTL

\* No overlay or spinner of a settings view stays up without a call that will end it.
THEOREM SettingsNeverStuck ==
  ASSUME T!SettingsConstants PROVE SettingsVisits => []T!BusyEnds
  BY SettingsInvariant, SettingsPromises, PTL

-----------------------------------------------------------------------------
(* The Kubernetes view *)

CONSTANTS KubernetesClicks, Tabs, Namespaces, InitialNs, Names, Workloads, VersionLists,
          WebMain, AppRank

K == INSTANCE KubernetesPage WITH MaxClicks <- KubernetesClicks, Rank <- AppRank

LEMMA KubernetesConsole ==
  /\ \A new : K!Send(new) <=> Send(new)
  /\ \A i, new : K!Reply(i, new) <=> Reply(i, new)
  /\ \A op, arg : K!Call(op, arg) = Call(op, arg)
  /\ \A op, i : i \in K!Indices(op) <=> i \in DOMAIN calls /\ calls[i].op = op
  /\ \A op : K!Indices(op) = Indices(op)
  /\ \A ops : K!InFlight(ops) <=> InFlight(ops)
  /\ \A p, refs, servers, new : K!Mount(p, refs, servers, new) <=> Mount(p, refs, servers, new)
  BY Zenon DEF K!Send, Send, K!Reply, Reply, K!Sent, Sent, K!Outdates, Outdates, K!Without,
     Without, K!Call, Call, K!Indices, Indices, K!InFlight, InFlight, K!Mount, Mount

KubernetesFields == {"ns", "tab", "listed", "loading", "rows", "top", "versions", "sync",
                     "dialog", "body", "busy", "due", "calm"}

ClusterTypes ==
  /\ DOMAIN view = KubernetesFields
  /\ view.ns \in Namespaces /\ view.tab \in Tabs
  /\ view.rows \in [Tabs -> Namespaces \cup {None}]
  /\ view.top \in Namespaces \cup {None}
  /\ view.sync \in Names \cup {"all", None}
  /\ view.dialog \in K!Dialogs \cup {None} /\ view.body \in K!Contents \cup {None}
  /\ view.due \in Nat
  /\ view.listed \in BOOLEAN /\ view.loading \in BOOLEAN
  /\ view.busy \in BOOLEAN /\ view.calm \in BOOLEAN

ClusterCalls ==
  /\ AreCalls(calls)
  /\ \A a : Flying("load", a, calls) => a \in [tab : Tabs, ns : Namespaces]
  /\ \A a : Flying("top", a, calls) => a.ns \in Namespaces
  /\ \A k \in K!ContentKinds : \A a : Flying(k, a, calls) => a \in K!Contents

\* What the tab and the namespace shown ask for, and who a dialog is about.
Wished == [tab |-> view.tab, ns |-> view.ns]
OfDialog == [name |-> view.dialog.name, ns |-> view.dialog.ns]

ClusterBusy ==
  /\ view.loading => InFlight({"load"}) \/ InFlight({"top"})
  /\ view.busy => /\ view.dialog # None /\ view.dialog.kind \in K!ContentKinds
                  /\ InFlight({view.dialog.kind})
  /\ view.sync # None => InFlight({"sync"})

\* The rows of the tab shown are of the namespace shown, or about to come.
RowsOfNamespace ==
  view.calm =>
  /\ Asks("load", Wished, calls)
  /\ (view.loading /\ InFlight({"load"})) \/ view.rows[view.tab] \in {None, view.ns}

\* A dialog is about a resource of the namespace shown, and so is what it loads.
DialogOfNamespace ==
  /\ view.dialog = None \/ view.dialog.kind \notin K!ContentKinds => view.body = None
  /\ view.calm /\ view.dialog # None =>
       /\ view.dialog.ns = view.ns /\ view.body \in {None, OfDialog}
       /\ view.dialog.kind \in K!ContentKinds => Asks(view.dialog.kind, OfDialog, calls)

ClusterWrites ==
  view.calm => \A a : Flying("write", a, calls) =>
                 a.from = a.ns /\ a.data \in {None, [name |-> a.name, ns |-> a.ns]}

ClusterInv ==
  page = "Kubernetes" =>
  /\ ClusterTypes /\ ClusterCalls /\ ClusterBusy
  /\ RowsOfNamespace /\ DialogOfNamespace /\ ClusterWrites

-----------------------------------------------------------------------------
(* What a step that leaves a part alone keeps. *)

LEMMA DialogKept ==
  ASSUME DialogOfNamespace, view'.dialog = view.dialog, view'.body = view.body,
         view'.calm => view.calm,
         view'.calm /\ view.dialog # None => view'.ns = view.ns,
         \A o \in K!ContentKinds : LeftAlone(o)
  PROVE  DialogOfNamespace'
<1>1. view.dialog = None \/ view.dialog.kind \notin K!ContentKinds => view'.body = None
  BY DEF DialogOfNamespace
<1>2. ASSUME view'.calm, view.dialog # None
      PROVE  /\ view.dialog.ns = view'.ns /\ view'.body \in {None, OfDialog}
             /\ view.dialog.kind \in K!ContentKinds =>
                  Asks(view.dialog.kind, OfDialog, calls')
  BY <1>2 DEF DialogOfNamespace, LeftAlone
<1>3. OfDialog' = OfDialog
  BY DEF OfDialog
<1> QED
  BY <1>1, <1>2, <1>3 DEF DialogOfNamespace

LEMMA SpinnersKept ==
  ASSUME ClusterBusy, view'.dialog = view.dialog, view'.busy => view.busy,
         view'.sync # None => view.sync = view'.sync /\ LeftAlone("sync"),
         view'.loading => InFlight({"load"})' \/ InFlight({"top"})',
         \A o \in K!ContentKinds : LeftAlone(o)
  PROVE  ClusterBusy'
<1>1. ASSUME view'.busy
      PROVE  /\ view'.dialog # None /\ view'.dialog.kind \in K!ContentKinds
             /\ \E a : Flying(view'.dialog.kind, a, calls')
  BY <1>1, FlightFlies DEF ClusterBusy, LeftAlone
<1>2. view'.sync # None => \E a : Flying("sync", a, calls')
  BY FlightFlies DEF ClusterBusy, LeftAlone
<1> QED
  BY <1>1, <1>2, FlightFlies DEF ClusterBusy

LEMMA ClusterWritesKept ==
  ASSUME ClusterWrites, view'.calm => view.calm, LeftAlone("write")
  PROVE  ClusterWrites'
  BY DEF ClusterWrites, LeftAlone

LEMMA ClusterCallsKept ==
  ASSUME ClusterCalls, AreCalls(calls'),
         \A a : Flying("load", a, calls') =>
                  Flying("load", a, calls) \/ a \in [tab : Tabs, ns : Namespaces],
         \A a : Flying("top", a, calls') => Flying("top", a, calls) \/ a.ns \in Namespaces,
         \A k \in K!ContentKinds : \A a : Flying(k, a, calls') =>
                  Flying(k, a, calls) \/ a \in K!Contents
  PROVE  ClusterCalls'
  BY DEF ClusterCalls

LEMMA RowsKept ==
  ASSUME RowsOfNamespace, view'.rows = view.rows, view'.tab = view.tab, view'.ns = view.ns,
         view'.calm => view.calm, view'.loading = view.loading, LeftAlone("load")
  PROVE  RowsOfNamespace'
<1>1. Wished' = Wished
  BY DEF Wished
<1>2. ASSUME view'.calm
      PROVE  /\ Asks("load", Wished, calls')
             /\ (view.loading /\ \E a : Flying("load", a, calls'))
                \/ view.rows[view.tab] \in {None, view.ns}
  BY <1>2, FlightFlies DEF RowsOfNamespace, LeftAlone
<1> QED
  BY <1>1, <1>2, FlightFlies DEF RowsOfNamespace

-----------------------------------------------------------------------------
(* Loads *)

\* The rows of what is shown are asked for, under the overlay.
LEMMA RowsLoad ==
  ASSUME ClusterInv, page = "Kubernetes", page' = page,
         DOMAIN view' = KubernetesFields,
         view'.ns \in Namespaces, view'.tab \in Tabs, view'.due \in Nat,
         view'.listed \in BOOLEAN, view'.calm \in BOOLEAN,
         view'.rows = view.rows, view'.top = view.top, view'.sync = view.sync,
         view'.dialog = view.dialog, view'.body = view.body, view'.busy = view.busy,
         view'.loading = TRUE, view'.calm => view.calm,
         view'.calm /\ view.dialog # None => view'.ns = view.ns,
         AreCalls(calls'),
         \A o \in K!ContentKinds \cup {"write", "top", "sync"} : LeftAlone(o),
         \A a : Flying("load", a, calls') => Flying("load", a, calls) \/ a = Wished',
         Asks("load", Wished', calls'), InFlight({"load"})'
  PROVE  ClusterInv'
<1>1. /\ ClusterTypes /\ ClusterCalls /\ ClusterBusy
      /\ RowsOfNamespace /\ DialogOfNamespace /\ ClusterWrites
  BY DEF ClusterInv
<1>2. ClusterTypes'
  BY <1>1 DEF ClusterTypes
<1>3. ClusterCalls'
  <2>1. Wished' \in [tab : Tabs, ns : Namespaces]
    BY DEF Wished
  <2> QED
    BY <1>1, <2>1, ClusterCallsKept DEF LeftAlone
<1>4. ClusterBusy'
  BY <1>1, SpinnersKept
<1>5. RowsOfNamespace'
  BY DEF RowsOfNamespace
<1>6. DialogOfNamespace'
  BY <1>1, DialogKept
<1>7. ClusterWrites'
  BY <1>1, ClusterWritesKept
<1> QED
  BY <1>2, <1>3, <1>4, <1>5, <1>6, <1>7 DEF ClusterInv

\* A load that is sent by the code of the view itself.
LEMMA LoadSent ==
  ASSUME ClusterInv, page = "Kubernetes", page' = page, NEW refs,
         DOMAIN refs = KubernetesFields,
         refs.ns \in Namespaces, refs.tab \in Tabs, refs.due \in Nat,
         refs.listed = view.listed, refs.rows = view.rows, refs.top = view.top,
         refs.sync = view.sync, refs.dialog = view.dialog, refs.body = view.body,
         refs.busy = view.busy, refs.calm = view.calm,
         view.dialog # None => refs.ns = view.ns,
         view' = K!loadTab(refs), K!Send(<<K!LoadCall(refs)>>)
  PROVE  ClusterInv'
<1>1. /\ DOMAIN view' = DOMAIN refs /\ view'.loading = TRUE
      /\ view'.ns = refs.ns /\ view'.tab = refs.tab /\ view'.due = refs.due
      /\ view'.listed = refs.listed /\ view'.rows = refs.rows /\ view'.top = refs.top
      /\ view'.sync = refs.sync /\ view'.dialog = refs.dialog /\ view'.body = refs.body
      /\ view'.busy = refs.busy /\ view'.calm = refs.calm
  BY DEF K!loadTab, KubernetesFields
<1>2. PICK arg : arg = [tab |-> refs.tab, ns |-> refs.ns]
  OBVIOUS
<1>3. arg = Wished'
  BY <1>1, <1>2 DEF Wished
<1>4. Send(<<Call("load", arg)>>)
  BY <1>2, KubernetesConsole DEF K!LoadCall
<1>5. AreCalls(calls) /\ view.calm \in BOOLEAN /\ view.listed \in BOOLEAN
  BY DEF ClusterInv, ClusterCalls, ClusterTypes
<1>6. /\ AreCalls(calls') /\ InFlight({"load"})'
      /\ \A a : Flying("load", a, calls') => Flying("load", a, calls) \/ a = arg
  BY <1>4, <1>5, SendOne
<1>7. Asks("load", arg, calls')
  BY <1>4, <1>5, SendAsks
<1>8. \A o \in K!ContentKinds \cup {"write", "top", "sync"} : LeftAlone(o)
  BY <1>4, <1>5, SendLeaves DEF K!ContentKinds
<1> QED
  BY <1>1, <1>3, <1>5, <1>6, <1>7, <1>8, RowsLoad

LEMMA ClusterLoads ==
  ASSUME ClusterInv,
         \/ \E ns \in Namespaces : K!SelectNamespace(ns)
         \/ \E tab \in Tabs : K!SelectTab(tab)
         \/ K!Refresh \/ K!ReloadDue
  PROVE  ClusterInv'
<1>1. /\ page = "Kubernetes"
      /\ page' = page
  BY DEF K!SelectNamespace, K!SelectTab, K!Refresh, K!ReloadDue, K!Here, K!User, K!Answer
<1>2. ClusterTypes
  BY <1>1 DEF ClusterInv
<1>3. ASSUME NEW ns \in Namespaces, K!SelectNamespace(ns) PROVE ClusterInv'
  <2>1. PICK refs : /\ refs = [view EXCEPT !.ns = ns]
                    /\ view' = K!loadTab(refs) /\ K!Send(<<K!LoadCall(refs)>>)
                    /\ view.dialog = None
    BY <1>3 DEF K!SelectNamespace
  <2>2. /\ DOMAIN refs = KubernetesFields /\ refs.ns = ns /\ refs.tab = view.tab
        /\ refs.due = view.due /\ refs.listed = view.listed /\ refs.rows = view.rows
        /\ refs.top = view.top /\ refs.sync = view.sync /\ refs.dialog = view.dialog
        /\ refs.body = view.body /\ refs.busy = view.busy /\ refs.calm = view.calm
    BY <1>2, <2>1 DEF ClusterTypes, KubernetesFields
  <2>3. refs.tab \in Tabs /\ refs.due \in Nat
    BY <1>2, <2>2 DEF ClusterTypes
  <2> QED
    BY <1>1, <2>1, <2>2, <2>3, LoadSent
<1>4. ASSUME NEW tab \in Tabs, K!SelectTab(tab) PROVE ClusterInv'
  <2>1. PICK refs : /\ refs = [view EXCEPT !.tab = tab]
                    /\ view' = K!loadTab(refs) /\ K!Send(<<K!LoadCall(refs)>>)
    BY <1>4 DEF K!SelectTab
  <2>2. /\ DOMAIN refs = KubernetesFields /\ refs.ns = view.ns /\ refs.tab = tab
        /\ refs.due = view.due /\ refs.listed = view.listed /\ refs.rows = view.rows
        /\ refs.top = view.top /\ refs.sync = view.sync /\ refs.dialog = view.dialog
        /\ refs.body = view.body /\ refs.busy = view.busy /\ refs.calm = view.calm
    BY <1>2, <2>1 DEF ClusterTypes, KubernetesFields
  <2>3. refs.ns \in Namespaces /\ refs.due \in Nat
    BY <1>2, <2>2 DEF ClusterTypes
  <2> QED
    BY <1>1, <2>1, <2>2, <2>3, LoadSent
<1>5. CASE K!Refresh
  <2>1. DOMAIN view = KubernetesFields /\ view.ns \in Namespaces /\ view.tab \in Tabs
        /\ view.due \in Nat
    BY <1>2 DEF ClusterTypes
  <2>2. view' = K!loadTab(view) /\ K!Send(<<K!LoadCall(view)>>)
    BY <1>5 DEF K!Refresh
  <2> QED
    BY <1>1, <2>1, <2>2, LoadSent
<1>6. CASE K!ReloadDue
  <2>1. PICK refs : /\ refs = [view EXCEPT !.due = @ - 1]
                    /\ view' = K!loadTab(refs) /\ K!Send(<<K!LoadCall(view)>>)
                    /\ view.due > 0
    BY <1>6 DEF K!ReloadDue
  <2>2. /\ DOMAIN refs = KubernetesFields /\ refs.ns = view.ns /\ refs.tab = view.tab
        /\ refs.due = view.due - 1 /\ refs.listed = view.listed /\ refs.rows = view.rows
        /\ refs.top = view.top /\ refs.sync = view.sync /\ refs.dialog = view.dialog
        /\ refs.body = view.body /\ refs.busy = view.busy /\ refs.calm = view.calm
    BY <1>2, <2>1 DEF ClusterTypes, KubernetesFields
  <2>3. refs.ns \in Namespaces /\ refs.tab \in Tabs /\ refs.due \in Nat
    BY <1>2, <2>1, <2>2 DEF ClusterTypes
  <2>4. K!Send(<<K!LoadCall(refs)>>)
    BY <2>1, <2>2 DEF K!LoadCall
  <2> QED
    BY <1>1, <2>1, <2>2, <2>3, <2>4, LoadSent
<1> QED
  BY <1>3, <1>4, <1>5, <1>6

-----------------------------------------------------------------------------
(* Dialogs *)

\* What a step of the dialogs leaves alone.
DialogStep ==
  /\ page = "Kubernetes" /\ page' = page /\ DOMAIN view' = KubernetesFields
  /\ view'.ns = view.ns /\ view'.tab = view.tab /\ view'.listed = view.listed
  /\ view'.loading = view.loading /\ view'.rows = view.rows /\ view'.top = view.top
  /\ view'.sync = view.sync /\ view'.calm = view.calm
  /\ LeftAlone("load") /\ LeftAlone("top") /\ LeftAlone("sync") /\ AreCalls(calls')

LEMMA DialogsMove ==
  ASSUME ClusterInv, DialogStep,
         view'.dialog \in K!Dialogs \cup {None}, view'.body \in K!Contents \cup {None},
         view'.busy \in BOOLEAN, view'.due \in Nat,
         \A k \in K!ContentKinds : \A a :
             Flying(k, a, calls') => Flying(k, a, calls) \/ a \in K!Contents,
         view'.busy => /\ view'.dialog # None /\ view'.dialog.kind \in K!ContentKinds
                       /\ \E a : Flying(view'.dialog.kind, a, calls'),
         DialogOfNamespace', ClusterWrites'
  PROVE  ClusterInv'
<1>1. /\ ClusterTypes /\ ClusterCalls /\ ClusterBusy
      /\ RowsOfNamespace /\ DialogOfNamespace /\ ClusterWrites
  BY DEF ClusterInv, DialogStep
<1>2. ClusterTypes'
  BY <1>1 DEF ClusterTypes, DialogStep
<1>3. ClusterCalls'
  BY <1>1, ClusterCallsKept DEF DialogStep, LeftAlone
<1>4. ClusterBusy'
  <2>1. view'.loading => (\E a : Flying("load", a, calls')) \/ \E a : Flying("top", a, calls')
    BY <1>1, FlightFlies DEF ClusterBusy, DialogStep, LeftAlone
  <2>2. view'.sync # None => \E a : Flying("sync", a, calls')
    BY <1>1, FlightFlies DEF ClusterBusy, DialogStep, LeftAlone
  <2> QED
    BY <2>1, <2>2, FlightFlies DEF ClusterBusy
<1>5. RowsOfNamespace'
  BY <1>1, RowsKept DEF DialogStep
<1> QED
  BY <1>2, <1>3, <1>4, <1>5 DEF ClusterInv, DialogStep

\* A row that can be clicked is of the namespace shown.
LEMMA RowClicked ==
  ASSUME ClusterInv, NEW k, k \in K!WriteKinds \cup {"logs"}, NEW n \in Names,
         K!Row(K!TabOf[k])
  PROVE  /\ page = "Kubernetes" /\ view.dialog = None /\ view.body = None
         /\ view.busy = FALSE
         /\ K!Subject(k, n) \in K!Dialogs
         /\ K!Subject(k, n).kind = k /\ K!Subject(k, n).name = n
         /\ view.calm => K!Subject(k, n).ns = view.ns
<1>1. /\ page = "Kubernetes" /\ view.tab = K!TabOf[k] /\ view.rows[view.tab] # None
      /\ view.dialog = None /\ ~view.loading
  BY DEF K!Row, K!Here
<1>2. ClusterTypes /\ ClusterBusy /\ RowsOfNamespace /\ DialogOfNamespace
  BY <1>1 DEF ClusterInv
<1>3. PICK ns \in Namespaces : ns = view.rows[view.tab]
  BY <1>1, <1>2 DEF ClusterTypes
<1>4. K!Subject(k, n) = [kind |-> k, name |-> n, ns |-> ns]
  BY <1>1, <1>3 DEF K!Subject
<1>5. view.calm => ns = view.ns
  BY <1>1, <1>2, <1>3 DEF RowsOfNamespace
<1>6. view.body = None
  BY <1>1, <1>2 DEF DialogOfNamespace
<1>7. view.busy = FALSE
  BY <1>1, <1>2 DEF ClusterTypes, ClusterBusy
<1> QED
  BY <1>1, <1>4, <1>5, <1>6, <1>7 DEF K!Dialogs

LEMMA DialogAsked ==
  ASSUME ClusterInv, K!KubernetesConstants, NEW k \in K!WriteKinds \ K!ContentKinds,
         NEW n \in Names, K!Ask(k, n)
  PROVE  ClusterInv'
<1>1. K!Row(K!TabOf[k]) /\ page' = page /\ calls' = calls
  BY DEF K!Ask, K!User
<1>2. PICK d : d = K!Subject(k, n)
  OBVIOUS
<1>3. /\ page = "Kubernetes" /\ view.dialog = None /\ view.body = None /\ view.busy = FALSE
      /\ d \in K!Dialogs /\ d.kind = k /\ d.name = n
      /\ view.calm => d.ns = view.ns
  BY <1>1, <1>2, RowClicked
<1>4. ClusterTypes /\ ClusterCalls /\ ClusterWrites
  BY <1>3 DEF ClusterInv
<1>5. view' = [view EXCEPT !.dialog = d]
  BY <1>2 DEF K!Ask
<1>6. /\ DOMAIN view' = KubernetesFields /\ view'.dialog = d
      /\ view'.ns = view.ns /\ view'.tab = view.tab /\ view'.listed = view.listed
      /\ view'.loading = view.loading /\ view'.rows = view.rows /\ view'.top = view.top
      /\ view'.sync = view.sync /\ view'.calm = view.calm
      /\ view'.body = view.body /\ view'.busy = view.busy /\ view'.due = view.due
  BY <1>4, <1>5 DEF ClusterTypes, KubernetesFields
<1>7. \A o : LeftAlone(o)
  BY <1>1, AllLeft
<1>8. AreCalls(calls')
  BY <1>1, <1>4 DEF ClusterCalls
<1>9. DialogStep
  BY <1>1, <1>3, <1>6, <1>7, <1>8 DEF DialogStep
<1>10. DialogOfNamespace'
  BY <1>3, <1>6 DEF DialogOfNamespace
<1>11. ClusterWrites'
  BY <1>4, <1>6, <1>7, ClusterWritesKept
<1>12. view'.due \in Nat
  BY <1>4, <1>6 DEF ClusterTypes
<1>13. \A o, a : Flying(o, a, calls') => Flying(o, a, calls)
  BY <1>7 DEF LeftAlone
<1> QED
  BY <1>3, <1>6, <1>9, <1>10, <1>11, <1>12, <1>13, DialogsMove

LEMMA DialogLoads ==
  ASSUME ClusterInv, K!KubernetesConstants, NEW k \in K!ContentKinds,
         NEW n \in Names, K!OpenAndLoad(k, n)
  PROVE  ClusterInv'
<1>1. K!Row(K!TabOf[k]) /\ page' = page /\ k \in K!WriteKinds \cup {"logs"}
  BY DEF K!OpenAndLoad, K!User, K!ContentKinds, K!WriteKinds, K!FormKinds
<1>2. PICK d : d = K!Subject(k, n)
  OBVIOUS
<1>3. /\ page = "Kubernetes" /\ view.dialog = None /\ view.body = None /\ view.busy = FALSE
      /\ d \in K!Dialogs /\ d.kind = k /\ d.name = n
      /\ view.calm => d.ns = view.ns
  BY <1>1, <1>2, RowClicked
<1>4. ClusterTypes /\ ClusterCalls /\ ClusterWrites
  BY <1>3 DEF ClusterInv
<1>5. view' = [view EXCEPT !.dialog = d, !.body = None, !.busy = TRUE]
  BY <1>2 DEF K!OpenAndLoad
<1>6. /\ DOMAIN view' = KubernetesFields /\ view'.dialog = d
      /\ view'.ns = view.ns /\ view'.tab = view.tab /\ view'.listed = view.listed
      /\ view'.loading = view.loading /\ view'.rows = view.rows /\ view'.top = view.top
      /\ view'.sync = view.sync /\ view'.calm = view.calm
      /\ view'.body = None /\ view'.busy = TRUE /\ view'.due = view.due
  BY <1>4, <1>5 DEF ClusterTypes, KubernetesFields
<1>7. PICK arg : arg = [name |-> n, ns |-> view.ns]
  OBVIOUS
<1>8. Send(<<Call(k, arg)>>) /\ AreCalls(calls)
  BY <1>4, <1>7, KubernetesConsole DEF K!OpenAndLoad, ClusterCalls
<1>9. /\ AreCalls(calls') /\ Flying(k, arg, calls')
      /\ \A o, a : Flying(o, a, calls') => Flying(o, a, calls) \/ (o = k /\ a = arg)
  BY <1>8, SendOne
<1>10. \A o \in {"load", "top", "sync", "write"} : LeftAlone(o)
  BY <1>8, SendLeaves DEF K!ContentKinds
<1>11. DialogStep
  BY <1>1, <1>3, <1>6, <1>9, <1>10 DEF DialogStep
<1>12. Asks(k, arg, calls')
  BY <1>8, SendAsks
<1>13. view'.calm => arg = OfDialog'
  BY <1>3, <1>6, <1>7 DEF OfDialog
<1>14. d # None
  BY <1>3 DEF K!KubernetesConstants
<1>15. DialogOfNamespace'
  BY <1>3, <1>6, <1>12, <1>13, <1>14 DEF DialogOfNamespace
<1>16. ClusterWrites'
  BY <1>4, <1>6, <1>10, ClusterWritesKept
<1>17. view'.due \in Nat /\ arg \in K!Contents
  BY <1>4, <1>6, <1>7 DEF ClusterTypes, K!Contents
<1> QED
  BY <1>3, <1>6, <1>9, <1>11, <1>14, <1>15, <1>16, <1>17, DialogsMove

LEMMA DialogClosed ==
  ASSUME ClusterInv, K!CloseDialog PROVE ClusterInv'
<1>1. page = "Kubernetes" /\ page' = page /\ calls' = calls
  BY DEF K!CloseDialog, K!Here, K!User
<1>4. ClusterTypes /\ ClusterCalls /\ ClusterWrites
  BY <1>1 DEF ClusterInv
<1>5. view' = [view EXCEPT !.dialog = None, !.body = None, !.busy = FALSE]
  BY DEF K!CloseDialog
<1>6. /\ DOMAIN view' = KubernetesFields /\ view'.dialog = None
      /\ view'.ns = view.ns /\ view'.tab = view.tab /\ view'.listed = view.listed
      /\ view'.loading = view.loading /\ view'.rows = view.rows /\ view'.top = view.top
      /\ view'.sync = view.sync /\ view'.calm = view.calm
      /\ view'.body = None /\ view'.busy = FALSE /\ view'.due = view.due
  BY <1>4, <1>5 DEF ClusterTypes, KubernetesFields
<1>7. \A o : LeftAlone(o)
  BY <1>1, AllLeft
<1>8. AreCalls(calls')
  BY <1>1, <1>4 DEF ClusterCalls
<1>9. DialogStep
  BY <1>1, <1>6, <1>7, <1>8 DEF DialogStep
<1>10. DialogOfNamespace'
  BY <1>6 DEF DialogOfNamespace
<1>11. ClusterWrites'
  BY <1>4, <1>6, <1>7, ClusterWritesKept
<1>12. view'.due \in Nat
  BY <1>4, <1>6 DEF ClusterTypes
<1>13. \A o, a : Flying(o, a, calls') => Flying(o, a, calls)
  BY <1>7 DEF LeftAlone
<1> QED
  BY <1>6, <1>9, <1>10, <1>11, <1>12, <1>13, DialogsMove

\* A write is sent: about the dialog's row, with what the dialog holds.
LEMMA WriteSubmitted ==
  ASSUME ClusterInv, NEW k \in K!WriteKinds, NEW data \in {K!Own, view.body},
         K!Submit(k, data)
  PROVE  ClusterInv'
<1>1. /\ page = "Kubernetes" /\ page' = page /\ view.dialog # None /\ view.dialog.kind = k
      /\ \/ k \in K!PromptKinds /\ view' = [view EXCEPT !.dialog = None]
         \/ view' = view
  BY DEF K!Submit, K!Open, K!Here, K!User
<1>2. /\ ClusterTypes /\ ClusterCalls /\ ClusterBusy /\ DialogOfNamespace /\ ClusterWrites
  BY <1>1 DEF ClusterInv
<1>3. PICK arg : arg = [kind |-> k, name |-> view.dialog.name, ns |-> view.ns,
                        from |-> view.dialog.ns, data |-> data]
  OBVIOUS
<1>4. Send(<<Call("write", arg)>>) /\ AreCalls(calls)
  BY <1>2, <1>3, KubernetesConsole DEF K!Submit, ClusterCalls
<1>5. /\ DOMAIN view' = KubernetesFields
      /\ view'.dialog = view.dialog \/ (k \in K!PromptKinds /\ view'.dialog = None)
      /\ view'.ns = view.ns /\ view'.tab = view.tab /\ view'.listed = view.listed
      /\ view'.loading = view.loading /\ view'.rows = view.rows /\ view'.top = view.top
      /\ view'.sync = view.sync /\ view'.calm = view.calm
      /\ view'.body = view.body /\ view'.busy = view.busy /\ view'.due = view.due
  BY <1>1, <1>2 DEF ClusterTypes, KubernetesFields
<1>6. /\ AreCalls(calls') /\ \A ops : InFlight(ops) => InFlight(ops)'
      /\ \A o, a : Flying(o, a, calls') <=> Flying(o, a, calls) \/ (o = "write" /\ a = arg)
  BY <1>4, SendOne
<1>7. \A o \in K!ContentKinds \cup {"load", "top", "sync"} : LeftAlone(o)
  BY <1>4, SendLeaves DEF K!ContentKinds
<1>8. DialogStep
  BY <1>1, <1>5, <1>6, <1>7 DEF DialogStep
<1>9. k \in K!PromptKinds => view.body = None /\ view.busy = FALSE
  <2>1. \A x \in K!PromptKinds : x \notin K!ContentKinds
    BY DEF K!PromptKinds, K!ContentKinds
  <2> QED
    BY <1>1, <1>2, <2>1 DEF DialogOfNamespace, ClusterBusy, ClusterTypes
<1>10. DialogOfNamespace'
  <2>1. CASE view'.dialog = None
    <3>1. view.dialog # None
      BY <1>1
    <3>2. view'.body = None
      BY <1>5, <1>9, <2>1, <3>1
    <3> QED
      BY <2>1, <3>2 DEF DialogOfNamespace
  <2>2. CASE view'.dialog # None
    BY <1>2, <1>5, <1>7, <2>2, DialogKept
  <2> QED
    BY <2>1, <2>2
<1>11. ClusterWrites'
  <2>1. arg.from = view.dialog.ns /\ arg.ns = view.ns /\ arg.name = view.dialog.name
        /\ arg.data = data
    BY <1>3
  <2>2. view.calm => view.dialog.ns = view.ns /\ view.body \in {None, OfDialog}
    BY <1>1, <1>2 DEF DialogOfNamespace
  <2>3. K!Own = OfDialog
    BY DEF K!Own, OfDialog
  <2>4. view.calm => arg.from = arg.ns /\ arg.data \in {None, [name |-> arg.name, ns |-> arg.ns]}
    BY <2>1, <2>2, <2>3 DEF OfDialog
  <2> QED
    BY <1>2, <1>5, <1>6, <2>4 DEF ClusterWrites
<1>12. view'.busy => /\ view'.dialog # None /\ view'.dialog.kind \in K!ContentKinds
                     /\ \E a : Flying(view'.dialog.kind, a, calls')
  <2>1. CASE k \in K!PromptKinds
    BY <1>5, <1>9, <2>1
  <2>2. CASE k \notin K!PromptKinds
    <3>1. view'.dialog = view.dialog /\ view'.busy = view.busy
      BY <1>5, <2>2
    <3>2. view.busy => /\ view.dialog # None /\ view.dialog.kind \in K!ContentKinds
                       /\ \E a : Flying(view.dialog.kind, a, calls')
      BY <1>2, <1>7, FlightFlies DEF ClusterBusy, LeftAlone
    <3> QED
      BY <3>1, <3>2
  <2> QED
    BY <2>1, <2>2
<1>13. /\ view'.due \in Nat /\ view'.dialog \in K!Dialogs \cup {None}
       /\ view'.body \in K!Contents \cup {None} /\ view'.busy \in BOOLEAN
  BY <1>2, <1>5 DEF ClusterTypes
<1>14. \A o \in K!ContentKinds : \A a : Flying(o, a, calls') => Flying(o, a, calls)
  BY <1>6 DEF K!ContentKinds
<1> QED
  BY <1>8, <1>10, <1>11, <1>12, <1>13, <1>14, DialogsMove

LEMMA ClusterDialogs ==
  ASSUME ClusterInv, K!KubernetesConstants,
         \/ \E n \in Names :
               \/ K!handleRestart(n) \/ K!handleScale(n) \/ K!handleUpdateResources(n)
               \/ K!handleEditService(n) \/ K!handleDeleteService(n)
               \/ K!handleViewLogs(n) \/ K!handleUpdateImage(n) \/ K!handleEditConfigMap(n)
         \/ K!CloseDialog \/ K!ConfirmPrompt \/ K!handleSubmitImage
         \/ K!handleSubmitResources \/ K!handleSubmitService \/ K!handleSaveConfigMap
  PROVE  ClusterInv'
<1>1. ASSUME NEW n \in Names,
             \/ K!handleRestart(n) \/ K!handleScale(n) \/ K!handleUpdateResources(n)
             \/ K!handleEditService(n) \/ K!handleDeleteService(n)
      PROVE  ClusterInv'
  <2>1. \E k \in {"restart", "scale", "resources", "service", "deleteService"} : K!Ask(k, n)
    BY <1>1 DEF K!handleRestart, K!handleScale, K!handleUpdateResources, K!handleEditService,
       K!handleDeleteService
  <2>2. {"restart", "scale", "resources", "service", "deleteService"}
          \subseteq K!WriteKinds \ K!ContentKinds
    BY DEF K!WriteKinds, K!FormKinds, K!PromptKinds, K!ContentKinds
  <2> QED
    BY <2>1, <2>2, DialogAsked
<1>2. ASSUME NEW n \in Names,
             K!handleViewLogs(n) \/ K!handleUpdateImage(n) \/ K!handleEditConfigMap(n)
      PROVE  ClusterInv'
  <2>1. \E k \in K!ContentKinds : K!OpenAndLoad(k, n)
    BY <1>2 DEF K!handleViewLogs, K!handleUpdateImage, K!handleEditConfigMap, K!ContentKinds
  <2> QED
    BY <2>1, DialogLoads
<1>3. ASSUME \/ K!ConfirmPrompt \/ K!handleSubmitImage
             \/ K!handleSubmitResources \/ K!handleSubmitService \/ K!handleSaveConfigMap
      PROVE  ClusterInv'
  <2>1. \E k \in K!WriteKinds : \E data \in {K!Own, view.body} : K!Submit(k, data)
    BY <1>3 DEF K!ConfirmPrompt, K!handleSubmitImage, K!handleSubmitResources,
       K!handleSubmitService, K!handleSaveConfigMap, K!WriteKinds, K!FormKinds
  <2> QED
    BY <2>1, WriteSubmitted
<1> QED
  BY <1>1, <1>2, <1>3, DialogClosed

-----------------------------------------------------------------------------
(* Answers *)

\* The answers that bring no rows: what they leave alone.
LEMMA AnswersMove ==
  ASSUME ClusterInv, page = "Kubernetes", page' = page, ClusterTypes', ClusterBusy',
         RowsOfNamespace', DialogOfNamespace', view'.calm => view.calm,
         AreCalls(calls'), LeftAlone("write") \/
           \A a : Flying("write", a, calls') => Flying("write", a, calls),
         \A a : Flying("load", a, calls') =>
                  Flying("load", a, calls) \/ a \in [tab : Tabs, ns : Namespaces],
         \A a : Flying("top", a, calls') => Flying("top", a, calls) \/ a.ns \in Namespaces,
         \A k \in K!ContentKinds : \A a : Flying(k, a, calls') => Flying(k, a, calls)
  PROVE  ClusterInv'
<1>1. ClusterCalls /\ ClusterWrites
  BY DEF ClusterInv
<1>2. ClusterCalls'
  BY <1>1, ClusterCallsKept
<1>3. ClusterWrites'
  BY <1>1 DEF ClusterWrites, LeftAlone
<1> QED
  BY <1>2, <1>3 DEF ClusterInv

LEMMA ClusterRows ==
  ASSUME ClusterInv, NEW i \in DOMAIN calls, NEW ok \in BOOLEAN, K!RowsArrive(i, ok)
  PROVE  ClusterInv'
<1>1. page = "Kubernetes" /\ page' = page /\ calls[i].op = "load"
  BY KubernetesConsole DEF K!RowsArrive, K!Here, K!Answer
<1>2. /\ ClusterTypes /\ ClusterCalls /\ ClusterBusy
      /\ RowsOfNamespace /\ DialogOfNamespace /\ ClusterWrites
  BY <1>1 DEF ClusterInv
<1>3. PICK arg : arg = calls[i].arg
  OBVIOUS
<1>4. Flying("load", arg, calls)
  BY <1>1, <1>3 DEF Flying
<1>5. arg \in [tab : Tabs, ns : Namespaces]
  BY <1>2, <1>4 DEF ClusterCalls
<1>6. PICK more \in BOOLEAN : more = (ok /\ arg.tab \in K!Metered)
  BY MemberOrNot
<1>7. PICK rows : rows = [view.rows EXCEPT ![arg.tab] = IF ok THEN arg.ns ELSE @]
  OBVIOUS
<1>8. PICK calm \in BOOLEAN : calm = (view.calm /\ ok /\ calls[i].last)
  BY MemberOrNot
<1>9. PICK loading \in BOOLEAN : loading = (more /\ view.loading)
  BY MemberOrNot
<1>10. \E vs : view' = [view EXCEPT !.rows = rows, !.versions = vs, !.loading = loading,
                                    !.calm = calm]
  <2>1. PICK m, vs :
          /\ m = (ok /\ calls[i].arg.tab \in K!Metered)
          /\ view' = [view EXCEPT
                        !.rows[calls[i].arg.tab] = IF ok THEN calls[i].arg.ns ELSE @,
                        !.versions = vs, !.loading = m /\ @,
                        !.calm = @ /\ ok /\ calls[i].last]
    BY Zenon DEF K!RowsArrive
  <2>2. m = more
    BY <2>1, <1>3, <1>6
  <2>3. view' = [view EXCEPT !.rows[arg.tab] = IF ok THEN arg.ns ELSE @,
                             !.versions = vs, !.loading = more /\ @,
                             !.calm = @ /\ ok /\ calls[i].last]
    BY <2>1, <2>2, <1>3
  <2>4. view' = [view EXCEPT !.rows = rows, !.versions = vs, !.loading = loading,
                             !.calm = calm]
    BY <2>3, <1>2, <1>7, <1>8, <1>9 DEF ClusterTypes, KubernetesFields
  <2> QED
    BY Zenon, <2>4
<1>11. /\ DOMAIN view' = KubernetesFields /\ view'.rows = rows /\ view'.loading = loading
       /\ view'.calm = calm /\ view'.ns = view.ns /\ view'.tab = view.tab
       /\ view'.listed = view.listed /\ view'.top = view.top /\ view'.sync = view.sync
       /\ view'.dialog = view.dialog /\ view'.body = view.body /\ view'.busy = view.busy
       /\ view'.due = view.due
  BY <1>2, <1>10 DEF ClusterTypes, KubernetesFields
<1>12. \/ more /\ Reply(i, <<Call("top", [tab |-> arg.tab, ns |-> view.ns])>>)
       \/ ~more /\ Reply(i, <<>>)
  <2>1. Reply(i, IF more THEN <<Call("top", [tab |-> arg.tab, ns |-> view.ns])>> ELSE <<>>)
    BY <1>3, <1>6, KubernetesConsole DEF K!RowsArrive
  <2>2. CASE more
    BY <2>1, <2>2
  <2>3. CASE ~more
    BY <2>1, <2>3
  <2> QED
    BY <2>2, <2>3
<1>13. AreCalls(calls) /\ view.ns \in Namespaces
  BY <1>2 DEF ClusterCalls, ClusterTypes
<1>14. /\ AreCalls(calls')
       /\ \A o, a : Flying(o, a, calls') =>
            Flying(o, a, calls) \/ (o = "top" /\ a.ns \in Namespaces)
       /\ \A o : o # "load" /\ o # "top" => LeftAlone(o)
       /\ Asks("load", Wished, calls) => Asks("load", Wished, calls')
       /\ more => InFlight({"top"})'
  <2>1. PICK top : top = [tab |-> arg.tab, ns |-> view.ns]
    OBVIOUS
  <2>2. CASE Reply(i, <<Call("top", top)>>)
    <3>1. top.ns \in Namespaces
      BY <1>13, <2>1
    <3>2. /\ AreCalls(calls') /\ InFlight({"top"})'
          /\ \A o, a : Flying(o, a, calls') => Flying(o, a, calls) \/ (o = "top" /\ a = top)
      BY <1>13, <2>2, ReplyOne
    <3>3. \A o : o # "load" /\ o # "top" => LeftAlone(o)
      BY <1>1, <1>13, <2>2, ReplyOneLeaves
    <3>4. Asks("load", Wished, calls) => Asks("load", Wished, calls')
      BY <1>13, <2>2, ReplyAsks
    <3> QED
      BY <3>1, <3>2, <3>3, <3>4
  <2>3. CASE ~more /\ Reply(i, <<>>)
    <3>1. /\ AreCalls(calls') /\ \A o, a : Flying(o, a, calls') => Flying(o, a, calls)
      BY <1>13, <2>3, ReplyNone
    <3>3. \A o : o # "load" => LeftAlone(o)
      BY <1>1, <1>13, <2>3, ReplyNoneLeaves
    <3>4. Asks("load", Wished, calls) => Asks("load", Wished, calls')
      BY <1>13, <2>3, ReplyAsksNone
    <3> QED
      BY <2>3, <3>1, <3>3, <3>4
  <2> QED
    BY <1>12, <2>1, <2>2, <2>3
<1>15. ClusterTypes'
  <2>1. rows \in [Tabs -> Namespaces \cup {None}]
    BY <1>2, <1>5, <1>7 DEF ClusterTypes
  <2> QED
    BY <1>2, <1>11, <2>1 DEF ClusterTypes
<1>16. ClusterBusy'
  <2>1. view'.loading => InFlight({"load"})' \/ InFlight({"top"})'
    BY <1>9, <1>11, <1>14
  <2>2. LeftAlone("sync") /\ \A o \in K!ContentKinds : LeftAlone(o)
    BY <1>14 DEF K!ContentKinds
  <2> QED
    BY <1>2, <1>11, <2>1, <2>2, SpinnersKept
<1>17. RowsOfNamespace'
  <2> SUFFICES ASSUME calm
               PROVE  Asks("load", Wished, calls') /\ rows[view.tab] \in {None, view.ns}
    BY <1>11 DEF RowsOfNamespace, Wished
  <2>1. view.calm /\ ok /\ calls[i].last
    BY <1>8
  <2>2. Asks("load", Wished, calls)
    BY <1>2, <2>1 DEF RowsOfNamespace
  <2>3. arg = Wished
    BY <1>1, <1>3, <2>1, <2>2, AsksAlike
  <2>4. rows[view.tab] = view.ns
    BY <1>2, <1>7, <2>1, <2>3 DEF Wished, ClusterTypes
  <2> QED
    BY <1>14, <2>2, <2>4
<1>18. DialogOfNamespace'
  <2>1. \A o \in K!ContentKinds : LeftAlone(o)
    BY <1>14 DEF K!ContentKinds
  <2> QED
    BY <1>2, <1>8, <1>11, <2>1, DialogKept
<1>19. \A k \in K!ContentKinds : k # "top"
  BY DEF K!ContentKinds
<1> QED
  BY <1>1, <1>8, <1>11, <1>14, <1>15, <1>16, <1>17, <1>18, <1>19, AnswersMove

LEMMA ClusterMetrics ==
  ASSUME ClusterInv, NEW i \in DOMAIN calls, NEW ok \in BOOLEAN, K!MetricsArrive(i, ok)
  PROVE  ClusterInv'
<1>1. page = "Kubernetes" /\ page' = page /\ calls[i].op = "top" /\ Reply(i, <<>>)
  BY KubernetesConsole DEF K!MetricsArrive, K!Here, K!Answer
<1>2. /\ ClusterTypes /\ ClusterCalls /\ ClusterBusy
      /\ RowsOfNamespace /\ DialogOfNamespace /\ ClusterWrites
  BY <1>1 DEF ClusterInv
<1>3. Flying("top", calls[i].arg, calls)
  BY <1>1 DEF Flying
<1>4. calls[i].arg.ns \in Namespaces
  BY <1>2, <1>3 DEF ClusterCalls
<1>5. PICK top \in Namespaces \cup {None} :
          top = CASE calls[i].arg.tab # "pods" -> view.top
                  [] ok -> calls[i].arg.ns
                  [] OTHER -> None
  BY <1>2, <1>4 DEF ClusterTypes
<1>6. PICK calm \in BOOLEAN : calm = (view.calm /\ calls[i].last /\ K!Indices("load") = {})
  BY MemberOrNot
<1>7. view' = [view EXCEPT !.top = top, !.loading = FALSE, !.calm = calm]
  BY <1>2, <1>5, <1>6 DEF K!MetricsArrive, ClusterTypes, KubernetesFields
<1>8. /\ DOMAIN view' = KubernetesFields /\ view'.rows = view.rows /\ view'.loading = FALSE
      /\ view'.calm = calm /\ view'.ns = view.ns /\ view'.tab = view.tab
      /\ view'.listed = view.listed /\ view'.top = top /\ view'.sync = view.sync
      /\ view'.dialog = view.dialog /\ view'.body = view.body /\ view'.busy = view.busy
      /\ view'.due = view.due
  BY <1>2, <1>7 DEF ClusterTypes, KubernetesFields
<1>9. AreCalls(calls)
  BY <1>2 DEF ClusterCalls
<1>10. AreCalls(calls') /\ \A o, a : Flying(o, a, calls') => Flying(o, a, calls)
  BY <1>1, <1>9, ReplyNone
<1>11. \A o : o # "top" => LeftAlone(o)
  BY <1>1, <1>9, ReplyNoneLeaves
<1>12. ClusterTypes'
  BY <1>2, <1>8 DEF ClusterTypes
<1>13. LeftAlone("sync") /\ \A o \in K!ContentKinds : LeftAlone(o)
  BY <1>11 DEF K!ContentKinds
<1>14. ClusterBusy'
  BY <1>2, <1>8, <1>13, SpinnersKept
<1>15. RowsOfNamespace'
  <2> SUFFICES ASSUME calm
               PROVE  Asks("load", Wished, calls') /\ view.rows[view.tab] \in {None, view.ns}
    BY <1>8 DEF RowsOfNamespace, Wished
  <2>1. ~InFlight({"load"})
    BY <1>6, KubernetesConsole DEF InFlight
  <2> QED
    BY <1>2, <1>6, <1>11, <2>1 DEF RowsOfNamespace, LeftAlone
<1>16. DialogOfNamespace'
  BY <1>2, <1>6, <1>8, <1>13, DialogKept
<1> QED
  BY <1>1, <1>6, <1>8, <1>10, <1>12, <1>14, <1>15, <1>16, AnswersMove

\* An answer that changes nothing but the dialog, if anything.
LEMMA DialogAnswers ==
  ASSUME ClusterInv, page = "Kubernetes", page' = page,
         NEW i \in DOMAIN calls, calls[i].op \in K!ContentKinds \cup {"write"}, Reply(i, <<>>),
         DOMAIN view' = KubernetesFields,
         view'.ns = view.ns, view'.tab = view.tab, view'.listed = view.listed,
         view'.loading = view.loading, view'.rows = view.rows, view'.top = view.top,
         view'.sync = view.sync, view'.due \in Nat, view'.calm \in BOOLEAN,
         view'.calm => view.calm,
         view'.dialog \in K!Dialogs \cup {None}, view'.body \in K!Contents \cup {None},
         view'.busy \in BOOLEAN,
         view'.busy => /\ view'.dialog # None /\ view'.dialog.kind \in K!ContentKinds
                       /\ \E a : Flying(view'.dialog.kind, a, calls'),
         DialogOfNamespace'
  PROVE  ClusterInv'
<1>1. /\ ClusterTypes /\ ClusterCalls /\ ClusterBusy /\ RowsOfNamespace
  BY DEF ClusterInv
<1>2. AreCalls(calls)
  BY <1>1 DEF ClusterCalls
<1>3. AreCalls(calls') /\ \A o, a : Flying(o, a, calls') => Flying(o, a, calls)
  BY <1>2, ReplyNone
<1>4. LeftAlone("load") /\ LeftAlone("top") /\ LeftAlone("sync")
  BY <1>2, ReplyNoneLeaves DEF K!ContentKinds
<1>5. ClusterTypes'
  BY <1>1 DEF ClusterTypes
<1>6. ClusterBusy'
  <2>1. view'.loading => (\E a : Flying("load", a, calls')) \/ \E a : Flying("top", a, calls')
    BY <1>1, <1>4, FlightFlies DEF ClusterBusy, LeftAlone
  <2>2. view'.sync # None => \E a : Flying("sync", a, calls')
    BY <1>1, <1>4, FlightFlies DEF ClusterBusy, LeftAlone
  <2> QED
    BY <2>1, <2>2, FlightFlies DEF ClusterBusy
<1>7. RowsOfNamespace'
  BY <1>1, <1>4, RowsKept
<1> QED
  BY <1>3, <1>5, <1>6, <1>7, AnswersMove

LEMMA ContentShown ==
  ASSUME ClusterInv, NEW i \in DOMAIN calls, NEW ok \in BOOLEAN, K!ContentArrives(i, ok)
  PROVE  ClusterInv'
<1>1. /\ page = "Kubernetes" /\ page' = page /\ calls[i].op \in K!ContentKinds
      /\ Reply(i, <<>>)
  BY KubernetesConsole DEF K!ContentArrives, K!Here, K!Answer
<1>2. /\ ClusterTypes /\ ClusterCalls /\ ClusterBusy /\ DialogOfNamespace
  BY <1>1 DEF ClusterInv
<1>3. PICK op, arg : op = calls[i].op /\ arg = calls[i].arg
  OBVIOUS
<1>4. arg \in K!Contents
  BY <1>1, <1>2, <1>3 DEF ClusterCalls, Flying
<1>5. PICK shown \in BOOLEAN : shown = (view.dialog # None /\ view.dialog.kind = op)
  BY MemberOrNot
<1>6. PICK body : body = IF shown /\ ok THEN arg ELSE view.body
  OBVIOUS
<1>7. PICK busy \in BOOLEAN : busy = (view.busy /\ ~shown)
  BY MemberOrNot
<1>8. PICK calm \in BOOLEAN : calm = (view.calm /\ calls[i].last)
  BY MemberOrNot
<1>9. view' = [view EXCEPT !.body = body, !.busy = busy, !.calm = calm]
  <2>1. view' = [view EXCEPT !.body = IF shown /\ ok THEN arg ELSE @,
                             !.busy = @ /\ ~shown, !.calm = @ /\ calls[i].last]
    BY <1>3, <1>5 DEF K!ContentArrives
  <2> QED
    BY <2>1, <1>2, <1>6, <1>7, <1>8 DEF ClusterTypes, KubernetesFields
<1>10. /\ DOMAIN view' = KubernetesFields /\ view'.rows = view.rows
       /\ view'.loading = view.loading /\ view'.calm = calm /\ view'.ns = view.ns
       /\ view'.tab = view.tab /\ view'.listed = view.listed /\ view'.top = view.top
       /\ view'.sync = view.sync /\ view'.dialog = view.dialog /\ view'.body = body
       /\ view'.busy = busy /\ view'.due = view.due
  BY <1>2, <1>9 DEF ClusterTypes, KubernetesFields
<1>11. AreCalls(calls)
  BY <1>2 DEF ClusterCalls
<1>12. \A o : o # op => LeftAlone(o)
  BY <1>1, <1>3, <1>11, ReplyNoneLeaves
<1>13. \A o, a : Asks(o, a, calls) => Asks(o, a, calls')
  BY <1>1, <1>11, ReplyAsksNone
<1>14. /\ view'.due \in Nat /\ view'.dialog \in K!Dialogs \cup {None}
       /\ view'.body \in K!Contents \cup {None}
  BY <1>2, <1>4, <1>6, <1>10 DEF ClusterTypes
<1>15. busy => /\ view.dialog # None /\ view.dialog.kind \in K!ContentKinds
               /\ \E a : Flying(view.dialog.kind, a, calls')
  <2> SUFFICES ASSUME busy
               PROVE  /\ view.dialog # None /\ view.dialog.kind \in K!ContentKinds
                      /\ \E a : Flying(view.dialog.kind, a, calls')
    OBVIOUS
  <2>1. view.dialog # None /\ view.dialog.kind # op /\ view.dialog.kind \in K!ContentKinds
        /\ \E a : Flying(view.dialog.kind, a, calls)
    BY <1>2, <1>5, <1>7, FlightFlies DEF ClusterBusy
  <2> QED
    BY <1>12, <2>1 DEF LeftAlone
<1>16. DialogOfNamespace'
  <2>1. view.dialog = None \/ view.dialog.kind \notin K!ContentKinds => body = None
    BY <1>1, <1>2, <1>3, <1>5, <1>6 DEF DialogOfNamespace
  <2>2. ASSUME calm, view.dialog # None
        PROVE  /\ view.dialog.ns = view.ns /\ body \in {None, OfDialog}
               /\ view.dialog.kind \in K!ContentKinds =>
                    Asks(view.dialog.kind, OfDialog, calls')
    <3>1. /\ view.calm /\ calls[i].last /\ view.dialog.ns = view.ns
          /\ view.body \in {None, OfDialog}
          /\ view.dialog.kind \in K!ContentKinds => Asks(view.dialog.kind, OfDialog, calls)
      BY <1>2, <1>8, <2>2 DEF DialogOfNamespace
    <3>2. shown => arg = OfDialog
      <4>1. shown => Asks(op, OfDialog, calls)
        BY <1>1, <1>3, <1>5, <3>1
      <4> QED
        BY <1>3, <3>1, <4>1, AsksAlike
    <3>3. body \in {None, OfDialog}
      BY <1>6, <3>1, <3>2
    <3> QED
      BY <1>13, <3>1, <3>3
  <2>3. OfDialog' = OfDialog
    BY <1>10 DEF OfDialog
  <2> QED
    BY <1>10, <2>1, <2>2, <2>3 DEF DialogOfNamespace
<1> QED
  BY <1>1, <1>8, <1>10, <1>14, <1>15, <1>16, DialogAnswers

LEMMA WriteEnds ==
  ASSUME ClusterInv, NEW i \in DOMAIN calls, NEW ok \in BOOLEAN, K!WriteAnswered(i, ok)
  PROVE  ClusterInv'
<1>1. page = "Kubernetes" /\ page' = page /\ calls[i].op = "write" /\ Reply(i, <<>>)
  BY KubernetesConsole DEF K!WriteAnswered, K!Here, K!Answer
<1>2. /\ ClusterTypes /\ ClusterCalls /\ ClusterBusy /\ DialogOfNamespace
  BY <1>1 DEF ClusterInv
<1>3. PICK closes \in BOOLEAN :
         closes = (/\ ok /\ calls[i].arg.kind \in K!FormKinds /\ view.dialog # None
                   /\ view.dialog.kind = calls[i].arg.kind)
  BY MemberOrNot
<1>4. PICK due \in Nat : due = IF ok THEN view.due + 1 ELSE view.due
  BY <1>2 DEF ClusterTypes
<1>5. PICK busy \in BOOLEAN : busy = (view.busy /\ ~closes)
  BY MemberOrNot
<1>6. PICK dialog, body : /\ dialog = IF closes THEN None ELSE view.dialog
                          /\ body = IF closes THEN None ELSE view.body
  OBVIOUS
<1>7. view' = [view EXCEPT !.due = due, !.dialog = dialog, !.body = body, !.busy = busy]
  <2>1. view' = [view EXCEPT !.due = IF ok THEN @ + 1 ELSE @,
                             !.dialog = IF closes THEN None ELSE @,
                             !.body = IF closes THEN None ELSE @,
                             !.busy = @ /\ ~closes]
    BY <1>3 DEF K!WriteAnswered
  <2> QED
    BY <2>1, <1>2, <1>4, <1>5, <1>6 DEF ClusterTypes, KubernetesFields
<1>8. /\ DOMAIN view' = KubernetesFields /\ view'.rows = view.rows
      /\ view'.loading = view.loading /\ view'.calm = view.calm /\ view'.ns = view.ns
      /\ view'.tab = view.tab /\ view'.listed = view.listed /\ view'.top = view.top
      /\ view'.sync = view.sync /\ view'.dialog = dialog /\ view'.body = body
      /\ view'.busy = busy /\ view'.due = due
  BY <1>2, <1>7 DEF ClusterTypes, KubernetesFields
<1>9. AreCalls(calls)
  BY <1>2 DEF ClusterCalls
<1>10. \A o \in K!ContentKinds : LeftAlone(o)
  BY <1>1, <1>9, ReplyNoneLeaves DEF K!ContentKinds
<1>11. dialog \in K!Dialogs \cup {None} /\ body \in K!Contents \cup {None}
       /\ view'.calm \in BOOLEAN
  BY <1>2, <1>6, <1>8 DEF ClusterTypes
<1>12. busy => /\ dialog # None /\ dialog.kind \in K!ContentKinds
               /\ \E a : Flying(dialog.kind, a, calls')
  BY <1>2, <1>5, <1>6, <1>10, FlightFlies DEF ClusterBusy, LeftAlone
<1>13. DialogOfNamespace'
  <2>1. CASE closes
    BY <1>6, <1>8, <2>1 DEF DialogOfNamespace
  <2>2. CASE ~closes
    BY <1>2, <1>6, <1>8, <1>10, <2>2, DialogKept
  <2> QED
    BY <2>1, <2>2
<1> QED
  BY <1>1, <1>8, <1>11, <1>12, <1>13, DialogAnswers

\* The versions of deployments: asked for, and answered.
LEMMA VersionsAsked ==
  ASSUME ClusterInv, NEW key \in Names \cup {"all"}, K!handleSyncRuntimeVersions(key)
  PROVE  ClusterInv'
<1>1. page = "Kubernetes" /\ page' = page
  BY DEF K!handleSyncRuntimeVersions, K!Here, K!User
<1>2. /\ ClusterTypes /\ ClusterCalls /\ ClusterBusy
      /\ RowsOfNamespace /\ DialogOfNamespace
  BY <1>1 DEF ClusterInv
<1>3. PICK arg : arg = [key |-> key, ns |-> view.ns]
  OBVIOUS
<1>4. view' = [view EXCEPT !.sync = key] /\ Send(<<Call("sync", arg)>>) /\ AreCalls(calls)
  BY <1>2, <1>3, KubernetesConsole DEF K!handleSyncRuntimeVersions, ClusterCalls
<1>5. /\ DOMAIN view' = KubernetesFields /\ view'.rows = view.rows
      /\ view'.loading = view.loading /\ view'.calm = view.calm /\ view'.ns = view.ns
      /\ view'.tab = view.tab /\ view'.listed = view.listed /\ view'.top = view.top
      /\ view'.sync = key /\ view'.dialog = view.dialog /\ view'.body = view.body
      /\ view'.busy = view.busy /\ view'.due = view.due
  BY <1>2, <1>4 DEF ClusterTypes, KubernetesFields
<1>6. /\ AreCalls(calls') /\ Flying("sync", arg, calls')
      /\ \A o, a : Flying(o, a, calls') <=> Flying(o, a, calls) \/ (o = "sync" /\ a = arg)
  BY <1>4, SendOne
<1>7. /\ LeftAlone("load") /\ LeftAlone("top") /\ LeftAlone("write")
      /\ \A o \in K!ContentKinds : LeftAlone(o)
  BY <1>4, SendLeaves DEF K!ContentKinds
<1>8. ClusterTypes'
  BY <1>2, <1>5 DEF ClusterTypes
<1>9. ClusterBusy'
  <2>1. view'.loading => (\E a : Flying("load", a, calls')) \/ \E a : Flying("top", a, calls')
    BY <1>2, <1>5, <1>7, FlightFlies DEF ClusterBusy, LeftAlone
  <2>2. view'.busy => /\ view'.dialog # None /\ view'.dialog.kind \in K!ContentKinds
                      /\ \E a : Flying(view'.dialog.kind, a, calls')
    BY <1>2, <1>5, <1>7, FlightFlies DEF ClusterBusy, LeftAlone
  <2> QED
    BY <1>6, <2>1, <2>2, FlightFlies DEF ClusterBusy
<1>10. RowsOfNamespace'
  BY <1>2, <1>5, <1>7, RowsKept
<1>11. DialogOfNamespace'
  BY <1>2, <1>5, <1>7, DialogKept
<1>12. \A o \in K!ContentKinds : o # "sync"
  BY DEF K!ContentKinds
<1> QED
  BY <1>1, <1>5, <1>6, <1>7, <1>8, <1>9, <1>10, <1>11, <1>12, AnswersMove

LEMMA VersionsTold ==
  ASSUME ClusterInv, NEW i \in DOMAIN calls, NEW ok \in BOOLEAN, K!VersionsSynced(i, ok)
  PROVE  ClusterInv'
<1>1. page = "Kubernetes" /\ page' = page /\ calls[i].op = "sync" /\ Reply(i, <<>>)
  BY KubernetesConsole DEF K!VersionsSynced, K!Here, K!Answer
<1>2. /\ ClusterTypes /\ ClusterCalls /\ ClusterBusy
      /\ RowsOfNamespace /\ DialogOfNamespace
  BY <1>1 DEF ClusterInv
<1>3. PICK vs : view' = [view EXCEPT !.versions = vs, !.sync = None]
  BY Zenon DEF K!VersionsSynced
<1>4. /\ DOMAIN view' = KubernetesFields /\ view'.rows = view.rows
      /\ view'.loading = view.loading /\ view'.calm = view.calm /\ view'.ns = view.ns
      /\ view'.tab = view.tab /\ view'.listed = view.listed /\ view'.top = view.top
      /\ view'.sync = None /\ view'.dialog = view.dialog /\ view'.body = view.body
      /\ view'.busy = view.busy /\ view'.due = view.due
  BY <1>2, <1>3 DEF ClusterTypes, KubernetesFields
<1>5. AreCalls(calls)
  BY <1>2 DEF ClusterCalls
<1>6. AreCalls(calls') /\ \A o, a : Flying(o, a, calls') => Flying(o, a, calls)
  BY <1>1, <1>5, ReplyNone
<1>7. /\ LeftAlone("load") /\ LeftAlone("top")
      /\ \A o \in K!ContentKinds : LeftAlone(o)
  BY <1>1, <1>5, ReplyNoneLeaves DEF K!ContentKinds
<1>8. ClusterTypes'
  BY <1>2, <1>4 DEF ClusterTypes
<1>9. ClusterBusy'
  <2>1. view'.loading => InFlight({"load"})' \/ InFlight({"top"})'
    BY <1>2, <1>4, <1>7, FlightFlies DEF ClusterBusy, LeftAlone
  <2> QED
    BY <1>2, <1>4, <1>7, <2>1, SpinnersKept
<1>10. RowsOfNamespace'
  BY <1>2, <1>4, <1>7, RowsKept
<1>11. DialogOfNamespace'
  BY <1>2, <1>4, <1>7, DialogKept
<1> QED
  BY <1>1, <1>4, <1>6, <1>8, <1>9, <1>10, <1>11, AnswersMove

-----------------------------------------------------------------------------
(* A view that is mounted: the settings, the namespaces, the first load *)

LEMMA NamespacesListed ==
  ASSUME ClusterInv, NEW i \in DOMAIN calls, K!NamespacesArrive(i) PROVE ClusterInv'
<1>1. page = "Kubernetes" /\ page' = page /\ calls[i].op = "namespaces"
  BY KubernetesConsole DEF K!NamespacesArrive, K!Here, K!Answer
<1>2. ClusterTypes /\ ClusterCalls
  BY <1>1 DEF ClusterInv
<1>3. PICK arg : arg = [tab |-> view.tab, ns |-> view.ns]
  OBVIOUS
<1>4. /\ view' = [[view EXCEPT !.listed = TRUE] EXCEPT !.loading = TRUE]
      /\ Reply(i, <<Call("load", arg)>>) /\ AreCalls(calls)
  BY <1>2, <1>3, KubernetesConsole DEF K!NamespacesArrive, K!loadTab, K!LoadCall, ClusterCalls
<1>5. /\ DOMAIN view' = KubernetesFields /\ view'.rows = view.rows
      /\ view'.loading = TRUE /\ view'.calm = view.calm /\ view'.ns = view.ns
      /\ view'.tab = view.tab /\ view'.listed = TRUE /\ view'.top = view.top
      /\ view'.sync = view.sync /\ view'.dialog = view.dialog /\ view'.body = view.body
      /\ view'.busy = view.busy /\ view'.due = view.due
  BY <1>2, <1>4 DEF ClusterTypes, KubernetesFields
<1>6. arg = Wished'
  BY <1>3, <1>5 DEF Wished
<1>7. /\ AreCalls(calls') /\ InFlight({"load"})'
      /\ \A a : Flying("load", a, calls') => Flying("load", a, calls) \/ a = arg
  BY <1>4, ReplyOne
<1>8. Asks("load", arg, calls')
  BY <1>4, ReplyAsks
<1>9. \A o \in K!ContentKinds \cup {"write", "top", "sync"} : LeftAlone(o)
  BY <1>1, <1>4, ReplyOneLeaves DEF K!ContentKinds
<1>10. view'.ns \in Namespaces /\ view'.tab \in Tabs /\ view'.due \in Nat
       /\ view'.listed \in BOOLEAN /\ view'.calm \in BOOLEAN
  BY <1>2, <1>5 DEF ClusterTypes
<1> QED
  BY <1>1, <1>5, <1>6, <1>7, <1>8, <1>9, <1>10, RowsLoad

LEMMA SettingsKnown ==
  ASSUME ClusterInv, NEW i \in DOMAIN calls, K!SettingsArrive(i) PROVE ClusterInv'
<1>1. page = "Kubernetes" /\ page' = page /\ calls[i].op = "settings"
  BY KubernetesConsole DEF K!SettingsArrive, K!Here, K!Answer
<1>2. /\ ClusterTypes /\ ClusterCalls /\ ClusterBusy
      /\ RowsOfNamespace /\ DialogOfNamespace
  BY <1>1 DEF ClusterInv
<1>3. PICK calm \in BOOLEAN : calm = (view.calm /\ view.dialog = None)
  BY MemberOrNot
<1>4. PICK ns \in Namespaces :
        LET refs == [view EXCEPT !.ns = ns, !.calm = @ /\ view.dialog = None]
        IN  IF ns = view.ns
            THEN view' = refs /\ K!Reply(i, <<K!Call("namespaces", None)>>)
            ELSE view' = K!loadTab(refs)
                 /\ K!Reply(i, <<K!Call("namespaces", None), K!LoadCall(refs)>>)
  BY Zenon DEF K!SettingsArrive
<1>5. PICK refs : refs = [view EXCEPT !.ns = ns, !.calm = calm]
  OBVIOUS
<1>6. refs = [view EXCEPT !.ns = ns, !.calm = @ /\ view.dialog = None]
  BY <1>2, <1>3, <1>5 DEF ClusterTypes, KubernetesFields
<1>7. \/ ns = view.ns /\ view' = refs /\ Reply(i, <<Call("namespaces", None)>>)
      \/ /\ view' = [refs EXCEPT !.loading = TRUE]
         /\ Reply(i, <<Call("namespaces", None), Call("load", [tab |-> refs.tab, ns |-> refs.ns])>>)
  <2>1. CASE ns = view.ns
    <3>1. view' = refs /\ K!Reply(i, <<K!Call("namespaces", None)>>)
      BY <1>4, <1>6, <2>1
    <3> QED
      BY <2>1, <3>1, KubernetesConsole
  <2>2. CASE ns # view.ns
    <3>1. view' = K!loadTab(refs) /\ K!Reply(i, <<K!Call("namespaces", None), K!LoadCall(refs)>>)
      BY <1>4, <1>6, <2>2
    <3> QED
      BY <3>1, KubernetesConsole DEF K!loadTab, K!LoadCall
  <2> QED
    BY <2>1, <2>2
<1>8. /\ DOMAIN refs = KubernetesFields /\ refs.ns = ns /\ refs.tab = view.tab
      /\ refs.due = view.due /\ refs.listed = view.listed /\ refs.rows = view.rows
      /\ refs.top = view.top /\ refs.sync = view.sync /\ refs.dialog = view.dialog
      /\ refs.body = view.body /\ refs.busy = view.busy /\ refs.calm = calm
      /\ refs.loading = view.loading
  BY <1>2, <1>5 DEF ClusterTypes, KubernetesFields
<1>9. AreCalls(calls)
  BY <1>2 DEF ClusterCalls
<1>10. CASE ns = view.ns /\ view' = refs /\ Reply(i, <<Call("namespaces", None)>>)
  <2>1. AreCalls(calls') /\ \A o, a : Flying(o, a, calls') =>
                                        Flying(o, a, calls) \/ (o = "namespaces" /\ a = None)
    BY <1>9, <1>10, ReplyOne
  <2>2. \A o \in K!ContentKinds \cup {"load", "write", "top", "sync"} : LeftAlone(o)
    BY <1>1, <1>9, <1>10, ReplyOneLeaves DEF K!ContentKinds
  <2>3. ClusterTypes'
    BY <1>2, <1>8, <1>10 DEF ClusterTypes
  <2>4. ClusterBusy'
    <3>1. view'.loading => InFlight({"load"})' \/ InFlight({"top"})'
      BY <1>2, <1>8, <1>10, <2>2, FlightFlies DEF ClusterBusy, LeftAlone
    <3> QED
      BY <1>2, <1>8, <1>10, <2>2, <3>1, SpinnersKept
  <2>5. RowsOfNamespace'
    BY <1>2, <1>3, <1>8, <1>10, <2>2, RowsKept
  <2>6. DialogOfNamespace'
    BY <1>2, <1>3, <1>8, <1>10, <2>2, DialogKept
  <2>7. \A k \in K!ContentKinds : k # "namespaces"
    BY DEF K!ContentKinds
  <2> QED
    BY <1>1, <1>3, <1>8, <1>10, <2>1, <2>2, <2>3, <2>4, <2>5, <2>6, <2>7, AnswersMove
<1>11. CASE /\ view' = [refs EXCEPT !.loading = TRUE]
            /\ Reply(i, <<Call("namespaces", None),
                          Call("load", [tab |-> refs.tab, ns |-> refs.ns])>>)
  <2>1. PICK arg : arg = [tab |-> refs.tab, ns |-> refs.ns]
    OBVIOUS
  <2>2. /\ AreCalls(calls')
        /\ \A o, a : Flying(o, a, calls') =>
             Flying(o, a, calls) \/ (o = "namespaces" /\ a = None) \/ (o = "load" /\ a = arg)
        /\ Flying("load", arg, calls') /\ Asks("load", arg, calls')
        /\ \A o : o # calls[i].op /\ o # "namespaces" /\ o # "load" => LeftAlone(o)
    BY <1>9, <1>11, <2>1, ReplyTwo
  <2>3. /\ DOMAIN view' = KubernetesFields /\ view'.rows = view.rows
        /\ view'.loading = TRUE /\ view'.calm = calm /\ view'.ns = ns
        /\ view'.tab = view.tab /\ view'.listed = view.listed /\ view'.top = view.top
        /\ view'.sync = view.sync /\ view'.dialog = view.dialog /\ view'.body = view.body
        /\ view'.busy = view.busy /\ view'.due = view.due
    BY <1>8, <1>11 DEF KubernetesFields
  <2>4. arg = Wished'
    BY <1>8, <2>1, <2>3 DEF Wished
  <2>5. \A o \in K!ContentKinds \cup {"write", "top", "sync"} : LeftAlone(o)
    BY <1>1, <2>2 DEF K!ContentKinds
  <2>6. InFlight({"load"})'
    BY <2>2, FlightFlies
  <2>7. /\ view'.ns \in Namespaces /\ view'.tab \in Tabs /\ view'.due \in Nat
        /\ view'.listed \in BOOLEAN /\ view'.calm \in BOOLEAN
    BY <1>2, <2>3 DEF ClusterTypes
  <2>8. /\ view'.calm => view.calm /\ view.dialog = None
        /\ \A a : Flying("load", a, calls') => Flying("load", a, calls) \/ a = arg
    BY <1>3, <2>2, <2>3
  <2> QED
    BY <1>1, <2>2, <2>3, <2>4, <2>5, <2>6, <2>7, <2>8, RowsLoad
<1> QED
  BY <1>7, <1>10, <1>11

\* The refs of a view that was just mounted.
FreshRefs(refs, tab, ns, loading) ==
  /\ DOMAIN refs = KubernetesFields
  /\ refs.ns = ns /\ refs.tab = tab /\ refs.listed = FALSE /\ refs.loading = loading
  /\ refs.rows = [t \in Tabs |-> None] /\ refs.top = None /\ refs.sync = None
  /\ refs.dialog = None /\ refs.body = None /\ refs.busy = FALSE /\ refs.due = 0
  /\ refs.calm = TRUE

\* The calls of the first load, whatever else the view asks for.
LEMMA ClusterMounted ==
  ASSUME page' = "Kubernetes", NEW tab \in Tabs, NEW ns \in Namespaces, NEW loading \in BOOLEAN,
         FreshRefs(view', tab, ns, loading), AreCalls(calls'),
         \A o, a : Flying(o, a, calls') => o \in {"settings", "namespaces", "load"},
         \A a : Flying("load", a, calls') => a = [tab |-> tab, ns |-> ns],
         loading => InFlight({"load"})'
  PROVE  ClusterInv'
<1>1. /\ DOMAIN view' = KubernetesFields
      /\ view'.ns = ns /\ view'.tab = tab /\ view'.listed = FALSE /\ view'.loading = loading
      /\ view'.rows = [t \in Tabs |-> None] /\ view'.top = None /\ view'.sync = None
      /\ view'.dialog = None /\ view'.body = None /\ view'.busy = FALSE /\ view'.due = 0
      /\ view'.calm = TRUE
  BY DEF FreshRefs
<1>2. ClusterTypes'
  <2>1. view'.rows \in [Tabs -> Namespaces \cup {None}] /\ view'.due \in Nat
    BY <1>1
  <2> QED
    BY <1>1, <2>1 DEF ClusterTypes
<1>3. ClusterCalls'
  <2>1. [tab |-> tab, ns |-> ns] \in [tab : Tabs, ns : Namespaces]
    OBVIOUS
  <2> QED
    BY <2>1 DEF ClusterCalls, K!ContentKinds
<1>4. ClusterBusy'
  BY <1>1 DEF ClusterBusy
<1>5. RowsOfNamespace'
  <2>1. Wished' = [tab |-> tab, ns |-> ns]
    BY <1>1 DEF Wished
  <2>2. Asks("load", Wished', calls')
    BY <2>1 DEF Flying, Asks
  <2> QED
    BY <1>1, <2>2 DEF RowsOfNamespace
<1>6. DialogOfNamespace'
  BY <1>1 DEF DialogOfNamespace
<1>7. ClusterWrites'
  BY DEF ClusterWrites
<1> QED
  BY <1>2, <1>3, <1>4, <1>5, <1>6, <1>7 DEF ClusterInv

LEMMA KubernetesEntered ==
  ASSUME K!KubernetesConstants, K!Enter PROVE ClusterInv'
<1>1. PICK tab \in Tabs, ns \in Namespaces \cup {None} : K!onMounted(tab, ns)
  BY DEF K!Enter
<1>2. InitialNs \in Namespaces /\ InitialNs # None
  BY DEF K!KubernetesConstants
<1>3. PICK fresh : fresh = K!Fresh(tab)
  OBVIOUS
<1>4. FreshRefs(fresh, tab, InitialNs, FALSE)
  BY <1>3 DEF K!Fresh, KubernetesFields, FreshRefs
<1>5. CASE ns = None
  <2>1. K!Mount("Kubernetes", K!Fresh(tab), None, <<K!Call("settings", None)>>)
    BY <1>1, <1>2, <1>5 DEF K!onMounted
  <2>2. Mount("Kubernetes", fresh, None, <<Call("settings", None)>>)
    BY <1>3, <2>1, KubernetesConsole
  <2>3. AreCalls(calls') /\ \A o, a : Flying(o, a, calls') <=> o = "settings" /\ a = None
    BY <2>2, MountOne
  <2>4. page' = "Kubernetes" /\ view' = fresh
    BY <2>2 DEF Mount
  <2>5. FreshRefs(view', tab, InitialNs, FALSE)
    BY <1>4, <2>4
  <2>6. tab \in Tabs
    BY <1>1
  <2>7. /\ \A o, a : Flying(o, a, calls') => o \in {"settings", "namespaces", "load"}
        /\ \A a : Flying("load", a, calls') => a = [tab |-> tab, ns |-> InitialNs]
    BY <2>3
  <2> QED
    BY <1>2, <2>3, <2>4, <2>5, <2>6, <2>7, ClusterMounted
<1>6. CASE ns # None /\ ns = InitialNs
  <2>1. K!Mount("Kubernetes", [fresh EXCEPT !.ns = ns], None, <<K!Call("namespaces", None)>>)
    BY <1>1, <1>3, <1>6 DEF K!onMounted
  <2>2. Mount("Kubernetes", [fresh EXCEPT !.ns = ns], None, <<Call("namespaces", None)>>)
    BY <2>1, KubernetesConsole
  <2>3. AreCalls(calls') /\ \A o, a : Flying(o, a, calls') <=> o = "namespaces" /\ a = None
    BY <2>2, MountOne
  <2>4. page' = "Kubernetes" /\ view' = [fresh EXCEPT !.ns = ns]
    BY <2>2 DEF Mount
  <2>5. FreshRefs(view', tab, ns, FALSE)
    BY <1>4, <2>4 DEF KubernetesFields, FreshRefs
  <2>6. tab \in Tabs /\ ns \in Namespaces
    BY <1>1, <1>2, <1>6
  <2>7. /\ \A o, a : Flying(o, a, calls') => o \in {"settings", "namespaces", "load"}
        /\ \A a : Flying("load", a, calls') => a = [tab |-> tab, ns |-> ns]
    BY <2>3
  <2> QED
    BY <2>3, <2>4, <2>5, <2>6, <2>7, ClusterMounted
<1>7. CASE ns # None /\ ns # InitialNs
  <2>1. PICK refs : refs = [fresh EXCEPT !.ns = ns]
    OBVIOUS
  <2>2. K!Mount("Kubernetes", K!loadTab(refs), None, <<K!Call("namespaces", None), K!LoadCall(refs)>>)
    BY <1>1, <1>3, <1>7, <2>1 DEF K!onMounted
  <2>3. refs.tab = tab /\ refs.ns = ns
    BY <1>4, <2>1 DEF KubernetesFields, FreshRefs
  <2>4. PICK arg : arg = [tab |-> tab, ns |-> ns]
    OBVIOUS
  <2>5. Mount("Kubernetes", [refs EXCEPT !.loading = TRUE], None,
              <<Call("namespaces", None), Call("load", arg)>>)
    BY <2>2, <2>3, <2>4, KubernetesConsole DEF K!loadTab, K!LoadCall
  <2>6. /\ AreCalls(calls')
        /\ \A o, a : Flying(o, a, calls') <=>
             (o = "namespaces" /\ a = None) \/ (o = "load" /\ a = arg)
    BY <2>5, MountTwo
  <2>7. page' = "Kubernetes" /\ view' = [refs EXCEPT !.loading = TRUE]
    BY <2>5 DEF Mount
  <2>8. FreshRefs(view', tab, ns, TRUE)
    BY <1>4, <2>1, <2>7 DEF KubernetesFields, FreshRefs
  <2>9. InFlight({"load"})'
    BY <2>6, FlightFlies
  <2>10. tab \in Tabs /\ ns \in Namespaces
    BY <1>1, <1>7
  <2>11. /\ \A o, a : Flying(o, a, calls') => o \in {"settings", "namespaces", "load"}
         /\ \A a : Flying("load", a, calls') => a = [tab |-> tab, ns |-> ns]
    BY <2>4, <2>6
  <2> QED
    BY <2>6, <2>7, <2>8, <2>9, <2>10, <2>11, ClusterMounted
<1> QED
  BY <1>5, <1>6, <1>7

-----------------------------------------------------------------------------
(* The versions shown are a list that the server answered with. *)

VersionsListed == view.versions \in VersionLists \cup {<<>>}

KubernetesInv == ClusterInv /\ (page = "Kubernetes" => VersionsListed)

\* No click changes them, and no reload that is due.
LEMMA ClicksKeepVersions ==
  ASSUME ClusterTypes, K!UserActs \/ K!ReloadDue PROVE view'.versions = view.versions
<1>1. "versions" \in DOMAIN view
  BY DEF ClusterTypes, KubernetesFields
<1>2. CASE \/ \E ns \in Namespaces : K!SelectNamespace(ns)
           \/ \E tab \in Tabs : K!SelectTab(tab)
           \/ K!Refresh \/ K!ReloadDue
  <2>1. \/ \E ns : view' = K!loadTab([view EXCEPT !.ns = ns])
        \/ \E tab : view' = K!loadTab([view EXCEPT !.tab = tab])
        \/ view' = K!loadTab(view)
        \/ view' = K!loadTab([view EXCEPT !.due = @ - 1])
    BY Zenon, <1>2 DEF K!SelectNamespace, K!SelectTab, K!Refresh, K!ReloadDue
  <2>2. ASSUME NEW refs, refs.versions = view.versions, "versions" \in DOMAIN refs,
               view' = K!loadTab(refs)
        PROVE  view'.versions = view.versions
    BY <2>2 DEF K!loadTab
  <2>3. ASSUME NEW ns, view' = K!loadTab([view EXCEPT !.ns = ns])
        PROVE  view'.versions = view.versions
    BY <1>1, <2>2, <2>3
  <2>4. ASSUME NEW tab, view' = K!loadTab([view EXCEPT !.tab = tab])
        PROVE  view'.versions = view.versions
    BY <1>1, <2>2, <2>4
  <2>5. ASSUME view' = K!loadTab([view EXCEPT !.due = @ - 1])
        PROVE  view'.versions = view.versions
    BY <1>1, <2>2, <2>5
  <2> QED
    BY <1>1, <2>1, <2>2, <2>3, <2>4, <2>5
<1>3. CASE \E k, n : K!Ask(k, n) \/ K!OpenAndLoad(k, n)
  BY <1>1, <1>3 DEF K!Ask, K!OpenAndLoad
<1>4. CASE \E k, data : K!Submit(k, data)
  BY <1>1, <1>4 DEF K!Submit
<1>5. CASE \/ K!CloseDialog
           \/ \E key \in Names \cup {"all"} : K!handleSyncRuntimeVersions(key)
  BY <1>1, <1>5 DEF K!CloseDialog, K!handleSyncRuntimeVersions
<1>6. ASSUME NEW n \in Names,
             \/ K!handleRestart(n) \/ K!handleScale(n) \/ K!handleUpdateResources(n)
             \/ K!handleEditService(n) \/ K!handleDeleteService(n)
             \/ K!handleViewLogs(n) \/ K!handleUpdateImage(n) \/ K!handleEditConfigMap(n)
      PROVE  \E k, m : K!Ask(k, m) \/ K!OpenAndLoad(k, m)
  BY Zenon, <1>6 DEF K!handleRestart, K!handleScale, K!handleUpdateResources,
     K!handleEditService, K!handleDeleteService, K!handleViewLogs, K!handleUpdateImage,
     K!handleEditConfigMap
<1>7. ASSUME \/ K!ConfirmPrompt \/ K!handleSubmitImage \/ K!handleSubmitResources
             \/ K!handleSubmitService \/ K!handleSaveConfigMap
      PROVE  \E k, data : K!Submit(k, data)
  BY Zenon, <1>7 DEF K!ConfirmPrompt, K!handleSubmitImage, K!handleSubmitResources,
     K!handleSubmitService, K!handleSaveConfigMap
<1> QED
  BY <1>2, <1>3, <1>4, <1>5, <1>6, <1>7 DEF K!UserActs

LEMMA SettingsKeepVersions ==
  ASSUME ClusterTypes, VersionsListed, NEW i \in DOMAIN calls, K!SettingsArrive(i)
  PROVE  VersionsListed'
<1>0. "versions" \in DOMAIN view
  BY DEF ClusterTypes, KubernetesFields
<1>1. PICK ns \in Namespaces :
        LET refs == [view EXCEPT !.ns = ns, !.calm = @ /\ view.dialog = None]
        IN  IF ns = view.ns
            THEN view' = refs /\ K!Reply(i, <<K!Call("namespaces", None)>>)
            ELSE view' = K!loadTab(refs)
                 /\ K!Reply(i, <<K!Call("namespaces", None), K!LoadCall(refs)>>)
  BY Zenon DEF K!SettingsArrive
<1>2. PICK refs : refs = [view EXCEPT !.ns = ns, !.calm = @ /\ view.dialog = None]
  OBVIOUS
<1>3. view' = refs \/ view' = K!loadTab(refs)
  BY <1>1, <1>2
<1>4. refs.versions = view.versions /\ "versions" \in DOMAIN refs
  BY <1>0, <1>2
<1>5. view'.versions = view.versions
  BY <1>3, <1>4 DEF K!loadTab
<1> QED
  BY <1>5 DEF VersionsListed

LEMMA RowsKeepVersions ==
  ASSUME ClusterTypes, VersionsListed, NEW i \in DOMAIN calls, NEW ok \in BOOLEAN,
         K!RowsArrive(i, ok)
  PROVE  VersionsListed'
<1>0. "versions" \in DOMAIN view
  BY DEF ClusterTypes, KubernetesFields
<1>1. PICK vs \in IF ok /\ calls[i].arg.tab = "deployments" THEN VersionLists
                  ELSE {view.versions} :
        \E more : view' = [view EXCEPT
                             !.rows[calls[i].arg.tab] = IF ok THEN calls[i].arg.ns ELSE @,
                             !.versions = vs,
                             !.loading = more /\ @,
                             !.calm = @ /\ ok /\ calls[i].last]
  BY Zenon DEF K!RowsArrive
<1>2. view'.versions = vs
  BY <1>0, <1>1
<1>3. vs \in VersionLists \/ vs = view.versions
  BY <1>1
<1> QED
  BY <1>2, <1>3 DEF VersionsListed

LEMMA SyncKeepsVersions ==
  ASSUME ClusterTypes, VersionsListed, NEW i \in DOMAIN calls, NEW ok \in BOOLEAN,
         K!VersionsSynced(i, ok)
  PROVE  VersionsListed'
<1>0. "versions" \in DOMAIN view
  BY DEF ClusterTypes, KubernetesFields
<1>1. PICK vs \in IF ok THEN VersionLists ELSE {view.versions} :
        view' = [view EXCEPT !.versions = vs, !.sync = None]
  BY Zenon DEF K!VersionsSynced
<1>2. view'.versions = vs
  BY <1>0, <1>1
<1>3. vs \in VersionLists \/ vs = view.versions
  BY <1>1
<1> QED
  BY <1>2, <1>3 DEF VersionsListed

LEMMA AnswersKeepVersions ==
  ASSUME ClusterTypes, VersionsListed, NEW i \in DOMAIN calls, NEW ok \in BOOLEAN,
         \/ K!SettingsArrive(i) \/ K!NamespacesArrive(i)
         \/ K!RowsArrive(i, ok) \/ K!MetricsArrive(i, ok) \/ K!ContentArrives(i, ok)
         \/ K!WriteAnswered(i, ok) \/ K!VersionsSynced(i, ok)
  PROVE  VersionsListed'
<1>1. "versions" \in DOMAIN view
  BY DEF ClusterTypes, KubernetesFields
<1>2. CASE \/ K!NamespacesArrive(i) \/ K!MetricsArrive(i, ok) \/ K!ContentArrives(i, ok)
           \/ K!WriteAnswered(i, ok)
  <2>1. view'.versions = view.versions
    BY <1>1, <1>2 DEF K!NamespacesArrive, K!MetricsArrive, K!ContentArrives,
       K!WriteAnswered, K!loadTab
  <2> QED
    BY <2>1 DEF VersionsListed
<1>3. CASE K!SettingsArrive(i)
  BY <1>3, SettingsKeepVersions
<1>4. CASE K!RowsArrive(i, ok)
  BY <1>4, RowsKeepVersions
<1>5. CASE K!VersionsSynced(i, ok)
  BY <1>5, SyncKeepsVersions
<1> QED
  BY <1>2, <1>3, <1>4, <1>5

LEMMA VersionsEntered ==
  ASSUME K!Enter PROVE VersionsListed'
<1>1. PICK tab \in Tabs, ns \in Namespaces \cup {None} : K!onMounted(tab, ns)
  BY DEF K!Enter
<1>2. PICK fresh : fresh = K!Fresh(tab)
  OBVIOUS
<1>3. DOMAIN fresh = KubernetesFields /\ fresh.versions = <<>> /\ "versions" \in DOMAIN fresh
  BY <1>2 DEF K!Fresh, KubernetesFields
<1>4. view' \in {fresh, [fresh EXCEPT !.ns = ns],
                 [[fresh EXCEPT !.ns = ns] EXCEPT !.loading = TRUE]}
  BY <1>1, <1>2 DEF K!onMounted, K!Mount, K!loadTab
<1> QED
  BY <1>3, <1>4 DEF VersionsListed

LEMMA OutsideKubernetes ==
  page' # "Kubernetes" => KubernetesInv'
  BY DEF KubernetesInv, ClusterInv

LEMMA KubernetesUnchanged ==
  ASSUME ClusterInv, UNCHANGED console PROVE ClusterInv'
<1>1. UNCHANGED <<page, view, calls, world>>
  BY DEF console
<1>2. Wished' = Wished /\ OfDialog' = OfDialog
  BY <1>1 DEF Wished, OfDialog
<1>3. (ClusterTypes => ClusterTypes') /\ (ClusterCalls => ClusterCalls')
  BY <1>1 DEF ClusterTypes, ClusterCalls
<1>4. (ClusterBusy => ClusterBusy') /\ (ClusterWrites => ClusterWrites')
  BY <1>1 DEF ClusterBusy, ClusterWrites, InFlight
<1>5. (RowsOfNamespace => RowsOfNamespace') /\ (DialogOfNamespace => DialogOfNamespace')
  BY <1>1, <1>2 DEF RowsOfNamespace, DialogOfNamespace, InFlight
<1> QED
  BY <1>1, <1>3, <1>4, <1>5 DEF ClusterInv

LEMMA ClusterVisit ==
  ASSUME K!KubernetesConstants, ClusterInv,
         [K!Enter \/ K!Leave \/ K!Next]_console
  PROVE  ClusterInv'
<1>1. CASE K!Enter
  BY <1>1, KubernetesEntered
<1>2. CASE K!Leave
  <2>1. page' = None
    BY <1>2 DEF K!Leave, K!LeaveWith
  <2> QED
    BY <2>1, OutsideKubernetes DEF K!KubernetesConstants, KubernetesInv
<1>3. CASE K!UserActs
  <2>1. ASSUME NEW key \in Names \cup {"all"}, K!handleSyncRuntimeVersions(key)
        PROVE  ClusterInv'
    BY <2>1, VersionsAsked
  <2> QED
    BY <1>3, <2>1, ClusterLoads, ClusterDialogs DEF K!UserActs
<1>4. CASE K!Arrivals
  <2>1. PICK i \in DOMAIN calls :
          \/ K!SettingsArrive(i) \/ K!NamespacesArrive(i)
          \/ \E ok \in BOOLEAN :
                \/ K!RowsArrive(i, ok) \/ K!MetricsArrive(i, ok) \/ K!ContentArrives(i, ok)
                \/ K!WriteAnswered(i, ok) \/ K!VersionsSynced(i, ok)
    BY <1>4 DEF K!Arrivals
  <2>2. ASSUME NEW ok \in BOOLEAN,
               \/ K!RowsArrive(i, ok) \/ K!MetricsArrive(i, ok) \/ K!ContentArrives(i, ok)
               \/ K!WriteAnswered(i, ok) \/ K!VersionsSynced(i, ok)
        PROVE  ClusterInv'
    BY <2>2, ClusterRows, ClusterMetrics, ContentShown, WriteEnds, VersionsTold
  <2> QED
    BY <2>1, <2>2, SettingsKnown, NamespacesListed
<1>5. CASE K!ReloadDue
  BY <1>5, ClusterLoads
<1>6. CASE UNCHANGED console
  BY <1>6, KubernetesUnchanged
<1> QED
  BY <1>1, <1>2, <1>3, <1>4, <1>5, <1>6 DEF K!Next

LEMMA VersionsVisit ==
  ASSUME K!KubernetesConstants, KubernetesInv, page' = "Kubernetes",
         [K!Enter \/ K!Leave \/ K!Next]_console
  PROVE  VersionsListed'
<1>1. page = "Kubernetes" => ClusterTypes /\ VersionsListed
  BY DEF KubernetesInv, ClusterInv
<1>2. CASE K!Enter
  BY <1>2, VersionsEntered
<1>3. CASE K!Leave
  BY <1>3 DEF K!Leave, K!LeaveWith, K!KubernetesConstants
<1>4. CASE K!Next
  <2>1. ClusterTypes /\ VersionsListed
    BY <1>1, <1>4 DEF K!Next, K!Here
  <2>2. CASE K!UserActs \/ K!ReloadDue
    <3>1. view'.versions = view.versions
      BY <2>1, <2>2, ClicksKeepVersions
    <3> QED
      BY <2>1, <3>1 DEF VersionsListed
  <2>3. CASE K!Arrivals
    BY <2>1, <2>3, AnswersKeepVersions DEF K!Arrivals
  <2> QED
    BY <1>4, <2>2, <2>3 DEF K!Next
<1>5. CASE UNCHANGED console
  BY <1>1, <1>5 DEF console, VersionsListed
<1> QED
  BY <1>2, <1>3, <1>4, <1>5

LEMMA KubernetesVisit ==
  ASSUME K!KubernetesConstants, KubernetesInv,
         [K!Enter \/ K!Leave \/ K!Next]_console
  PROVE  KubernetesInv'
<1>1. ClusterInv'
  BY ClusterVisit DEF KubernetesInv
<1>2. page' = "Kubernetes" => VersionsListed'
  BY VersionsVisit
<1> QED
  BY <1>1, <1>2 DEF KubernetesInv

LEMMA KubernetesPromises ==
  ASSUME KubernetesInv PROVE K!TypeOK /\ K!BusyEnds /\ K!WritesOwnSubject
<1> SUFFICES ASSUME page = "Kubernetes" PROVE K!TypeOK /\ K!BusyEnds /\ K!WritesOwnSubject
  BY DEF K!TypeOK, K!BusyEnds, K!WritesOwnSubject, K!Here
<1>1. ClusterTypes /\ ClusterBusy /\ ClusterWrites /\ VersionsListed
  BY DEF KubernetesInv, ClusterInv
<1>2. K!TypeOK
  BY <1>1 DEF K!TypeOK, ClusterTypes, VersionsListed
<1>3. K!BusyEnds
  <2>1. InFlight({"load"}) \/ InFlight({"top"}) => InFlight({"load", "top"})
    BY DEF InFlight
  <2> QED
    BY <1>1, <2>1, KubernetesConsole DEF K!BusyEnds, ClusterBusy
<1>4. K!WritesOwnSubject
  <2> SUFFICES ASSUME view.calm, NEW i \in DOMAIN calls, calls[i].op = "write"
               PROVE  /\ calls[i].arg.from = calls[i].arg.ns
                      /\ calls[i].arg.data \in {None, [name |-> calls[i].arg.name,
                                                       ns |-> calls[i].arg.ns]}
    BY KubernetesConsole DEF K!WritesOwnSubject
  <2>1. Flying("write", calls[i].arg, calls)
    BY DEF Flying
  <2> QED
    BY <1>1, <2>1 DEF ClusterWrites
<1> QED
  BY <1>2, <1>3, <1>4

\* The Kubernetes view alone.
KubernetesVisits == Init /\ [][K!Enter \/ K!Leave \/ K!Next]_console

LEMMA KubernetesInvariant ==
  ASSUME K!KubernetesConstants PROVE KubernetesVisits => []KubernetesInv
<1>1. Init => KubernetesInv
  BY DEF Init, KubernetesInv, ClusterInv, K!KubernetesConstants
<1>2. KubernetesInv /\ [K!Enter \/ K!Leave \/ K!Next]_console => KubernetesInv'
  BY KubernetesVisit
<1> QED
  BY <1>1, <1>2, PTL DEF KubernetesVisits

\* While every load succeeded and none was overtaken, a write goes to the namespace
\* its row was listed in and carries the data of the resource it names: the tab and
\* the namespace may change under an open dialog, and answers come in any order.
THEOREM WritesStayInNamespace ==
  ASSUME K!KubernetesConstants
  PROVE  KubernetesVisits => []K!WritesOwnSubject
  BY KubernetesInvariant, KubernetesPromises, PTL

\* No overlay, dialog or button of the Kubernetes view spins without a call that
\* will end it, through failures, closed dialogs and changed tabs.
THEOREM KubernetesNeverStuck ==
  ASSUME K!KubernetesConstants
  PROVE  KubernetesVisits => []K!BusyEnds
  BY KubernetesInvariant, KubernetesPromises, PTL

-----------------------------------------------------------------------------
(* The views of SQL changes *)

CONSTANTS SqlClicks, Files, Risks, Uploads, MaxEntries, MaxSize, Tasks, Found

Q == INSTANCE SqlPages WITH MaxClicks <- SqlClicks

LEMMA SqlConsole ==
  /\ \A new : Q!Send(new) <=> Send(new)
  /\ \A i, new : Q!Reply(i, new) <=> Reply(i, new)
  /\ \A op, arg : Q!Call(op, arg) = Call(op, arg)
  /\ \A op, i : i \in Q!Indices(op) <=> i \in DOMAIN calls /\ calls[i].op = op
  /\ \A ops : Q!InFlight(ops) <=> InFlight(ops)
  /\ \A p, refs, servers, new : Q!Mount(p, refs, servers, new) <=> Mount(p, refs, servers, new)
  /\ \A s : Q!Range(s) = Range(s)
  BY Zenon DEF Q!Range, Range, Q!Send, Send, Q!Reply, Reply, Q!Sent, Sent, Q!Outdates,
     Outdates, Q!Without, Without, Q!Call, Call, Q!Indices, Q!InFlight, InFlight, Q!Mount,
     Mount

(* The execution of change files *)

SqlFields == {"form", "picked", "current", "batch", "force", "parsing", "executing",
              "importing", "covered", "boxes", "whitelist", "calm"}

WhitelistType == [shown : BOOLEAN, saving : BOOLEAN, enabled : {"empty", "server", "edited"}]
RunArgs == [file : Files \cup {None}, force : BOOLEAN, forced : BOOLEAN, warn : BOOLEAN]

SqlShape ==
  /\ DOMAIN view = SqlFields
  /\ view.form \in Files \cup {None} /\ view.current \in Files \cup {None}
  /\ view.picked \in Nat /\ view.covered \subseteq {"todo", "done"}
  /\ view.boxes \in Seq(Q!Boxes) /\ view.whitelist \in WhitelistType
  /\ view.batch \in BOOLEAN /\ view.force \in BOOLEAN /\ view.parsing \in BOOLEAN
  /\ view.executing \in BOOLEAN /\ view.importing \in BOOLEAN /\ view.calm \in BOOLEAN

SqlCalls ==
  /\ AreCalls(calls)
  /\ \A a : Flying("parse", a, calls) \/ Flying("statements", a, calls) => a \in Files
  /\ \A a : Flying("execute", a, calls) => a \in RunArgs
  /\ \A a : Flying("open", a, calls) => a.file \in Files \cup {None}

\* Some load of lists in flight ends with a flag, or brings a list.
EndsIn(flag, cs) == \E a : Flying("lists", a, cs) /\ a.ends = flag
Brings(list, cs) == \E a : Flying("lists", a, cs) /\ list \in a.of

\* A box of an execution that is shown.
Confirming(boxes) == \E k \in DOMAIN boxes : boxes[k].kind \in {"force", "warn"}

SqlBusy ==
  /\ \A list \in view.covered : Brings(list, calls)
  /\ view.parsing => InFlight({"parse"}) \/ InFlight({"parseBatch"}) \/ EndsIn("parsing", calls)
  /\ view.executing => \/ InFlight({"statements"}) \/ InFlight({"execute"})
                       \/ EndsIn("executing", calls) \/ Confirming(view.boxes)
  /\ view.importing => InFlight({"import"}) \/ EndsIn("importing", calls)
  /\ view.whitelist.saving => InFlight({"putWhitelist"})

\* What is run was confirmed, and what a box is about to run was, up to that box.
Confirmed(r) ==
  LET risks == IF r.file = None THEN {"WARN", "BLOCKED"} ELSE Risks[r.file]
  IN  /\ r.force /\ "BLOCKED" \in risks => r.forced
      /\ "WARN" \in risks => r.warn

BoxedSoFar(boxes, force) ==
  \A k \in DOMAIN boxes :
    /\ boxes[k].kind \in {"force", "warn"} => boxes[k].file \in Files
    /\ boxes[k].kind = "warn" /\ force /\ "BLOCKED" \in Risks[boxes[k].file] => boxes[k].forced

RunsConfirmed ==
  /\ \A a : Flying("execute", a, calls) => Confirmed(a)
  /\ BoxedSoFar(view.boxes, view.force)

WhitelistKnown ==
  view.calm => /\ view.whitelist.enabled # "empty" \/ InFlight({"whitelist"})
               /\ \A a : Flying("putWhitelist", a, calls) => a.early \/ a.list # "empty"

SqlPageInv ==
  page = "Sql" /\ SqlShape /\ SqlCalls /\ SqlBusy /\ RunsConfirmed /\ WhitelistKnown

(* The change of a column under dependent views *)

TaskType == [task : DOMAIN world, status : Q!Statuses]
RefreshType == [task : DOMAIN world, op : Q!Operations, status : Q!Statuses]

DepsShape ==
  /\ DOMAIN view = {"loading", "current", "status", "plan", "doing", "calm"}
  /\ world \in [DOMAIN world -> Q!Statuses] /\ DOMAIN world \subseteq Tasks
  /\ view.current \in DOMAIN world \cup {None}
  /\ view.status \in Q!Statuses \cup {None} /\ view.plan \in Tasks \cup {None}
  /\ view.doing \subseteq Q!Operations \cup {"export"}
  /\ view.loading \in BOOLEAN /\ view.calm \in BOOLEAN

DepsCalls ==
  /\ AreCalls(calls)
  /\ \A a : Flying("openTask", a, calls) => a \in TaskType
  /\ \A a : Flying("refresh", a, calls) => a \in RefreshType
  /\ \A a : Flying("operate", a, calls) =>
       a \in [op : Q!Operations, task : DOMAIN world] /\ view.current # None
  /\ \A a : Flying("plan", a, calls) => a \in Tasks

\* An operation under way, by its first call, by the refresh after its failure, by
\* the list that ends it; or the export of a plan.
UnderWay(op, cs) ==
  \/ \E a : Flying("operate", a, cs) /\ a.op = op
  \/ \E a : Flying("refresh", a, cs) /\ a.op = op
  \/ Flying("tasks", op, cs)
  \/ op = "export" /\ \E a : Flying("plan", a, cs)

DepsBusy ==
  /\ view.loading => InFlight({"tasks"})
  /\ \A op \in view.doing : UnderWay(op, calls)

\* The status shown is the task's, or asked for.
StatusKnown ==
  view.calm /\ view.current # None =>
  /\ view.status = world[view.current] \/ InFlight({"refresh"})
  /\ view.plan \in {None, view.current}

DepsPageInv ==
  page = "ViewDeps" /\ DepsShape /\ DepsCalls /\ DepsBusy /\ StatusKnown

(* The instance *)

InstancePageInv ==
  /\ page = "Instance" /\ AreCalls(calls) /\ DOMAIN view = {"loading"}
  /\ view.loading \in BOOLEAN /\ (view.loading => InFlight({"instance"}))

SqlInv ==
  /\ page = "Sql" => SqlPageInv
  /\ page = "ViewDeps" => DepsPageInv
  /\ page = "Instance" => InstancePageInv

-----------------------------------------------------------------------------
(* The handlers of the change of a column *)

OperateType == [op : Q!Operations, task : DOMAIN world]

LEMMA DepsCallsKept ==
  ASSUME DepsCalls, AreCalls(calls'), DOMAIN world \subseteq DOMAIN world',
         view.current # None => view'.current # None,
         \A a : Flying("openTask", a, calls') => Flying("openTask", a, calls) \/ a \in TaskType',
         \A a : Flying("refresh", a, calls') => Flying("refresh", a, calls) \/ a \in RefreshType',
         \A a : Flying("operate", a, calls') =>
           Flying("operate", a, calls) \/ (a \in OperateType' /\ view'.current # None),
         \A a : Flying("plan", a, calls') => Flying("plan", a, calls) \/ a \in Tasks
  PROVE  DepsCalls'
<1>1. TaskType \subseteq TaskType' /\ RefreshType \subseteq RefreshType'
  BY DEF TaskType, RefreshType
<1>2. \A a : a \in OperateType => a \in OperateType'
  BY DEF OperateType
<1>3. \A a : Flying("operate", a, calls) => a \in OperateType /\ view.current # None
  BY DEF DepsCalls, OperateType
<1>4. \A a : Flying("operate", a, calls') => a \in OperateType' /\ view'.current # None
  BY <1>2, <1>3
<1>5. \A a : Flying("openTask", a, calls') => a \in TaskType'
  BY <1>1 DEF DepsCalls
<1>6. \A a : Flying("refresh", a, calls') => a \in RefreshType'
  BY <1>1 DEF DepsCalls
<1>7. \A a : Flying("plan", a, calls') => a \in Tasks
  BY DEF DepsCalls
<1> QED
  BY <1>4, <1>5, <1>6, <1>7 DEF DepsCalls, OperateType

\* An operation is under way until the call that stands for it is answered.
LEMMA UnderWayKept ==
  ASSUME AreCalls(calls), NEW i \in DOMAIN calls, NEW new, AreCalls(new), Reply(i, new),
         NEW op, UnderWay(op, calls),
         calls[i].op \in {"operate", "refresh"} => calls[i].arg.op # op,
         calls[i].op = "tasks" => calls[i].arg # op,
         calls[i].op = "plan" => op # "export"
  PROVE  UnderWay(op, calls')
<1>1. \A o, a : Flying(o, a, calls) /\ (calls[i].op # o \/ calls[i].arg # a) => Flying(o, a, calls')
  BY ReplyKeeps
<1> QED
  BY <1>1 DEF UnderWay

LEMMA UnderWaySent ==
  ASSUME AreCalls(calls), NEW o, NEW a, Send(<<Call(o, a)>>), NEW op, UnderWay(op, calls)
  PROVE  UnderWay(op, calls')
  BY SendOne DEF UnderWay

LEMMA DepsMounted ==
  ASSUME Q!SqlConstants, Q!EnterViewDeps PROVE DepsPageInv'
<1>1. PICK done \in SUBSET Tasks : \E s \in [done -> Found] :
        /\ Mount("ViewDeps", view', s, <<Call("tasks", None)>>)
        /\ view' = [loading |-> TRUE, current |-> None, status |-> None, plan |-> None,
                    doing |-> {}, calm |-> TRUE]
  BY SqlConsole DEF Q!EnterViewDeps, Mount, Q!Mount
<1>2. PICK s \in [done -> Found] : Mount("ViewDeps", view', s, <<Call("tasks", None)>>)
  BY <1>1
<1>3. /\ AreCalls(calls') /\ page' = "ViewDeps" /\ world' = s /\ InFlight({"tasks"})'
      /\ \A o, a : Flying(o, a, calls') <=> o = "tasks" /\ a = None
  BY <1>2, MountOne DEF Mount
<1>4. DepsShape'
  BY <1>1, <1>3 DEF DepsShape, Q!SqlConstants
<1>5. DepsCalls'
  BY <1>3 DEF DepsCalls
<1>6. DepsBusy' /\ StatusKnown'
  BY <1>1, <1>3 DEF DepsBusy, StatusKnown
<1> QED
  BY <1>3, <1>4, <1>5, <1>6 DEF DepsPageInv

LEMMA TasksListed ==
  ASSUME DepsPageInv, NEW i \in DOMAIN calls, Q!TasksArrive(i) PROVE DepsPageInv'
<1>1. /\ calls[i].op = "tasks" /\ UNCHANGED <<page, world>> /\ Reply(i, <<>>)
      /\ view' = [view EXCEPT !.loading = FALSE, !.doing = @ \ {calls[i].arg}]
  BY SqlConsole DEF Q!TasksArrive, Q!Answer
<1>2. /\ DOMAIN view' = DOMAIN view /\ view'.loading = FALSE /\ view'.current = view.current
      /\ view'.status = view.status /\ view'.plan = view.plan /\ view'.calm = view.calm
      /\ view'.doing = view.doing \ {calls[i].arg}
  BY <1>1 DEF DepsPageInv, DepsShape
<1>3. /\ AreCalls(calls) /\ AreCalls(calls') /\ \A o : o # "tasks" => LeftAlone(o)
  BY <1>1, ReplyNone, ReplyNoneLeaves DEF DepsPageInv, DepsCalls
<1>4. DepsShape'
  BY <1>1, <1>2 DEF DepsPageInv, DepsShape
<1>5. DepsCalls'
  BY <1>1, <1>2, <1>3, DepsCallsKept DEF DepsPageInv, LeftAlone
<1>6. DepsBusy'
  <2> SUFFICES ASSUME NEW op \in view'.doing PROVE UnderWay(op, calls')
    BY <1>2 DEF DepsBusy
  <2>1. UnderWay(op, calls) /\ calls[i].arg # op
    BY <1>2 DEF DepsPageInv, DepsBusy
  <2> QED
    BY <1>1, <1>3, <2>1, NoCall, UnderWayKept
<1>7. StatusKnown'
  BY <1>1, <1>2, <1>3, FlightFlies DEF DepsPageInv, StatusKnown, LeftAlone
<1> QED
  BY <1>1, <1>4, <1>5, <1>6, <1>7 DEF DepsPageInv

\* A question that marks nothing as under way.
LEMMA DepsAsked ==
  ASSUME DepsPageInv, NEW o \in {"tasks", "create", "openTask"}, NEW a,
         o = "openTask" => a \in TaskType,
         UNCHANGED <<page, world>>, Send(<<Call(o, a)>>),
         \/ UNCHANGED view
         \/ o = "tasks" /\ view' = [view EXCEPT !.loading = TRUE]
  PROVE  DepsPageInv'
<1>2. /\ DOMAIN view' = DOMAIN view /\ view'.loading \in BOOLEAN /\ view'.current = view.current
      /\ view'.status = view.status /\ view'.plan = view.plan /\ view'.calm = view.calm
      /\ view'.doing = view.doing /\ (view'.loading => o = "tasks" \/ view.loading)
  BY DEF DepsPageInv, DepsShape
<1>3. /\ AreCalls(calls) /\ AreCalls(calls')
      /\ \A op, b : Flying(op, b, calls') <=> Flying(op, b, calls) \/ (op = o /\ b = a)
      /\ \A ops : InFlight(ops) \/ o \in ops => InFlight(ops)'
  BY SendOne DEF DepsPageInv, DepsCalls
<1>4. DepsShape'
  BY <1>2 DEF DepsPageInv, DepsShape
<1>5. DepsCalls'
  <2>1. TaskType' = TaskType
    BY DEF TaskType
  <2> QED
    BY <1>2, <1>3, <2>1, DepsCallsKept DEF DepsPageInv
<1>6. DepsBusy'
  <2>1. \A op \in view'.doing : UnderWay(op, calls')
    BY <1>2, <1>3, UnderWaySent DEF DepsPageInv, DepsBusy
  <2> QED
    BY <1>2, <1>3, <2>1 DEF DepsPageInv, DepsBusy
<1>7. StatusKnown'
  BY <1>2, <1>3 DEF DepsPageInv, StatusKnown
<1> QED
  BY <1>4, <1>5, <1>6, <1>7 DEF DepsPageInv

LEMMA DepsClicked ==
  ASSUME DepsPageInv,
         Q!ReloadTasks \/ Q!handleCreateTask \/ \E t \in Tasks : Q!handleOpenTask(t)
  PROVE  DepsPageInv'
<1>1. CASE Q!ReloadTasks
  <2>1. /\ UNCHANGED <<page, world>> /\ Send(<<Call("tasks", None)>>)
        /\ view' = [view EXCEPT !.loading = TRUE]
    BY <1>1, SqlConsole DEF Q!ReloadTasks, Q!Load, Q!User
  <2> QED
    BY <2>1, DepsAsked
<1>2. CASE Q!handleCreateTask
  <2>1. /\ UNCHANGED <<page, world, view>> /\ Send(<<Call("create", None)>>)
    BY <1>2, SqlConsole DEF Q!handleCreateTask, Q!User
  <2> QED
    BY <2>1, DepsAsked
<1>3. ASSUME NEW t \in Tasks, Q!handleOpenTask(t) PROVE DepsPageInv'
  <2>1. /\ UNCHANGED <<page, world, view>> /\ t \in DOMAIN world
        /\ Send(<<Call("openTask", [task |-> t, status |-> world[t]])>>)
    BY <1>3, SqlConsole DEF Q!handleOpenTask, Q!ReadTask, Q!User
  <2>2. [task |-> t, status |-> world[t]] \in TaskType
    BY <2>1 DEF TaskType, DepsPageInv, DepsShape
  <2> QED
    BY <2>1, <2>2, DepsAsked
<1> QED
  BY <1>1, <1>2, <1>3

\* A new task is shown at once.
LEMMA TaskMade ==
  ASSUME Q!SqlConstants, DepsPageInv, NEW i \in DOMAIN calls, NEW ok \in BOOLEAN,
         Q!TaskCreated(i, ok)
  PROVE  DepsPageInv'
<1>1. calls[i].op = "create" /\ page' = page
  BY SqlConsole DEF Q!TaskCreated
<1>2. CASE ~ok
  <2>1. Reply(i, <<>>) /\ UNCHANGED <<view, world>>
    BY <1>2, SqlConsole DEF Q!TaskCreated
  <2>2. /\ AreCalls(calls) /\ AreCalls(calls') /\ \A o : o # "create" => LeftAlone(o)
    BY <1>1, <2>1, ReplyNone, ReplyNoneLeaves DEF DepsPageInv, DepsCalls
  <2>3. DepsShape' /\ StatusKnown'
    BY <2>1, <2>2, FlightFlies DEF DepsPageInv, DepsShape, StatusKnown, LeftAlone
  <2>4. DepsCalls'
    BY <2>1, <2>2, DepsCallsKept DEF DepsPageInv, LeftAlone
  <2>5. DepsBusy'
    BY <2>1, <2>2, FlightFlies DEF DepsPageInv, DepsBusy, UnderWay, LeftAlone
  <2> QED
    BY <1>1, <2>3, <2>4, <2>5 DEF DepsPageInv
<1>3. CASE ok
  <2>1. PICK t \in Tasks \ DOMAIN world :
          /\ world' = [u \in DOMAIN world \cup {t} |-> IF u = t THEN "CREATED" ELSE world[u]]
          /\ Reply(i, <<Call("tasks", None)>>)
          /\ view' = [[view EXCEPT !.current = t, !.status = "CREATED", !.plan = None]
                        EXCEPT !.loading = TRUE]
    BY <1>3, SqlConsole DEF Q!TaskCreated, Q!loadTasks
  <2>2. /\ DOMAIN view' = DOMAIN view /\ view'.loading = TRUE /\ view'.current = t
        /\ view'.status = "CREATED" /\ view'.plan = None /\ view'.calm = view.calm
        /\ view'.doing = view.doing
    BY <2>1 DEF DepsPageInv, DepsShape
  <2>3. /\ AreCalls(calls) /\ AreCalls(calls') /\ InFlight({"tasks"})'
        /\ \A o : o # "create" /\ o # "tasks" => LeftAlone(o)
    BY <1>1, <2>1, ReplyOne, ReplyOneLeaves DEF DepsPageInv, DepsCalls
  <2>4. /\ DOMAIN world' = DOMAIN world \cup {t} /\ world'[t] = "CREATED" /\ t \in DOMAIN world'
        /\ \A u \in DOMAIN world : world'[u] \in Q!Statuses
        /\ world' \in [DOMAIN world' -> Q!Statuses] /\ t # None
    BY <2>1 DEF DepsPageInv, DepsShape, Q!Statuses, Q!SqlConstants
  <2>5. DepsShape'
    BY <2>1, <2>2, <2>4 DEF DepsPageInv, DepsShape, Q!Statuses
  <2>6. DepsCalls'
    BY <2>2, <2>3, <2>4, DepsCallsKept DEF DepsPageInv, LeftAlone
  <2>7. DepsBusy'
    <3>1. \A op \in view'.doing : UnderWay(op, calls')
      BY <1>1, <2>1, <2>2, <2>3, OneCall, UnderWayKept DEF DepsPageInv, DepsBusy
    <3> QED
      BY <2>3, <3>1 DEF DepsBusy
  <2>8. StatusKnown'
    BY <2>2, <2>4 DEF StatusKnown
  <2> QED
    BY <1>1, <2>5, <2>6, <2>7, <2>8 DEF DepsPageInv
<1> QED
  BY <1>2, <1>3

LEMMA TaskShown ==
  ASSUME Q!SqlConstants, DepsPageInv, NEW i \in DOMAIN calls, NEW ok \in BOOLEAN,
         Q!TaskOpened(i, ok)
  PROVE  DepsPageInv'
<1>1. /\ calls[i].op = "openTask" /\ UNCHANGED <<page, world>> /\ Reply(i, <<>>)
      /\ \E s \in {calls[i].arg.status, world[calls[i].arg.task]} :
           view' = IF ok THEN [view EXCEPT !.current = calls[i].arg.task, !.status = s,
                                 !.plan = None, !.calm = @ /\ s = world[calls[i].arg.task]]
                   ELSE view
  BY SqlConsole DEF Q!TaskOpened, Q!Answer
<1>2. calls[i].arg \in TaskType
  <2>1. Flying("openTask", calls[i].arg, calls)
    BY <1>1 DEF Flying
  <2> QED
    BY <2>1 DEF DepsPageInv, DepsCalls
<1> DEFINE t == calls[i].arg.task
<1>3. t \in DOMAIN world /\ calls[i].arg.status \in Q!Statuses /\ world[t] \in Q!Statuses
  BY <1>2 DEF TaskType, DepsPageInv, DepsShape
<1>4. /\ AreCalls(calls) /\ AreCalls(calls') /\ \A o : o # "openTask" => LeftAlone(o)
      /\ \A a : Flying("openTask", a, calls') => Flying("openTask", a, calls)
  BY <1>1, ReplyNone, ReplyNoneLeaves DEF DepsPageInv, DepsCalls
<1>5. /\ DOMAIN view' = DOMAIN view /\ view'.loading = view.loading
      /\ view'.doing = view.doing /\ view'.calm \in BOOLEAN /\ (view'.calm => view.calm)
      /\ \/ /\ view'.current = view.current /\ view'.status = view.status
            /\ view'.plan = view.plan
         \/ /\ view'.current = t /\ view'.status \in Q!Statuses /\ view'.plan = None
            /\ view'.calm => view'.status = world[t]
  <2>1. PICK s \in {calls[i].arg.status, world[t]} :
          view' = IF ok THEN [view EXCEPT !.current = t, !.status = s,
                                 !.plan = None, !.calm = @ /\ s = world[t]]
                  ELSE view
    BY <1>1
  <2>2. CASE ok
    <3>1. PICK b \in BOOLEAN : b = (view.calm /\ s = world[t])
      BY DEF DepsPageInv, DepsShape
    <3>2. view' = [view EXCEPT !.current = t, !.status = s, !.plan = None, !.calm = b]
      BY <2>1, <2>2, <3>1
    <3> HIDE DEF t
    <3> QED
      BY <1>3, <2>1, <3>1, <3>2 DEF DepsPageInv, DepsShape
  <2>3. CASE ~ok
    BY <2>1, <2>3 DEF DepsPageInv, DepsShape
  <2> QED
    BY <2>2, <2>3
<1> HIDE DEF t
<1>6. DepsShape'
  BY <1>1, <1>3, <1>5 DEF DepsPageInv, DepsShape
<1>7. DepsCalls'
  <2>1. view.current # None => view'.current # None
    BY <1>3, <1>5 DEF DepsPageInv, DepsShape, Q!SqlConstants
  <2> QED
    BY <1>1, <1>4, <2>1, DepsCallsKept DEF DepsPageInv, LeftAlone
<1>8. DepsBusy'
  <2>1. \A op \in view'.doing : UnderWay(op, calls')
    BY <1>1, <1>4, <1>5, NoCall, UnderWayKept DEF DepsPageInv, DepsBusy
  <2> QED
    BY <1>4, <1>5, <2>1, FlightFlies DEF DepsPageInv, DepsBusy, LeftAlone
<1>9. StatusKnown'
  BY <1>1, <1>3, <1>4, <1>5, FlightFlies DEF DepsPageInv, StatusKnown, LeftAlone
<1> QED
  BY <1>1, <1>6, <1>7, <1>8, <1>9 DEF DepsPageInv

\* An operation is asked of the server, or the plan exported, and is under way.
LEMMA OperationSent ==
  ASSUME DepsPageInv, NEW op \in Q!Operations, Q!operate(op) PROVE DepsPageInv'
<1> DEFINE a == [op |-> op, task |-> view.current]
           b == view.doing \cup {op}
<1>1. /\ UNCHANGED <<page, world>> /\ Send(<<Call("operate", a)>>) /\ view.current # None
      /\ view' = [view EXCEPT !.doing = b]
  BY SqlConsole DEF Q!operate, Q!Can, Q!User
<1>2. /\ a \in OperateType /\ a.op = op
      /\ b \subseteq Q!Operations \cup {"export"}
      /\ \A o : o \in b <=> o \in view.doing \/ o = op
  BY <1>1 DEF OperateType, DepsPageInv, DepsShape
<1> HIDE DEF a, b
<1>3. /\ DOMAIN view' = DOMAIN view /\ view'.loading = view.loading
      /\ view'.current = view.current /\ view'.status = view.status
      /\ view'.plan = view.plan /\ view'.calm = view.calm /\ view'.doing = b
  BY <1>1 DEF DepsPageInv, DepsShape
<1>4. /\ AreCalls(calls) /\ AreCalls(calls')
      /\ \A o, c : Flying(o, c, calls') <=> Flying(o, c, calls) \/ (o = "operate" /\ c = a)
      /\ \A ops : InFlight(ops) => InFlight(ops)'
  BY <1>1, SendOne DEF DepsPageInv, DepsCalls
<1>5. DepsShape'
  BY <1>1, <1>2, <1>3 DEF DepsPageInv, DepsShape
<1>6. DepsCalls'
  <2>1. a \in OperateType'
    BY <1>1, <1>2 DEF OperateType
  <2> QED
    BY <1>1, <1>3, <1>4, <2>1, DepsCallsKept DEF DepsPageInv
<1>7. DepsBusy'
  <2>1. UnderWay(op, calls')
    BY <1>2, <1>4 DEF UnderWay
  <2>2. \A o \in view.doing : UnderWay(o, calls')
    BY <1>1, <1>4, UnderWaySent DEF DepsPageInv, DepsBusy
  <2> QED
    BY <1>2, <1>3, <1>4, <2>1, <2>2 DEF DepsPageInv, DepsBusy
<1>8. StatusKnown'
  BY <1>1, <1>3, <1>4 DEF DepsPageInv, StatusKnown
<1> QED
  BY <1>1, <1>5, <1>6, <1>7, <1>8 DEF DepsPageInv

LEMMA PlanSent ==
  ASSUME DepsPageInv, Q!handleExportPlan PROVE DepsPageInv'
<1> DEFINE b == view.doing \cup {"export"}
<1>1. /\ UNCHANGED <<page, world>> /\ Send(<<Call("plan", view.current)>>)
      /\ view.current # None /\ view' = [view EXCEPT !.doing = b]
  BY SqlConsole DEF Q!handleExportPlan, Q!User
<1>2. /\ view.current \in Tasks
      /\ b \subseteq Q!Operations \cup {"export"}
      /\ \A o : o \in b <=> o \in view.doing \/ o = "export"
  BY <1>1 DEF DepsPageInv, DepsShape
<1> HIDE DEF b
<1>3. /\ DOMAIN view' = DOMAIN view /\ view'.loading = view.loading
      /\ view'.current = view.current /\ view'.status = view.status
      /\ view'.plan = view.plan /\ view'.calm = view.calm /\ view'.doing = b
  BY <1>1 DEF DepsPageInv, DepsShape
<1>4. /\ AreCalls(calls) /\ AreCalls(calls')
      /\ \A o, c : Flying(o, c, calls') <=>
                   Flying(o, c, calls) \/ (o = "plan" /\ c = view.current)
      /\ \A ops : InFlight(ops) => InFlight(ops)'
  BY <1>1, SendOne DEF DepsPageInv, DepsCalls
<1>5. DepsShape'
  BY <1>1, <1>2, <1>3 DEF DepsPageInv, DepsShape
<1>6. DepsCalls'
  BY <1>1, <1>2, <1>3, <1>4, DepsCallsKept DEF DepsPageInv
<1>7. DepsBusy'
  <2>1. UnderWay("export", calls')
    BY <1>4 DEF UnderWay
  <2>2. \A o \in view.doing : UnderWay(o, calls')
    BY <1>1, <1>4, UnderWaySent DEF DepsPageInv, DepsBusy
  <2> QED
    BY <1>2, <1>3, <1>4, <2>1, <2>2 DEF DepsPageInv, DepsBusy
<1>8. StatusKnown'
  BY <1>1, <1>3, <1>4 DEF DepsPageInv, StatusKnown
<1> QED
  BY <1>1, <1>5, <1>6, <1>7, <1>8 DEF DepsPageInv

LEMMA PlanShown ==
  ASSUME DepsPageInv, NEW i \in DOMAIN calls, NEW ok \in BOOLEAN, Q!PlanArrives(i, ok)
  PROVE  DepsPageInv'
<1> DEFINE p == IF ok THEN calls[i].arg ELSE view.plan
           c == view.calm /\ calls[i].arg = view.current
           d == view.doing \ {"export"}
<1>1. /\ calls[i].op = "plan" /\ UNCHANGED <<page, world>> /\ Reply(i, <<>>)
      /\ view' = [view EXCEPT !.doing = d, !.plan = p, !.calm = c]
  BY SqlConsole DEF Q!PlanArrives, Q!Answer
<1>2. calls[i].arg \in Tasks
  <2>1. Flying("plan", calls[i].arg, calls)
    BY <1>1 DEF Flying
  <2> QED
    BY <2>1 DEF DepsPageInv, DepsCalls
<1>3. /\ p \in Tasks \cup {None} /\ c \in BOOLEAN
      /\ c => view.calm /\ p \in {view.current, view.plan}
      /\ \A o : o \in d <=> o \in view.doing /\ o # "export"
  BY <1>2 DEF DepsPageInv, DepsShape
<1> HIDE DEF p, c, d
<1>4. /\ DOMAIN view' = DOMAIN view /\ view'.loading = view.loading
      /\ view'.current = view.current /\ view'.status = view.status
      /\ view'.plan = p /\ view'.calm = c /\ view'.doing = d
  BY <1>1 DEF DepsPageInv, DepsShape
<1>5. /\ AreCalls(calls) /\ AreCalls(calls') /\ \A o : o # "plan" => LeftAlone(o)
      /\ \A a : Flying("plan", a, calls') => Flying("plan", a, calls)
  BY <1>1, ReplyNone, ReplyNoneLeaves DEF DepsPageInv, DepsCalls
<1>6. DepsShape'
  BY <1>1, <1>3, <1>4 DEF DepsPageInv, DepsShape
<1>7. DepsCalls'
  BY <1>1, <1>4, <1>5, DepsCallsKept DEF DepsPageInv, LeftAlone
<1>8. DepsBusy'
  <2>1. \A op \in view'.doing : UnderWay(op, calls')
    BY <1>1, <1>3, <1>4, <1>5, NoCall, UnderWayKept DEF DepsPageInv, DepsBusy
  <2> QED
    BY <1>4, <1>5, <2>1, FlightFlies DEF DepsPageInv, DepsBusy, LeftAlone
<1>9. StatusKnown'
  BY <1>1, <1>3, <1>4, <1>5, FlightFlies DEF DepsPageInv, StatusKnown, LeftAlone
<1> QED
  BY <1>1, <1>6, <1>7, <1>8, <1>9 DEF DepsPageInv

\* The server is done with an operation whose call had timed out.
LEMMA OperationOver ==
  ASSUME DepsPageInv, NEW t \in Tasks, Q!OperationEnds(t) PROVE DepsPageInv'
<1>1. PICK s \in Q!Statuses :
        /\ world' = [world EXCEPT ![t] = s] /\ t \in DOMAIN world
        /\ view' = [view EXCEPT !.calm = FALSE] /\ UNCHANGED <<page, calls>>
  BY DEF Q!OperationEnds, Q!Statuses
<1>2. /\ DOMAIN view' = DOMAIN view /\ view'.loading = view.loading
      /\ view'.current = view.current /\ view'.status = view.status
      /\ view'.plan = view.plan /\ view'.calm = FALSE /\ view'.doing = view.doing
  BY <1>1 DEF DepsPageInv, DepsShape
<1>3. DOMAIN world' = DOMAIN world /\ world' \in [DOMAIN world -> Q!Statuses]
  BY <1>1 DEF DepsPageInv, DepsShape
<1>4. DepsShape'
  BY <1>2, <1>3 DEF DepsPageInv, DepsShape
<1>5. DepsCalls'
  BY <1>1, <1>2, <1>3, DepsCallsKept DEF DepsPageInv, DepsCalls
<1>6. DepsBusy' /\ StatusKnown'
  BY <1>1, <1>2 DEF DepsPageInv, DepsBusy, InFlight, StatusKnown
<1> QED
  BY <1>1, <1>4, <1>5, <1>6 DEF DepsPageInv

\* The end of an operation takes up what its first call leaves.
LEMMA UnderWayMoved ==
  ASSUME AreCalls(calls), NEW i \in DOMAIN calls, NEW o, NEW a, Reply(i, <<Call(o, a)>>),
         calls[i].op \in {"operate", "refresh"},
         \/ o = "tasks" /\ a = calls[i].arg.op
         \/ o = "refresh" /\ a.op = calls[i].arg.op,
         NEW op, UnderWay(op, calls)
  PROVE  UnderWay(op, calls')
<1>1. AreCalls(<<Call(o, a)>>) /\ Flying(o, a, <<Call(o, a)>>)
  BY OneCall
<1>2. CASE calls[i].arg.op # op
  BY <1>1, <1>2, UnderWayKept
<1>3. CASE calls[i].arg.op = op
  <2>1. Flying(o, a, calls')
    BY <1>1, ReplyTakes
  <2> QED
    BY <1>3, <2>1 DEF UnderWay
<1> QED
  BY <1>2, <1>3

LEMMA OperationDone ==
  ASSUME Q!SqlConstants, DepsPageInv, page' = page, NEW i \in DOMAIN calls,
         calls[i].op = "operate", NEW t, t = calls[i].arg.task, Q!Answered(i, t, TRUE),
         DOMAIN world' = DOMAIN world, world' \in [DOMAIN world -> Q!Statuses]
  PROVE  DepsPageInv'
<1>1. calls[i].arg \in OperateType /\ view.current # None /\ t \in DOMAIN world
  <2>1. Flying("operate", calls[i].arg, calls)
    BY DEF Flying
  <2> QED
    BY <2>1 DEF DepsPageInv, DepsCalls, OperateType
<1> DEFINE op == calls[i].arg.op
           p == IF op = "analyze" THEN None ELSE view.plan
           c == view.calm /\ t = view.current
<1>2. /\ Reply(i, <<Call("tasks", op)>>)
      /\ view' = [[view EXCEPT !.current = t, !.status = world'[t], !.plan = p, !.calm = c]
                    EXCEPT !.loading = TRUE]
  BY SqlConsole DEF Q!Answered, Q!loadTasks
<1>3. /\ p \in {None, view.plan} /\ c \in BOOLEAN /\ (c => view.calm /\ t = view.current)
      /\ op = calls[i].arg.op
  BY DEF DepsPageInv, DepsShape
<1> HIDE DEF p, c, op
<1>4. /\ DOMAIN view' = DOMAIN view /\ view'.loading = TRUE /\ view'.current = t
      /\ view'.status = world'[t] /\ view'.plan = p /\ view'.calm = c
      /\ view'.doing = view.doing
  BY <1>2 DEF DepsPageInv, DepsShape
<1>5. /\ AreCalls(calls) /\ AreCalls(calls') /\ InFlight({"tasks"})'
      /\ \A o : o # "operate" /\ o # "tasks" => LeftAlone(o)
      /\ \A a : Flying("operate", a, calls') => Flying("operate", a, calls)
  BY <1>2, ReplyOne, ReplyOneLeaves DEF DepsPageInv, DepsCalls
<1>6. DepsShape'
  BY <1>1, <1>3, <1>4 DEF DepsPageInv, DepsShape
<1>7. DepsCalls'
  <2>1. t # None
    BY <1>1 DEF DepsPageInv, DepsShape, Q!SqlConstants
  <2> QED
    BY <1>4, <1>5, <2>1, DepsCallsKept DEF DepsPageInv, LeftAlone
<1>8. DepsBusy'
  <2>1. \A o \in view.doing : UnderWay(o, calls')
    BY <1>2, <1>3, <1>5, UnderWayMoved DEF DepsPageInv, DepsBusy
  <2> QED
    BY <1>4, <1>5, <2>1 DEF DepsBusy
<1>9. StatusKnown'
  BY <1>3, <1>4 DEF DepsPageInv, StatusKnown
<1> QED
  BY <1>6, <1>7, <1>8, <1>9 DEF DepsPageInv

\* Of one that failed, or whose answer came too late, the status is asked for.
LEMMA OperationFailed ==
  ASSUME Q!SqlConstants, DepsPageInv, page' = page, NEW i \in DOMAIN calls,
         calls[i].op = "operate", NEW t, Q!Answered(i, t, FALSE),
         DOMAIN world' = DOMAIN world, world' \in [DOMAIN world -> Q!Statuses]
  PROVE  DepsPageInv'
<1>1. calls[i].arg \in OperateType /\ view.current # None /\ view.current \in DOMAIN world
  <2>1. Flying("operate", calls[i].arg, calls)
    BY DEF Flying
  <2> QED
    BY <2>1 DEF DepsPageInv, DepsCalls, DepsShape, OperateType
<1> DEFINE a == [task |-> view.current, op |-> calls[i].arg.op, status |-> world'[view.current]]
<1>2. Reply(i, <<Call("refresh", a)>>) /\ UNCHANGED view
  BY SqlConsole DEF Q!Answered
<1>3. a \in RefreshType' /\ a.op = calls[i].arg.op
  BY <1>1 DEF OperateType, RefreshType
<1> HIDE DEF a
<1>4. /\ AreCalls(calls) /\ AreCalls(calls') /\ InFlight({"refresh"})'
      /\ \A o : o # "operate" /\ o # "refresh" => LeftAlone(o)
      /\ \A b : Flying("operate", b, calls') => Flying("operate", b, calls)
      /\ \A b : Flying("refresh", b, calls') => Flying("refresh", b, calls) \/ b = a
  BY <1>2, ReplyOne, ReplyOneLeaves DEF DepsPageInv, DepsCalls
<1>5. DepsShape'
  BY <1>2 DEF DepsPageInv, DepsShape
<1>6. DepsCalls'
  BY <1>2, <1>3, <1>4, DepsCallsKept DEF DepsPageInv, LeftAlone
<1>7. DepsBusy'
  <2>1. \A o \in view.doing : UnderWay(o, calls')
    BY <1>2, <1>3, <1>4, UnderWayMoved DEF DepsPageInv, DepsBusy
  <2>2. view.loading => InFlight({"tasks"})'
    BY <1>4, FlightFlies DEF DepsPageInv, DepsBusy, LeftAlone
  <2> QED
    BY <1>2, <2>1, <2>2 DEF DepsBusy
<1>8. StatusKnown'
  <2>1. view.calm => view.plan \in {None, view.current}
    BY <1>1 DEF DepsPageInv, StatusKnown
  <2> QED
    BY <1>2, <1>4, <2>1 DEF StatusKnown
<1> QED
  BY <1>5, <1>6, <1>7, <1>8 DEF DepsPageInv

LEMMA OperationOutcome ==
  ASSUME Q!SqlConstants, DepsPageInv, NEW i \in DOMAIN calls, NEW ok \in BOOLEAN,
         Q!OperationAnswered(i, ok)
  PROVE  DepsPageInv'
<1> DEFINE t == calls[i].arg.task
           op == calls[i].arg.op
<1>1. /\ calls[i].op = "operate" /\ page' = page
      /\ \/ \E s \in Q!Outcome(op, world[t], ok) :
              world' = [world EXCEPT ![t] = s] /\ Q!Answered(i, t, ok)
         \/ ~ok /\ UNCHANGED world /\ Q!Answered(i, t, FALSE)
  BY SqlConsole DEF Q!OperationAnswered
<1>2. t \in DOMAIN world /\ op \in Q!Operations /\ world[t] \in Q!Statuses
  <2>1. Flying("operate", calls[i].arg, calls)
    BY <1>1 DEF Flying
  <2> QED
    BY <2>1 DEF DepsPageInv, DepsCalls, DepsShape
<1>3. Q!Outcome(op, world[t], ok) \subseteq Q!Statuses
  BY <1>2 DEF Q!Outcome, Q!Operations, Q!Statuses
<1>4. Q!Answered(i, t, TRUE) \/ Q!Answered(i, t, FALSE)
  <2>1. CASE ok = TRUE
    BY <1>1, <2>1
  <2>2. CASE ok = FALSE
    BY <1>1, <2>2
  <2> QED
    BY <2>1, <2>2
<1>5. DOMAIN world' = DOMAIN world /\ world' \in [DOMAIN world -> Q!Statuses]
  BY <1>1, <1>3 DEF DepsPageInv, DepsShape
<1> QED
  BY <1>1, <1>4, <1>5, OperationDone, OperationFailed

LEMMA OperationLate ==
  ASSUME Q!SqlConstants, DepsPageInv, NEW i \in DOMAIN calls, Q!OperationTimesOut(i)
  PROVE  DepsPageInv'
<1>1. PICK s \in Q!Busy :
        /\ calls[i].op = "operate" /\ page' = page
        /\ world' = [world EXCEPT ![calls[i].arg.task] = s]
        /\ Q!Answered(i, calls[i].arg.task, FALSE)
  <2>1. (IF calls[i].arg.op = "execute" THEN "EXECUTING" ELSE "RESTORING") \in Q!Busy
    BY DEF Q!Busy
  <2> QED
    BY <2>1, SqlConsole DEF Q!OperationTimesOut
<1>2. DOMAIN world' = DOMAIN world /\ world' \in [DOMAIN world -> Q!Statuses]
  BY <1>1 DEF DepsPageInv, DepsShape, Q!Statuses
<1> QED
  BY <1>1, <1>2, OperationFailed

LEMMA TaskRefreshed ==
  ASSUME Q!SqlConstants, DepsPageInv, NEW i \in DOMAIN calls, NEW ok \in BOOLEAN,
         Q!refreshCurrentTask(i, ok)
  PROVE  DepsPageInv'
<1> DEFINE o == calls[i].arg
<1>1. calls[i].op = "refresh" /\ UNCHANGED <<page, world>>
  BY SqlConsole DEF Q!refreshCurrentTask, Q!Answer
<1>2. /\ o \in RefreshType /\ o.task \in DOMAIN world /\ world[o.task] \in Q!Statuses
      /\ o.status \in Q!Statuses
  <2>1. Flying("refresh", o, calls)
    BY <1>1 DEF Flying
  <2>2. o \in RefreshType
    BY <2>1 DEF DepsPageInv, DepsCalls
  <2> QED
    BY <2>2 DEF DepsPageInv, DepsShape, RefreshType
<1>3. CASE ok
  <2>1. PICK s \in {o.status, world[o.task]} :
          /\ Reply(i, <<Call("tasks", o.op)>>)
          /\ view' = [[view EXCEPT !.current = o.task, !.status = s,
                                   !.calm = @ /\ s = world[o.task] /\ o.task = view.current]
                        EXCEPT !.loading = TRUE]
    BY <1>3, SqlConsole DEF Q!refreshCurrentTask, Q!loadTasks
  <2>2. PICK b \in BOOLEAN : b = (view.calm /\ s = world[o.task] /\ o.task = view.current)
    BY DEF DepsPageInv, DepsShape
  <2>3. view' = [[view EXCEPT !.current = o.task, !.status = s, !.calm = b]
                   EXCEPT !.loading = TRUE]
    BY <2>1, <2>2
  <2>4. /\ DOMAIN view' = DOMAIN view /\ view'.loading = TRUE /\ view'.current = o.task
        /\ view'.status = s /\ view'.plan = view.plan /\ view'.calm = b
        /\ view'.doing = view.doing
    BY <2>3 DEF DepsPageInv, DepsShape
  <2>5. /\ AreCalls(calls) /\ AreCalls(calls') /\ InFlight({"tasks"})'
        /\ \A op : op # "refresh" /\ op # "tasks" => LeftAlone(op)
        /\ \A a : Flying("refresh", a, calls') => Flying("refresh", a, calls)
    BY <1>1, <2>1, ReplyOne, ReplyOneLeaves DEF DepsPageInv, DepsCalls
  <2>6. DepsShape'
    BY <1>1, <1>2, <2>1, <2>2, <2>4 DEF DepsPageInv, DepsShape
  <2>7. DepsCalls'
    <3>1. o.task # None
      BY <1>2 DEF DepsPageInv, DepsShape, Q!SqlConstants
    <3> QED
      BY <1>1, <2>4, <2>5, <3>1, DepsCallsKept DEF DepsPageInv, LeftAlone
  <2>8. DepsBusy'
    <3>1. \A op \in view.doing : UnderWay(op, calls')
      BY <1>1, <2>1, <2>5, UnderWayMoved DEF DepsPageInv, DepsBusy
    <3> QED
      BY <2>4, <2>5, <3>1 DEF DepsBusy
  <2>9. StatusKnown'
    BY <1>1, <2>2, <2>4 DEF DepsPageInv, StatusKnown
  <2> QED
    BY <1>1, <2>6, <2>7, <2>8, <2>9 DEF DepsPageInv
<1>4. CASE ~ok
  <2>1. view' = [view EXCEPT !.doing = @ \ {o.op}, !.calm = FALSE] /\ Reply(i, <<>>)
    BY <1>4, SqlConsole DEF Q!refreshCurrentTask
  <2>2. /\ DOMAIN view' = DOMAIN view /\ view'.loading = view.loading
        /\ view'.current = view.current /\ view'.status = view.status
        /\ view'.plan = view.plan /\ view'.calm = FALSE
        /\ view'.doing = view.doing \ {o.op}
    BY <2>1 DEF DepsPageInv, DepsShape
  <2>3. /\ AreCalls(calls) /\ AreCalls(calls') /\ \A op : op # "refresh" => LeftAlone(op)
        /\ \A a : Flying("refresh", a, calls') => Flying("refresh", a, calls)
    BY <1>1, <2>1, ReplyNone, ReplyNoneLeaves DEF DepsPageInv, DepsCalls
  <2>4. DepsShape' /\ StatusKnown'
    BY <1>1, <2>2 DEF DepsPageInv, DepsShape, StatusKnown
  <2>5. DepsCalls'
    BY <1>1, <2>2, <2>3, DepsCallsKept DEF DepsPageInv, LeftAlone
  <2>6. DepsBusy'
    <3>1. \A op \in view'.doing : UnderWay(op, calls) /\ o.op # op
      BY <2>2 DEF DepsPageInv, DepsBusy
    <3>2. \A op \in view'.doing : UnderWay(op, calls')
      BY <1>1, <2>1, <2>3, <3>1, NoCall, UnderWayKept
    <3> QED
      BY <2>2, <2>3, <3>2, FlightFlies DEF DepsPageInv, DepsBusy, LeftAlone
  <2> QED
    BY <1>1, <2>4, <2>5, <2>6 DEF DepsPageInv
<1> QED
  BY <1>3, <1>4

(* The instance *)

LEMMA InstanceMounted ==
  ASSUME Q!EnterInstance PROVE InstancePageInv'
<1>1. Mount("Instance", [loading |-> TRUE], None, <<Call("instance", None)>>)
  BY SqlConsole DEF Q!EnterInstance
<1>2. /\ AreCalls(calls') /\ page' = "Instance" /\ view' = [loading |-> TRUE]
      /\ InFlight({"instance"})'
  BY <1>1, MountOne DEF Mount
<1> QED
  BY <1>2 DEF InstancePageInv

LEMMA InstanceAsked ==
  ASSUME InstancePageInv, Q!loadInstance \/ \E i \in DOMAIN calls : Q!InstanceArrives(i)
  PROVE  InstancePageInv'
<1>1. CASE Q!loadInstance
  <2>1. /\ Send(<<Call("instance", None)>>) /\ page' = page
        /\ view' = [view EXCEPT !.loading = TRUE]
    BY <1>1, SqlConsole DEF Q!loadInstance, Q!Load, Q!User
  <2>2. AreCalls(calls') /\ InFlight({"instance"})'
    BY <2>1, SendOne DEF InstancePageInv
  <2> QED
    BY <2>1, <2>2 DEF InstancePageInv
<1>2. CASE \E i \in DOMAIN calls : Q!InstanceArrives(i)
  <2>1. PICK i \in DOMAIN calls : Q!InstanceArrives(i)
    BY <1>2
  <2>2. Reply(i, <<>>) /\ page' = page /\ view' = [view EXCEPT !.loading = FALSE]
    BY <2>1, SqlConsole DEF Q!InstanceArrives, Q!Answer
  <2>3. AreCalls(calls')
    BY <2>2, ReplyNone DEF InstancePageInv
  <2> QED
    BY <2>2, <2>3 DEF InstancePageInv
<1> QED
  BY <1>1, <1>2

-----------------------------------------------------------------------------
(* The files of a selection *)

\* The sequences of a sequence put end to end, as the recursion of FlattenSeq does it.
LEMMA Flattened ==
  ASSUME NEW S, NEW ss \in Seq(Seq(S)) PROVE Q!FlattenSeq(ss) \in Seq(S)
<1> DEFINE N == Len(ss)
           Step(f, k) == IF k = 1 THEN ss[k] ELSE f[k - 1] \o ss[k]
           E(f) == f = [k \in 1 .. N |-> IF k = 1 THEN ss[k] ELSE f[k - 1] \o ss[k]]
           flat == CHOOSE f : E(f)
           Made(m) == \E f \in [1 .. m -> Seq(S)] : \A k \in 1 .. m : f[k] = Step(f, k)
<1>0. /\ N \in Nat /\ DOMAIN ss = 1 .. N /\ N = Len(ss) /\ \A k \in 1 .. N : ss[k] \in Seq(S)
      /\ N # 0 => N \in 1 .. N
  OBVIOUS
<1> HIDE DEF N
<1>1. \A m \in 0 .. N : Made(m)
  <2> DEFINE Unmade == {m \in 0 .. N : ~Made(m)}
  <2> SUFFICES ASSUME Unmade # {} PROVE FALSE
    OBVIOUS
  <2>1. PICK m \in Unmade : \A j \in Unmade : ~(j < m)
    <3>1. Unmade \subseteq Nat
      BY <1>0
    <3> HIDE DEF Unmade
    <3> QED
      BY <3>1, LeastNumber
  <2>2. m \in 0 .. N /\ ~Made(m)
    OBVIOUS
  <2>3. CASE m = 0
    <3>1. 1 .. 0 = {} /\ [k \in 1 .. 0 |-> <<>>] \in [1 .. 0 -> Seq(S)]
      OBVIOUS
    <3> QED
      BY <2>2, <2>3, <3>1
  <2>4. CASE m # 0
    <3>1. m - 1 \in 0 .. N /\ m - 1 < m /\ m \in 1 .. N /\ m \in Nat
      BY <1>0, <2>2, <2>4
    <3>2. Made(m - 1)
      BY <2>1, <3>1
    <3>3. PICK g \in [1 .. (m - 1) -> Seq(S)] : \A k \in 1 .. (m - 1) : g[k] = Step(g, k)
      BY <3>2
    <3> DEFINE new == Step(g, m)
               f == [k \in 1 .. m |-> IF k < m THEN g[k] ELSE new]
    <3>4. new \in Seq(S)
      <4>1. CASE m = 1
        BY <1>0, <3>1, <4>1
      <4>2. CASE m # 1
        <5>1. m - 1 \in 1 .. (m - 1)
          BY <3>1, <4>2
        <5>2. g[m - 1] \in Seq(S) /\ ss[m] \in Seq(S)
          BY <1>0, <3>1, <3>3, <5>1
        <5> QED
          BY <4>2, <5>2
      <4> QED
        BY <4>1, <4>2
    <3>5. new = Step(g, m)
      OBVIOUS
    <3> HIDE DEF new
    <3>6. f \in [1 .. m -> Seq(S)] /\ f[m] = new /\ \A k \in 1 .. (m - 1) : f[k] = g[k]
      BY <3>1, <3>3, <3>4
    <3> HIDE DEF f
    <3>7. \A k \in 1 .. m : f[k] = Step(f, k)
      <4> TAKE k \in 1 .. m
      <4>1. k # 1 => k - 1 \in 1 .. (m - 1)
        BY <3>1
      <4>2. CASE k = m
        BY <3>5, <3>6, <4>1, <4>2
      <4>3. CASE k # m
        <5>1. k \in 1 .. (m - 1)
          BY <3>1, <4>3
        <5> QED
          BY <3>3, <3>6, <4>1, <5>1
      <4> QED
        BY <4>2, <4>3
    <3> QED
      BY <2>2, <3>6, <3>7
  <2> QED
    BY <2>3, <2>4
<1>2. \E f : E(f)
  <2>1. N \in 0 .. N
    BY <1>0
  <2>2. PICK f \in [1 .. N -> Seq(S)] : \A k \in 1 .. N : f[k] = Step(f, k)
    BY <1>1, <2>1
  <2>3. E(f)
    BY <2>2
  <2> QED
    BY <2>3
<1>3. E(flat)
  BY <1>2
<1>4. Q!FlattenSeq(ss) = IF N = 0 THEN ss ELSE flat[N]
  BY DEF Q!FlattenSeq, N
<1> HIDE DEF flat
<1>5. \A k \in 1 .. N : flat[k] = Step(flat, k)
  BY <1>3
<1> HIDE DEF E, Made
<1>6. \A m \in 1 .. N : flat[m] \in Seq(S)
  <2> DEFINE Unmade == {m \in 1 .. N : flat[m] \notin Seq(S)}
  <2> SUFFICES ASSUME Unmade # {} PROVE FALSE
    OBVIOUS
  <2>1. PICK m \in Unmade : \A j \in Unmade : ~(j < m)
    <3>1. Unmade \subseteq Nat
      BY <1>0
    <3> HIDE DEF Unmade
    <3> QED
      BY <3>1, LeastNumber
  <2>2. m \in 1 .. N /\ flat[m] \notin Seq(S)
    OBVIOUS
  <2>3. m # 1 => m - 1 \in 1 .. N /\ m - 1 < m
    BY <1>0, <2>2
  <2>4. m # 1 => flat[m - 1] \in Seq(S)
    BY <2>1, <2>3
  <2>5. flat[m] = (IF m = 1 THEN ss[m] ELSE flat[m - 1] \o ss[m]) /\ ss[m] \in Seq(S)
    BY <1>0, <1>5, <2>2
  <2>6. CASE m = 1
    BY <2>2, <2>5, <2>6
  <2>7. CASE m # 1
    <3>1. flat[m - 1] \o ss[m] \in Seq(S)
      BY <2>4, <2>5, <2>7
    <3> QED
      BY <2>2, <2>5, <2>7, <3>1
  <2> QED
    BY <2>6, <2>7
<1> QED
  <2>1. CASE N = 0
    <3>1. ss = <<>>
      BY <1>0, <2>1 DEF N
    <3> QED
      BY <1>4, <2>1, <3>1
  <2> QED
    BY <1>0, <1>4, <1>6, <2>1

-----------------------------------------------------------------------------
(* The handlers of the execution of change files *)

SameForm ==
  /\ DOMAIN view' = DOMAIN view
  /\ view'.form = view.form /\ view'.picked = view.picked /\ view'.current = view.current
  /\ view'.batch = view.batch /\ view'.force = view.force

SameFlags ==
  /\ view'.parsing = view.parsing /\ view'.executing = view.executing
  /\ view'.importing = view.importing /\ view'.covered = view.covered

SameBoxes ==
  /\ view'.boxes = view.boxes /\ view'.whitelist = view.whitelist /\ view'.calm = view.calm

\* A call the page may send.
FitsSql(o, a) ==
  /\ o \in {"parse", "statements"} => a \in Files
  /\ o = "execute" => a \in RunArgs /\ Confirmed(a)
  /\ o = "open" => a.file \in Files \cup {None}
  /\ o = "putWhitelist" /\ view.calm => a.early \/ a.list # "empty"

OthersFly(x) == \A o, a : o # x /\ Flying(o, a, calls) => Flying(o, a, calls')
NewFits == \A o, a : Flying(o, a, calls') => Flying(o, a, calls) \/ FitsSql(o, a)

\* How a flag may be raised, but for the answer to a call of kind x.
ParsingKept(x) ==
  view'.parsing => \/ view.parsing /\ x \notin {"parse", "parseBatch"}
                   \/ InFlight({"parse"})' \/ InFlight({"parseBatch"})'
                   \/ EndsIn("parsing", calls')
ExecutingKept(x) ==
  view'.executing => \/ /\ view.executing /\ x \notin {"statements", "execute"}
                        /\ Confirming(view.boxes) => Confirming(view'.boxes)
                     \/ InFlight({"statements"})' \/ InFlight({"execute"})'
                     \/ EndsIn("executing", calls') \/ Confirming(view'.boxes)
ImportingKept(x) ==
  view'.importing => \/ view.importing /\ x # "import"
                     \/ InFlight({"import"})' \/ EndsIn("importing", calls')
SavingKept(x) ==
  view'.whitelist.saving => \/ view.whitelist.saving /\ x # "putWhitelist"
                            \/ InFlight({"putWhitelist"})'
CoveredKept == \A list \in view'.covered : list \in view.covered \/ Brings(list, calls')
WhitelistKept(x) ==
  view'.calm => /\ view.calm
                /\ \/ view'.whitelist.enabled # "empty"
                   \/ view'.whitelist.enabled = view.whitelist.enabled /\ x # "whitelist"

LEMMA SqlStep ==
  ASSUME SqlPageInv, NEW x, x # "lists", page' = page, AreCalls(calls'), OthersFly(x), NewFits,
         SqlShape', BoxedSoFar(view'.boxes, view'.force), CoveredKept, ParsingKept(x),
         ExecutingKept(x), ImportingKept(x), SavingKept(x), WhitelistKept(x)
  PROVE  SqlPageInv'
<1>1. /\ \A flag : EndsIn(flag, calls) => EndsIn(flag, calls')
      /\ \A list : Brings(list, calls) => Brings(list, calls')
  BY DEF EndsIn, Brings, OthersFly
<1>2. \A o : o # x /\ InFlight({o}) => InFlight({o})'
  BY FlightFlies DEF OthersFly
<1>3. SqlCalls'
  BY DEF SqlPageInv, SqlCalls, NewFits, FitsSql
<1>4. SqlBusy'
  <2>1. \A list \in view'.covered : Brings(list, calls')
    BY <1>1 DEF CoveredKept, SqlPageInv, SqlBusy
  <2>2. view'.parsing => InFlight({"parse"})' \/ InFlight({"parseBatch"})'
                         \/ EndsIn("parsing", calls')
    BY <1>1, <1>2 DEF ParsingKept, SqlPageInv, SqlBusy
  <2>3. view'.executing => \/ InFlight({"statements"})' \/ InFlight({"execute"})'
                           \/ EndsIn("executing", calls') \/ Confirming(view'.boxes)
    BY <1>1, <1>2 DEF ExecutingKept, SqlPageInv, SqlBusy
  <2>4. view'.importing => InFlight({"import"})' \/ EndsIn("importing", calls')
    BY <1>1, <1>2 DEF ImportingKept, SqlPageInv, SqlBusy
  <2>5. view'.whitelist.saving => InFlight({"putWhitelist"})'
    BY <1>2 DEF SavingKept, SqlPageInv, SqlBusy
  <2> QED
    BY <2>1, <2>2, <2>3, <2>4, <2>5 DEF SqlBusy
<1>5. RunsConfirmed'
  BY DEF SqlPageInv, RunsConfirmed, NewFits, FitsSql
<1>6. WhitelistKnown'
  <2>1. view'.calm => view'.whitelist.enabled # "empty" \/ InFlight({"whitelist"})'
    BY <1>2 DEF WhitelistKept, SqlPageInv, WhitelistKnown
  <2>2. view'.calm => \A a : Flying("putWhitelist", a, calls') => a.early \/ a.list # "empty"
    BY DEF WhitelistKept, SqlPageInv, WhitelistKnown, NewFits, FitsSql
  <2> QED
    BY <2>1, <2>2 DEF WhitelistKnown
<1> QED
  BY <1>3, <1>4, <1>5, <1>6 DEF SqlPageInv

\* What calls in flight become, in those terms.
LEMMA SqlSends ==
  ASSUME SqlPageInv, NEW op, NEW arg, Send(<<Call(op, arg)>>), FitsSql(op, arg)
  PROVE  /\ AreCalls(calls') /\ NewFits /\ \A x : OthersFly(x)
         /\ InFlight({op})' /\ Flying(op, arg, calls')
  BY SendOne DEF SqlPageInv, SqlCalls, OthersFly, NewFits

LEMMA SqlSendsNone ==
  ASSUME SqlPageInv, Send(<<>>) \/ UNCHANGED calls
  PROVE  AreCalls(calls') /\ NewFits /\ \A x : OthersFly(x)
<1>1. CASE Send(<<>>)
  BY <1>1, SendNone DEF SqlPageInv, SqlCalls, OthersFly, NewFits
<1>2. CASE UNCHANGED calls
  BY <1>2 DEF SqlPageInv, SqlCalls, OthersFly, NewFits
<1> QED
  BY <1>1, <1>2

LEMMA SqlReplies ==
  ASSUME SqlPageInv, NEW i \in DOMAIN calls, NEW op, NEW arg, Reply(i, <<Call(op, arg)>>),
         FitsSql(op, arg)
  PROVE  AreCalls(calls') /\ OthersFly(calls[i].op) /\ NewFits /\ Flying(op, arg, calls')
<1>1. AreCalls(calls) /\ AreCalls(<<Call(op, arg)>>) /\ Flying(op, arg, <<Call(op, arg)>>)
  BY OneCall DEF SqlPageInv, SqlCalls
<1>2. OthersFly(calls[i].op)
  BY <1>1, ReplyKeeps DEF OthersFly
<1>3. Flying(op, arg, calls')
  BY <1>1, ReplyTakes
<1> QED
  BY <1>1, <1>2, <1>3, ReplyOne DEF NewFits

LEMMA SqlRepliesNone ==
  ASSUME SqlPageInv, NEW i \in DOMAIN calls, Reply(i, <<>>)
  PROVE  AreCalls(calls') /\ OthersFly(calls[i].op) /\ NewFits
<1>1. AreCalls(calls)
  BY DEF SqlPageInv, SqlCalls
<1>2. OthersFly(calls[i].op)
  BY <1>1, NoCall, ReplyKeeps DEF OthersFly
<1> QED
  BY <1>1, <1>2, ReplyNone DEF NewFits

LEMMA SqlMounted ==
  ASSUME Q!EnterSql PROVE SqlPageInv'
<1> DEFINE all == [of |-> {"todo", "done", "batches"}, ends |-> None]
<1>1. /\ Mount("Sql", view', None, <<Call("lists", all), Call("whitelist", None)>>)
      /\ view' = [form |-> None, picked |-> 0, current |-> None, batch |-> FALSE,
                  force |-> FALSE, parsing |-> FALSE, executing |-> FALSE,
                  importing |-> FALSE, covered |-> {"todo", "done"}, boxes |-> <<>>,
                  whitelist |-> [shown |-> FALSE, saving |-> FALSE, enabled |-> "empty"],
                  calm |-> TRUE]
  <2> DEFINE refs == [form |-> None, picked |-> 0, current |-> None, batch |-> FALSE,
                force |-> FALSE, parsing |-> FALSE, executing |-> FALSE,
                importing |-> FALSE, covered |-> {"todo", "done"}, boxes |-> <<>>,
                whitelist |-> [shown |-> FALSE, saving |-> FALSE, enabled |-> "empty"],
                calm |-> TRUE]
  <2>1. Q!Mount("Sql", refs, None, <<Q!Call("lists", all), Q!Call("whitelist", None)>>)
    BY DEF Q!EnterSql
  <2> HIDE DEF all, refs
  <2>2. /\ Mount("Sql", refs, None, <<Call("lists", all), Call("whitelist", None)>>)
        /\ view' = refs
    BY <2>1, SqlConsole DEF Mount
  <2> QED
    BY <2>2 DEF refs
<1>2. all.of = {"todo", "done", "batches"}
  OBVIOUS
<1> HIDE DEF all
<1>3. /\ AreCalls(calls') /\ page' = "Sql"
      /\ \A o, a : Flying(o, a, calls') <=> (o = "lists" /\ a = all)
                                            \/ (o = "whitelist" /\ a = None)
  BY <1>1, MountTwo DEF Mount
<1>4. SqlShape'
  BY <1>1 DEF SqlShape, SqlFields, WhitelistType
<1>5. SqlCalls'
  BY <1>3 DEF SqlCalls
<1>6. SqlBusy'
  BY <1>1, <1>2, <1>3 DEF SqlBusy, Brings
<1>7. RunsConfirmed'
  <2>1. view'.boxes = <<>> /\ DOMAIN <<>> = {}
    BY <1>1
  <2>2. \A a : ~Flying("execute", a, calls')
    BY <1>3
  <2> QED
    BY <2>1, <2>2 DEF RunsConfirmed, BoxedSoFar
<1>8. WhitelistKnown'
  <2>1. InFlight({"whitelist"})' /\ \A a : ~Flying("putWhitelist", a, calls')
    BY <1>3, FlightFlies
  <2> QED
    BY <2>1 DEF WhitelistKnown
<1> QED
  BY <1>3, <1>4, <1>5, <1>6, <1>7, <1>8 DEF SqlPageInv

\* The lists that came end what was to end with them.
LEMMA SqlListed ==
  ASSUME SqlPageInv, NEW i \in DOMAIN calls, Q!ListsArrive(i) PROVE SqlPageInv'
<1> DEFINE l == calls[i].arg
<1>1. /\ calls[i].op = "lists" /\ page' = page /\ Reply(i, <<>>)
      /\ view' = [view EXCEPT !.covered = @ \ l.of,
                              !.parsing = @ /\ l.ends # "parsing",
                              !.executing = @ /\ l.ends # "executing",
                              !.importing = @ /\ l.ends # "importing"]
  BY SqlConsole DEF Q!ListsArrive, Q!Answer
<1>2. PICK p \in BOOLEAN, e \in BOOLEAN, m \in BOOLEAN :
        /\ p = (view.parsing /\ l.ends # "parsing")
        /\ e = (view.executing /\ l.ends # "executing")
        /\ m = (view.importing /\ l.ends # "importing")
  BY DEF SqlPageInv, SqlShape
<1>3. view' = [view EXCEPT !.covered = view.covered \ l.of, !.parsing = p, !.executing = e,
                           !.importing = m]
  BY <1>1, <1>2
<1>4. /\ SameForm /\ SameBoxes /\ view'.covered = view.covered \ l.of
      /\ view'.parsing = p /\ view'.executing = e /\ view'.importing = m
  BY <1>3 DEF SqlPageInv, SqlShape, SqlFields, SameForm, SameBoxes
<1>5. AreCalls(calls) /\ AreCalls(calls')
      /\ \A o, a : Flying(o, a, calls') => Flying(o, a, calls)
  BY <1>1, ReplyNone DEF SqlPageInv, SqlCalls
<1>6. \A o, a : Flying(o, a, calls) /\ (o # "lists" \/ a # l) => Flying(o, a, calls')
  BY <1>1, <1>5, NoCall, ReplyKeeps
<1> HIDE DEF l
<1>7. SqlShape'
  BY <1>2, <1>4 DEF SqlPageInv, SqlShape, SameForm, SameBoxes
<1>8. SqlCalls' /\ RunsConfirmed'
  BY <1>4, <1>5 DEF SqlPageInv, SqlCalls, RunsConfirmed, SameForm, SameBoxes
<1>9. \A o : o # "lists" /\ InFlight({o}) => InFlight({o})'
  BY <1>6, FlightFlies
<1>10. SqlBusy'
  <2>1. \A list \in view'.covered : Brings(list, calls')
    BY <1>4, <1>6 DEF SqlPageInv, SqlBusy, Brings
  <2>2. \A flag : flag # l.ends /\ EndsIn(flag, calls) => EndsIn(flag, calls')
    BY <1>6 DEF EndsIn
  <2>3. p => InFlight({"parse"})' \/ InFlight({"parseBatch"})' \/ EndsIn("parsing", calls')
    BY <1>2, <1>9, <2>2 DEF SqlPageInv, SqlBusy
  <2>4. e => \/ InFlight({"statements"})' \/ InFlight({"execute"})'
             \/ EndsIn("executing", calls') \/ Confirming(view.boxes)
    BY <1>2, <1>9, <2>2 DEF SqlPageInv, SqlBusy
  <2>5. m => InFlight({"import"})' \/ EndsIn("importing", calls')
    BY <1>2, <1>9, <2>2 DEF SqlPageInv, SqlBusy
  <2>6. view.whitelist.saving => InFlight({"putWhitelist"})'
    BY <1>9 DEF SqlPageInv, SqlBusy
  <2> QED
    BY <1>4, <2>1, <2>3, <2>4, <2>5, <2>6 DEF SqlBusy, SameBoxes
<1>11. WhitelistKnown'
  BY <1>4, <1>5, <1>9 DEF SqlPageInv, WhitelistKnown, SameBoxes
<1> QED
  BY <1>1, <1>7, <1>8, <1>10, <1>11 DEF SqlPageInv

\* Steps that raise no flag, but for that of a list asked for.
LEMMA SqlQuiet ==
  ASSUME SqlPageInv, NEW x, page' = page, AreCalls(calls'), OthersFly(x), NewFits, SqlShape',
         x \notin {"lists", "parse", "parseBatch", "statements", "execute", "import",
                   "whitelist", "putWhitelist"},
         CoveredKept, view'.parsing => view.parsing, view'.executing => view.executing,
         view'.importing => view.importing, SameBoxes,
         view'.force = view.force \/ view.boxes = <<>>
  PROVE  SqlPageInv'
<1>1. ParsingKept(x) /\ ExecutingKept(x) /\ ImportingKept(x) /\ SavingKept(x)
  BY DEF ParsingKept, ExecutingKept, ImportingKept, SavingKept, SameBoxes
<1>2. WhitelistKept(x)
  BY DEF WhitelistKept, SameBoxes
<1>3. BoxedSoFar(view'.boxes, view'.force)
  <2>1. CASE view'.force = view.force
    BY <2>1 DEF SqlPageInv, RunsConfirmed, SameBoxes
  <2>2. CASE view.boxes = <<>>
    BY <2>2 DEF BoxedSoFar, SameBoxes
  <2> QED
    BY <2>1, <2>2
<1> QED
  BY <1>1, <1>2, <1>3, SqlStep

\* A list that is covered was asked for, with the others of its load.
LEMMA ListsAsked ==
  ASSUME NEW of, NEW ends, Flying("lists", [of |-> of, ends |-> ends], calls')
  PROVE  /\ \A list \in of : Brings(list, calls')
         /\ EndsIn(ends, calls')
  BY DEF Brings, EndsIn

LEMMA PageTurned ==
  ASSUME SqlPageInv, NEW list, Q!TurnPage(list) PROVE SqlPageInv'
<1> DEFINE of == {list}
           a == [of |-> of, ends |-> None]
           c == view.covered \cup (of \cap {"todo", "done"})
<1>1. /\ Send(<<Call("lists", a)>>) /\ page' = page /\ view' = [view EXCEPT !.covered = c]
  BY SqlConsole DEF Q!TurnPage, Q!Cover, Q!loadLists, Q!User
<1>2. c \subseteq {"todo", "done"} /\ \A l \in c : l \in view.covered \/ l \in of
  BY DEF SqlPageInv, SqlShape
<1>3. FitsSql("lists", a)
  BY DEF FitsSql
<1>4. CoveredKept /\ AreCalls(calls') /\ NewFits /\ OthersFly("none")
      /\ SameForm /\ SameBoxes /\ SqlShape'
      /\ view'.parsing = view.parsing /\ view'.executing = view.executing
      /\ view'.importing = view.importing
  <2>1. /\ AreCalls(calls') /\ NewFits /\ OthersFly("none") /\ Flying("lists", a, calls')
    <3> HIDE DEF a, c
    <3> QED
      BY <1>1, <1>3, SqlSends
  <2>2. \A l \in of : Brings(l, calls')
    BY <2>1, ListsAsked
  <2> HIDE DEF a, c, of
  <2>3. /\ SameForm /\ SameBoxes /\ view'.covered = c
        /\ view'.parsing = view.parsing /\ view'.executing = view.executing
        /\ view'.importing = view.importing
    BY <1>1 DEF SqlPageInv, SqlShape, SqlFields, SameForm, SameBoxes
  <2>4. SqlShape'
    BY <1>2, <2>3 DEF SqlPageInv, SqlShape, SameForm, SameBoxes
  <2> QED
    BY <1>2, <2>1, <2>2, <2>3, <2>4 DEF CoveredKept
<1> HIDE DEF a, c, of
<1> QED
  BY <1>1, <1>4, SqlQuiet DEF SameForm

\* The form: what is selected, typed, or forced.
LEMMA FormChanged ==
  ASSUME SqlPageInv, UNCHANGED <<page, calls>>, SameFlags, SameBoxes,
         DOMAIN view' = DOMAIN view, view'.form \in Files \cup {None}, view'.picked \in Nat,
         view'.force \in BOOLEAN, view'.current = view.current, view'.batch = view.batch,
         view'.force = view.force \/ view.boxes = <<>>
  PROVE  SqlPageInv'
<1>1. AreCalls(calls') /\ NewFits /\ OthersFly("none")
  BY SqlSendsNone
<1>2. SqlShape'
  BY DEF SqlPageInv, SqlShape, SameFlags, SameBoxes
<1>3. CoveredKept
  BY DEF CoveredKept, SameFlags
<1> QED
  BY <1>1, <1>2, <1>3, SqlQuiet DEF SameFlags

LEMMA FilesRead ==
  ASSUME Q!SqlConstants, NEW files \in Uploads,
         None \notin Range([k \in DOMAIN files |-> Q!readSQLUploadFile(files[k])])
  PROVE  Q!FlattenSeq([k \in DOMAIN files |-> Q!readSQLUploadFile(files[k])])
           \in Seq([name : Files, size : Nat])
<1> DEFINE E == [name : Files, size : Nat]
           read == [k \in DOMAIN files |-> Q!readSQLUploadFile(files[k])]
<1>1. /\ Len(files) \in Nat /\ DOMAIN files = 1 .. Len(files)
      /\ \A k \in DOMAIN files : files[k].entries \in Seq(E)
  <2> DEFINE F == [zip : BOOLEAN, entries : Seq(E)]
  <2>1. files \in Seq(F)
    BY DEF Q!SqlConstants
  <2>2. /\ Len(files) \in Nat /\ DOMAIN files = 1 .. Len(files)
        /\ \A k \in DOMAIN files : files[k] \in F
    <3> HIDE DEF F
    <3> QED
      BY <2>1
  <2> QED
    BY <2>2
<1> HIDE DEF E
<1>2. \A k \in DOMAIN files : read[k] = files[k].entries
  <2> SUFFICES ASSUME NEW k \in DOMAIN files PROVE read[k] = files[k].entries
    OBVIOUS
  <2>1. read[k] = Q!readSQLUploadFile(files[k]) /\ read[k] # None
    BY DEF Range
  <2>2. Q!readSQLUploadFile(files[k]) \in {files[k].entries, None}
    <3> DEFINE fits == \A j \in {1} : files[k].entries[j].size <= MaxSize
               small == /\ files[k].zip /\ Len(files[k].entries) <= MaxEntries
                        /\ Q!TotalSize(files[k].entries) <= MaxSize
                        /\ Cardinality({files[k].entries[j].name :
                                          j \in DOMAIN files[k].entries})
                           = Len(files[k].entries)
    <3>1. Q!readSQLUploadFile(files[k]) =
            CASE ~files[k].zip /\ fits -> files[k].entries
              [] small -> files[k].entries
              [] OTHER -> None
      BY DEF Q!readSQLUploadFile
    <3>5. small => files[k].zip
      OBVIOUS
    <3> HIDE DEF fits, small
    <3>2. CASE ~files[k].zip /\ fits
      BY <3>1, <3>2, <3>5
    <3>3. CASE ~(~files[k].zip /\ fits) /\ small
      BY <3>1, <3>3
    <3>4. CASE ~(~files[k].zip /\ fits) /\ ~small
      BY <3>1, <3>4
    <3> QED
      BY <3>2, <3>3, <3>4
  <2> QED
    BY <2>1, <2>2
<1>3. read \in Seq(Seq(E))
  <2>1. read \in [1 .. Len(files) -> Seq(E)]
    BY <1>1, <1>2
  <2> HIDE DEF read
  <2> QED
    BY <1>1, <2>1
<1> HIDE DEF read
<1>4. Q!FlattenSeq(read) \in Seq(E)
  BY <1>3, Flattened
<1> QED
  BY <1>4 DEF read, E

LEMMA FilesChosen ==
  ASSUME Q!SqlConstants, SqlPageInv, NEW files \in Uploads, Q!handleFileChange(files)
  PROVE  SqlPageInv'
<1> DEFINE read == [k \in DOMAIN files |-> Q!readSQLUploadFile(files[k])]
           all == Q!FlattenSeq(read)
<1>1. /\ UNCHANGED <<page, calls>>
      /\ view' = IF None \in Range(read) \/ all = <<>> THEN view
                 ELSE [view EXCEPT !.picked = Len(all), !.form = all[1].name]
  BY SqlConsole DEF Q!handleFileChange, Q!User
<1>2. None \notin Range(read) => all \in Seq([name : Files, size : Nat])
  BY FilesRead
<1> HIDE DEF read, all
<1>3. CASE None \in Range(read) \/ all = <<>>
  <2>1. view' = view
    BY <1>1, <1>3
  <2> QED
    BY <1>1, <2>1, FormChanged DEF SqlPageInv, SqlShape, SameFlags, SameBoxes
<1>4. CASE ~(None \in Range(read) \/ all = <<>>)
  <2> DEFINE n == Len(all)
             f == all[1].name
  <2>1. n \in Nat /\ f \in Files
    <3> DEFINE E == [name : Files, size : Nat]
    <3>1. all \in Seq(E) /\ all # <<>>
      BY <1>2, <1>4
    <3>2. Len(all) \in Nat /\ all[1] \in E
      <4> HIDE DEF E
      <4> QED
        BY <3>1
    <3> QED
      BY <3>2
  <2>2. view' = [view EXCEPT !.picked = n, !.form = f]
    BY <1>1, <1>4
  <2> HIDE DEF n, f
  <2>3. /\ DOMAIN view' = DOMAIN view /\ view'.form = f /\ view'.picked = n
        /\ view'.current = view.current /\ view'.batch = view.batch
        /\ view'.force = view.force /\ SameFlags /\ SameBoxes
    BY <2>2 DEF SqlPageInv, SqlShape, SqlFields, SameFlags, SameBoxes
  <2> QED
    BY <1>1, <2>1, <2>3, FormChanged DEF SqlPageInv, SqlShape
<1> QED
  BY <1>3, <1>4

LEMMA Typed ==
  ASSUME SqlPageInv, NEW f \in Files, Q!Type(f) PROVE SqlPageInv'
<1>1. UNCHANGED <<page, calls>> /\ view' = [view EXCEPT !.form = f]
  BY DEF Q!Type, Q!User
<1>2. /\ DOMAIN view' = DOMAIN view /\ view'.form = f /\ view'.picked = view.picked
      /\ view'.current = view.current /\ view'.batch = view.batch
      /\ view'.force = view.force /\ SameFlags /\ SameBoxes
  BY <1>1 DEF SqlPageInv, SqlShape, SqlFields, SameFlags, SameBoxes
<1> QED
  BY <1>1, <1>2, FormChanged DEF SqlPageInv, SqlShape

LEMMA ForceToggled ==
  ASSUME SqlPageInv, Q!ToggleForce PROVE SqlPageInv'
<1>1. PICK b \in BOOLEAN : b = ~view.force
  OBVIOUS
<1>2. UNCHANGED <<page, calls>> /\ view' = [view EXCEPT !.force = b] /\ view.boxes = <<>>
  BY <1>1 DEF Q!ToggleForce, Q!User, Q!Free
<1>3. /\ DOMAIN view' = DOMAIN view /\ view'.form = view.form /\ view'.picked = view.picked
      /\ view'.current = view.current /\ view'.batch = view.batch
      /\ view'.force = b /\ SameFlags /\ SameBoxes
  BY <1>2 DEF SqlPageInv, SqlShape, SqlFields, SameFlags, SameBoxes
<1> QED
  BY <1>2, <1>3, FormChanged DEF SqlPageInv, SqlShape

\* What is asked without a spinner.
LEMMA SqlSent ==
  ASSUME SqlPageInv, NEW op, NEW arg, Send(<<Call(op, arg)>>), FitsSql(op, arg),
         UNCHANGED <<page, view>>
  PROVE  SqlPageInv'
<1>1. AreCalls(calls') /\ NewFits /\ OthersFly("none")
  BY SqlSends
<1>2. CoveredKept /\ SameBoxes /\ SqlShape'
  BY DEF SqlPageInv, SqlShape, CoveredKept, SameBoxes
<1> QED
  BY <1>1, <1>2, SqlQuiet

LEMMA SqlOpened ==
  ASSUME SqlPageInv,
         \/ Q!handleCancel \/ Q!handleOpenBatch \/ Q!handleSkipStatement
         \/ \E f \in Files : Q!handleOpen(f)
  PROVE  SqlPageInv'
<1>1. CASE Q!handleCancel
  BY <1>1, SqlConsole, SqlSent DEF Q!handleCancel, Q!User, FitsSql
<1>2. CASE Q!handleOpenBatch
  BY <1>2, SqlConsole, SqlSent DEF Q!handleOpenBatch, Q!User, FitsSql
<1>3. CASE Q!handleSkipStatement
  BY <1>3, SqlConsole, SqlSent DEF Q!handleSkipStatement, Q!User, FitsSql
<1>4. ASSUME NEW f \in Files, Q!handleOpen(f) PROVE SqlPageInv'
  <2> DEFINE a == [file |-> f, reload |-> FALSE]
  <2>1. Send(<<Call("open", a)>>) /\ UNCHANGED <<page, view>>
    BY <1>4, SqlConsole DEF Q!handleOpen, Q!User
  <2>2. FitsSql("open", a)
    BY DEF FitsSql
  <2> HIDE DEF a
  <2> QED
    BY <2>1, <2>2, SqlSent
<1> QED
  BY <1>1, <1>2, <1>3, <1>4

\* A load of lists that follows an answer, with the flag it ends with.
LEMMA ListsFollow ==
  ASSUME SqlPageInv, NEW i \in DOMAIN calls, NEW of, NEW ends,
         Reply(i, <<Call("lists", [of |-> of, ends |-> ends])>>)
  PROVE  /\ AreCalls(calls') /\ OthersFly(calls[i].op) /\ NewFits
         /\ \A list \in of : Brings(list, calls')
         /\ EndsIn(ends, calls')
<1> DEFINE a == [of |-> of, ends |-> ends]
<1>1. FitsSql("lists", a)
  BY DEF FitsSql
<1>2. /\ AreCalls(calls') /\ OthersFly(calls[i].op) /\ NewFits /\ Flying("lists", a, calls')
  <2> HIDE DEF a
  <2>1. Reply(i, <<Call("lists", a)>>)
    BY DEF a
  <2> QED
    BY <1>1, <2>1, SqlReplies
<1> QED
  BY <1>2, ListsAsked

LEMMA SqlReopened ==
  ASSUME SqlPageInv, NEW i \in DOMAIN calls, NEW ok \in BOOLEAN, Q!Opened(i, ok)
  PROVE  SqlPageInv'
<1> DEFINE f == calls[i].arg.file
           of == {"todo", "done"}
           c == view.covered \cup (of \cap {"todo", "done"})
<1>1. calls[i].op = "open" /\ page' = page
  BY SqlConsole DEF Q!Opened, Q!Answer
<1>2. f \in Files \cup {None}
  <2>1. Flying("open", calls[i].arg, calls)
    BY <1>1 DEF Flying
  <2> QED
    BY <2>1 DEF SqlPageInv, SqlCalls
<1>3. CASE ~ok
  <2>1. Reply(i, <<>>) /\ view' = view
    BY <1>3, SqlConsole DEF Q!Opened
  <2>2. AreCalls(calls') /\ OthersFly("open") /\ NewFits
    BY <1>1, <2>1, SqlRepliesNone
  <2>3. CoveredKept /\ SameBoxes /\ SqlShape'
    BY <2>1 DEF SqlPageInv, SqlShape, CoveredKept, SameBoxes
  <2> QED
    BY <1>1, <2>1, <2>2, <2>3, SqlQuiet
<1>4. CASE ok /\ calls[i].arg.reload
  <2>1. /\ Reply(i, <<Call("lists", [of |-> of, ends |-> None])>>)
        /\ view' = [[view EXCEPT !.current = f, !.form = f]
                       EXCEPT !.covered = @ \cup (of \cap {"todo", "done"})]
    BY <1>4, SqlConsole DEF Q!Opened, Q!Cover, Q!loadLists
  <2>2. view' = [[view EXCEPT !.current = f, !.form = f] EXCEPT !.covered = c]
    BY <2>1 DEF SqlPageInv, SqlShape, SqlFields
  <2>3. /\ AreCalls(calls') /\ OthersFly("open") /\ NewFits
        /\ \A list \in of : Brings(list, calls')
    BY <1>1, <2>1, ListsFollow
  <2>4. c \subseteq {"todo", "done"} /\ \A l \in c : l \in view.covered \/ l \in of
    BY DEF SqlPageInv, SqlShape
  <2> HIDE DEF f, of, c
  <2>5. /\ DOMAIN view' = DOMAIN view /\ view'.form = f /\ view'.current = f
        /\ view'.picked = view.picked /\ view'.batch = view.batch
        /\ view'.force = view.force /\ SameBoxes /\ view'.covered = c
        /\ view'.parsing = view.parsing /\ view'.executing = view.executing
        /\ view'.importing = view.importing
    BY <2>2 DEF SqlPageInv, SqlShape, SqlFields, SameBoxes
  <2>6. SqlShape'
    BY <1>2, <2>4, <2>5 DEF SqlPageInv, SqlShape, SameBoxes
  <2>7. CoveredKept
    BY <2>3, <2>4, <2>5 DEF CoveredKept
  <2> QED
    BY <1>1, <2>3, <2>5, <2>6, <2>7, SqlQuiet
<1>5. CASE ok /\ ~calls[i].arg.reload
  <2>1. Reply(i, <<>>) /\ view' = [view EXCEPT !.current = f, !.form = f]
    BY <1>5, SqlConsole DEF Q!Opened
  <2>2. AreCalls(calls') /\ OthersFly("open") /\ NewFits
    BY <1>1, <2>1, SqlRepliesNone
  <2> HIDE DEF f
  <2>3. /\ DOMAIN view' = DOMAIN view /\ view'.form = f /\ view'.current = f
        /\ view'.picked = view.picked /\ view'.batch = view.batch
        /\ view'.force = view.force /\ SameBoxes /\ SameFlags
    BY <2>1 DEF SqlPageInv, SqlShape, SqlFields, SameBoxes, SameFlags
  <2>4. SqlShape' /\ CoveredKept
    BY <1>2, <2>3 DEF SqlPageInv, SqlShape, CoveredKept, SameBoxes, SameFlags
  <2> QED
    BY <1>1, <2>2, <2>3, <2>4, SqlQuiet DEF SameFlags
<1> QED
  BY <1>3, <1>4, <1>5

LEMMA BatchShown ==
  ASSUME SqlPageInv, NEW i \in DOMAIN calls, NEW ok \in BOOLEAN, Q!BatchAnswered(i, ok)
  PROVE  SqlPageInv'
<1>1. /\ calls[i].op \in {"openBatch", "cancel"} /\ page' = page /\ Reply(i, <<>>)
      /\ view' = [view EXCEPT !.batch = @ \/ (ok /\ calls[i].op = "openBatch")]
  BY SqlConsole DEF Q!BatchAnswered, Q!Answer
<1>2. PICK b \in BOOLEAN : b = (view.batch \/ (ok /\ calls[i].op = "openBatch"))
  BY DEF SqlPageInv, SqlShape
<1>3. view' = [view EXCEPT !.batch = b]
  BY <1>1, <1>2
<1>4. /\ DOMAIN view' = DOMAIN view /\ view'.form = view.form /\ view'.current = view.current
      /\ view'.picked = view.picked /\ view'.batch = b
      /\ view'.force = view.force /\ SameBoxes /\ SameFlags
  BY <1>3 DEF SqlPageInv, SqlShape, SqlFields, SameBoxes, SameFlags
<1>5. AreCalls(calls') /\ OthersFly(calls[i].op) /\ NewFits
  BY <1>1, SqlRepliesNone
<1>6. SqlShape' /\ CoveredKept
  BY <1>4 DEF SqlPageInv, SqlShape, CoveredKept, SameBoxes, SameFlags
<1> QED
  BY <1>1, <1>4, <1>5, <1>6, SqlQuiet DEF SameFlags

LEMMA SkippedStatement ==
  ASSUME SqlPageInv, NEW i \in DOMAIN calls, NEW ok \in BOOLEAN, Q!StatementSkipped(i, ok)
  PROVE  SqlPageInv'
<1> DEFINE a == [file |-> view.current, reload |-> TRUE]
<1>1. /\ calls[i].op = "skipStatement" /\ UNCHANGED <<page, view>>
      /\ Reply(i, IF ok THEN <<Call("open", a)>> ELSE <<>>)
  BY SqlConsole DEF Q!StatementSkipped, Q!Answer
<1>2. FitsSql("open", a)
  BY DEF FitsSql, SqlPageInv, SqlShape
<1> HIDE DEF a
<1>3. AreCalls(calls') /\ OthersFly("skipStatement") /\ NewFits
  <2>1. CASE ok
    BY <1>1, <1>2, <2>1, SqlReplies
  <2>2. CASE ~ok
    BY <1>1, <2>2, SqlRepliesNone
  <2> QED
    BY <2>1, <2>2
<1>4. CoveredKept /\ SameBoxes /\ SqlShape'
  BY <1>1 DEF SqlPageInv, SqlShape, CoveredKept, SameBoxes
<1> QED
  BY <1>1, <1>3, <1>4, SqlQuiet

\* The whitelist of forced statements.
LEMMA WhitelistChanged ==
  ASSUME SqlPageInv, NEW x, x \notin {"lists", "parse", "parseBatch", "statements", "execute",
                                      "import"},
         page' = page, AreCalls(calls'), OthersFly(x), NewFits, SameForm, SameFlags,
         view'.boxes = view.boxes, view'.whitelist \in WhitelistType, view'.calm \in BOOLEAN,
         SavingKept(x), WhitelistKept(x)
  PROVE  SqlPageInv'
<1>1. SqlShape'
  BY DEF SqlPageInv, SqlShape, SameForm, SameFlags
<1>2. CoveredKept /\ ParsingKept(x) /\ ExecutingKept(x) /\ ImportingKept(x)
  BY DEF CoveredKept, ParsingKept, ExecutingKept, ImportingKept, SameFlags
<1>3. BoxedSoFar(view'.boxes, view'.force)
  BY DEF SqlPageInv, RunsConfirmed, SameForm
<1> QED
  BY <1>1, <1>2, <1>3, SqlStep

LEMMA WhitelistEdited ==
  ASSUME SqlPageInv, Q!OpenWhitelist \/ Q!EditWhitelist \/ Q!CloseWhitelist
  PROVE  SqlPageInv'
<1>1. PICK w \in WhitelistType :
        /\ view' = [view EXCEPT !.whitelist = w] /\ w.saving = view.whitelist.saving
        /\ w.enabled = view.whitelist.enabled \/ w.enabled = "edited"
        /\ UNCHANGED <<page, calls>>
  <2>1. view.whitelist \in WhitelistType /\ DOMAIN view = SqlFields
    BY DEF SqlPageInv, SqlShape
  <2>2. ASSUME NEW b \in BOOLEAN, view' = [view EXCEPT !.whitelist.shown = b]
        PROVE  view' = [view EXCEPT !.whitelist = [view.whitelist EXCEPT !.shown = b]]
    BY <2>2
  <2>3. view' = [view EXCEPT !.whitelist.enabled = "edited"] =>
          view' = [view EXCEPT !.whitelist = [view.whitelist EXCEPT !.enabled = "edited"]]
    OBVIOUS
  <2>4. ASSUME NEW b \in BOOLEAN
        PROVE  /\ [view.whitelist EXCEPT !.shown = b] \in WhitelistType
               /\ [view.whitelist EXCEPT !.shown = b].saving = view.whitelist.saving
               /\ [view.whitelist EXCEPT !.shown = b].enabled = view.whitelist.enabled
    BY <2>1 DEF WhitelistType
  <2>5. /\ [view.whitelist EXCEPT !.enabled = "edited"] \in WhitelistType
        /\ [view.whitelist EXCEPT !.enabled = "edited"].saving = view.whitelist.saving
        /\ [view.whitelist EXCEPT !.enabled = "edited"].enabled = "edited"
    BY <2>1 DEF WhitelistType
  <2>6. CASE Q!OpenWhitelist
    BY <2>2, <2>4, <2>6 DEF Q!OpenWhitelist, Q!User
  <2>7. CASE Q!EditWhitelist
    BY <2>3, <2>5, <2>7 DEF Q!EditWhitelist, Q!User
  <2>8. CASE Q!CloseWhitelist
    BY <2>2, <2>4, <2>8 DEF Q!CloseWhitelist, Q!User
  <2> QED
    BY <2>6, <2>7, <2>8
<1>2. /\ SameForm /\ SameFlags /\ view'.boxes = view.boxes /\ view'.whitelist = w
      /\ view'.calm = view.calm
  BY <1>1 DEF SqlPageInv, SqlShape, SqlFields, SameForm, SameFlags
<1>3. AreCalls(calls') /\ NewFits /\ OthersFly("none")
  BY <1>1, SqlSendsNone
<1>4. SavingKept("none")
  BY <1>1, <1>2 DEF SavingKept
<1>5. WhitelistKept("none") /\ view'.calm \in BOOLEAN
  BY <1>1, <1>2 DEF WhitelistKept, SqlPageInv, SqlShape
<1> QED
  BY <1>1, <1>2, <1>3, <1>4, <1>5, WhitelistChanged

LEMMA WhitelistShown ==
  ASSUME SqlPageInv, NEW i \in DOMAIN calls, NEW ok \in BOOLEAN, Q!WhitelistArrives(i, ok)
  PROVE  SqlPageInv'
<1> DEFINE w == [view.whitelist EXCEPT !.enabled = "server"]
<1>1. /\ calls[i].op = "whitelist" /\ page' = page /\ Reply(i, <<>>)
      /\ view' = IF ok THEN [view EXCEPT !.whitelist.enabled = "server"]
                 ELSE [view EXCEPT !.calm = FALSE]
  BY SqlConsole DEF Q!WhitelistArrives, Q!Answer
<1>2. /\ w \in WhitelistType /\ w.saving = view.whitelist.saving /\ w.enabled = "server"
      /\ view.whitelist \in WhitelistType /\ view.calm \in BOOLEAN
  BY DEF SqlPageInv, SqlShape, WhitelistType
<1>3. CASE ok
  <2>1. view' = [view EXCEPT !.whitelist = w]
    BY <1>1, <1>3 DEF SqlPageInv, SqlShape
  <2> HIDE DEF w
  <2>2. /\ SameForm /\ SameFlags /\ view'.boxes = view.boxes /\ view'.whitelist = w
        /\ view'.calm = view.calm
    BY <2>1 DEF SqlPageInv, SqlShape, SqlFields, SameForm, SameFlags
  <2>3. AreCalls(calls') /\ NewFits /\ OthersFly("whitelist")
    BY <1>1, SqlRepliesNone
  <2>4. SavingKept("whitelist")
    BY <1>2, <2>2 DEF SavingKept
  <2>5. WhitelistKept("whitelist")
    BY <1>2, <2>2 DEF WhitelistKept
  <2> QED
    BY <1>1, <1>2, <2>2, <2>3, <2>4, <2>5, WhitelistChanged
<1>4. CASE ~ok
  <2>1. view' = [view EXCEPT !.calm = FALSE]
    BY <1>1, <1>4
  <2>2. /\ SameForm /\ SameFlags /\ view'.boxes = view.boxes
        /\ view'.whitelist = view.whitelist /\ view'.calm = FALSE
    BY <2>1 DEF SqlPageInv, SqlShape, SqlFields, SameForm, SameFlags
  <2>3. AreCalls(calls') /\ NewFits /\ OthersFly("whitelist")
    BY <1>1, SqlRepliesNone
  <2>4. SavingKept("whitelist") /\ WhitelistKept("whitelist")
    BY <2>2 DEF SavingKept, WhitelistKept
  <2> QED
    BY <1>1, <1>2, <2>2, <2>3, <2>4, WhitelistChanged
<1> QED
  BY <1>3, <1>4

\* The list that is saved came from the server, or is on its way still.
LEMMA WhitelistSent ==
  ASSUME SqlPageInv, Q!handleSaveSQLForceWhitelist PROVE SqlPageInv'
<1> DEFINE w == [view.whitelist EXCEPT !.saving = TRUE]
           a == [list |-> view.whitelist.enabled, early |-> InFlight({"whitelist"})]
<1>1. /\ page' = page /\ Send(<<Call("putWhitelist", a)>>)
      /\ view' = [view EXCEPT !.whitelist.saving = TRUE]
  <2>1. Q!InFlight({"whitelist"}) = InFlight({"whitelist"})
    BY DEF Q!InFlight, InFlight
  <2> QED
    BY <2>1, SqlConsole DEF Q!handleSaveSQLForceWhitelist, Q!User
<1>2. /\ w \in WhitelistType /\ w.enabled = view.whitelist.enabled
      /\ view' = [view EXCEPT !.whitelist = w] /\ view.calm \in BOOLEAN
  BY <1>1 DEF SqlPageInv, SqlShape, WhitelistType
<1>3. FitsSql("putWhitelist", a)
  BY DEF FitsSql, SqlPageInv, WhitelistKnown
<1> HIDE DEF a, w
<1>4. /\ SameForm /\ SameFlags /\ view'.boxes = view.boxes /\ view'.whitelist = w
      /\ view'.calm = view.calm
  BY <1>2 DEF SqlPageInv, SqlShape, SqlFields, SameForm, SameFlags
<1>5. AreCalls(calls') /\ NewFits /\ OthersFly("none") /\ InFlight({"putWhitelist"})'
  BY <1>1, <1>3, SqlSends
<1>6. SavingKept("none") /\ WhitelistKept("none")
  BY <1>2, <1>4, <1>5 DEF SavingKept, WhitelistKept
<1> QED
  BY <1>1, <1>2, <1>4, <1>5, <1>6, WhitelistChanged

LEMMA SavedWhitelist ==
  ASSUME SqlPageInv, NEW i \in DOMAIN calls, NEW ok \in BOOLEAN, Q!WhitelistSaved(i, ok)
  PROVE  SqlPageInv'
<1> DEFINE w == IF ok THEN [shown |-> FALSE, saving |-> FALSE, enabled |-> "server"]
                ELSE [view.whitelist EXCEPT !.saving = FALSE]
<1>1. /\ calls[i].op = "putWhitelist" /\ page' = page /\ Reply(i, <<>>)
      /\ view' = [view EXCEPT !.whitelist = w]
  BY SqlConsole DEF Q!WhitelistSaved, Q!Answer, SqlPageInv, SqlShape
<1>2. /\ w \in WhitelistType /\ w.saving = FALSE /\ view.calm \in BOOLEAN
      /\ w.enabled = "server" \/ w.enabled = view.whitelist.enabled
  BY DEF SqlPageInv, SqlShape, WhitelistType
<1> HIDE DEF w
<1>3. /\ SameForm /\ SameFlags /\ view'.boxes = view.boxes /\ view'.whitelist = w
      /\ view'.calm = view.calm
  BY <1>1 DEF SqlPageInv, SqlShape, SqlFields, SameForm, SameFlags
<1>4. AreCalls(calls') /\ NewFits /\ OthersFly("putWhitelist")
  BY <1>1, SqlRepliesNone
<1>5. SavingKept("putWhitelist") /\ WhitelistKept("putWhitelist")
  BY <1>2, <1>3 DEF SavingKept, WhitelistKept
<1> QED
  BY <1>1, <1>2, <1>3, <1>4, <1>5, WhitelistChanged

\* The parsing of what is in the editor, or of the files picked.
LEMMA ParsingStep ==
  ASSUME SqlPageInv, NEW x, x \notin {"lists", "statements", "execute", "import",
                                      "whitelist", "putWhitelist"},
         page' = page, AreCalls(calls'), OthersFly(x), NewFits, SqlShape', SameBoxes,
         CoveredKept, ParsingKept(x), view'.executing = view.executing,
         view'.importing = view.importing, view'.force = view.force
  PROVE  SqlPageInv'
<1>1. ExecutingKept(x) /\ ImportingKept(x) /\ SavingKept(x) /\ WhitelistKept(x)
  BY DEF ExecutingKept, ImportingKept, SavingKept, WhitelistKept, SameBoxes
<1>2. BoxedSoFar(view'.boxes, view'.force)
  BY DEF SqlPageInv, RunsConfirmed, SameBoxes
<1> QED
  BY <1>1, <1>2, SqlStep

LEMMA ParseAsked ==
  ASSUME Q!SqlConstants, SqlPageInv, Q!handleParse PROVE SqlPageInv'
<1>1. /\ page' = page /\ view' = [view EXCEPT !.parsing = TRUE]
      /\ Send(<<IF view.picked > 1 THEN Call("parseBatch", None) ELSE Call("parse", view.form)>>)
      /\ view.picked > 1 \/ view.form # None
  BY SqlConsole DEF Q!handleParse, Q!User
<1>2. /\ SameForm /\ SameBoxes /\ view'.parsing = TRUE /\ view'.covered = view.covered
      /\ view'.executing = view.executing /\ view'.importing = view.importing
  BY <1>1 DEF SqlPageInv, SqlShape, SqlFields, SameForm, SameBoxes
<1>3. /\ AreCalls(calls') /\ NewFits /\ OthersFly("none")
      /\ InFlight({"parse"})' \/ InFlight({"parseBatch"})'
  <2>1. CASE view.picked > 1
    <3>1. Send(<<Call("parseBatch", None)>>) /\ FitsSql("parseBatch", None)
      BY <1>1, <2>1 DEF FitsSql
    <3> QED
      BY <3>1, SqlSends
  <2>2. CASE ~(view.picked > 1)
    <3>1. Send(<<Call("parse", view.form)>>) /\ FitsSql("parse", view.form)
      BY <1>1, <2>2 DEF FitsSql, SqlPageInv, SqlShape
    <3> QED
      BY <3>1, SqlSends
  <2> QED
    BY <2>1, <2>2
<1>4. SqlShape' /\ CoveredKept /\ ParsingKept("none")
  BY <1>2, <1>3 DEF SqlPageInv, SqlShape, SameForm, SameBoxes, CoveredKept, ParsingKept
<1> QED
  BY <1>1, <1>2, <1>3, <1>4, ParsingStep DEF SameForm

LEMMA ParseShown ==
  ASSUME SqlPageInv, NEW i \in DOMAIN calls, NEW ok \in BOOLEAN,
         Q!Parsed(i, ok) \/ Q!handleParseBatch(i, ok)
  PROVE  SqlPageInv'
<1> DEFINE of == {"todo", "done", "batches"}
           c == view.covered \cup {"todo"}
<1>1. calls[i].op \in {"parse", "parseBatch"} /\ page' = page
  BY SqlConsole DEF Q!Parsed, Q!handleParseBatch, Q!Answer
<1>2. CASE ~ok
  <2>1. Reply(i, <<>>) /\ view' = [view EXCEPT !.parsing = FALSE]
    BY <1>2, SqlConsole DEF Q!Parsed, Q!handleParseBatch
  <2>2. AreCalls(calls') /\ OthersFly(calls[i].op) /\ NewFits
    BY <2>1, SqlRepliesNone
  <2>3. /\ SameForm /\ SameBoxes /\ view'.parsing = FALSE /\ view'.covered = view.covered
        /\ view'.executing = view.executing /\ view'.importing = view.importing
    BY <2>1 DEF SqlPageInv, SqlShape, SqlFields, SameForm, SameBoxes
  <2>4. SqlShape' /\ CoveredKept /\ ParsingKept(calls[i].op)
    BY <2>3 DEF SqlPageInv, SqlShape, SameForm, SameBoxes, CoveredKept, ParsingKept
  <2> QED
    BY <1>1, <2>2, <2>3, <2>4, ParsingStep DEF SameForm
<1>3. CASE ok
  <2>1. PICK f \in Files \cup {None}, b \in BOOLEAN, l \in SUBSET of :
          /\ view' = [[view EXCEPT !.current = f, !.batch = b] EXCEPT !.covered = c]
          /\ "todo" \in l
          /\ Reply(i, <<Call("lists", [of |-> l, ends |-> "parsing"])>>)
    <3>1. CASE Q!Parsed(i, ok)
      <4>1. calls[i].arg \in Files
        <5>1. Flying("parse", calls[i].arg, calls)
          BY <3>1 DEF Q!Parsed, Q!Indices, Flying
        <5> QED
          BY <5>1 DEF SqlPageInv, SqlCalls
      <4>2. /\ view' = [[view EXCEPT !.current = calls[i].arg]
                          EXCEPT !.covered = @ \cup ({"todo"} \cap {"todo", "done"})]
            /\ Reply(i, <<Call("lists", [of |-> {"todo"}, ends |-> "parsing"])>>)
        BY <1>3, <3>1, SqlConsole DEF Q!Parsed, Q!Cover, Q!loadLists
      <4>3. {"todo"} \cap {"todo", "done"} = {"todo"} /\ view.batch \in BOOLEAN
        BY DEF SqlPageInv, SqlShape
      <4>4. view' = [[view EXCEPT !.current = calls[i].arg, !.batch = view.batch]
                       EXCEPT !.covered = c]
        BY <4>2, <4>3 DEF SqlPageInv, SqlShape, SqlFields
      <4> QED
        BY <4>1, <4>2, <4>3, <4>4
    <3>2. CASE Q!handleParseBatch(i, ok)
      <4>1. /\ view' = [[view EXCEPT !.batch = TRUE]
                          EXCEPT !.covered = @ \cup ({"todo"} \cap {"todo", "done"})]
            /\ Reply(i, <<Call("lists", [of |-> {"todo", "batches"}, ends |-> "parsing"])>>)
        BY <1>3, <3>2, SqlConsole DEF Q!handleParseBatch, Q!Cover, Q!loadLists
      <4>2. {"todo"} \cap {"todo", "done"} = {"todo"} /\ view.current \in Files \cup {None}
        BY DEF SqlPageInv, SqlShape
      <4>3. view' = [[view EXCEPT !.current = view.current, !.batch = TRUE]
                       EXCEPT !.covered = c]
        BY <4>1, <4>2 DEF SqlPageInv, SqlShape, SqlFields
      <4> QED
        BY <4>1, <4>2, <4>3
    <3> QED
      BY <3>1, <3>2
  <2>2. /\ AreCalls(calls') /\ OthersFly(calls[i].op) /\ NewFits
        /\ \A list \in l : Brings(list, calls')
        /\ EndsIn("parsing", calls')
    BY <2>1, ListsFollow
  <2>3. c \subseteq {"todo", "done"} /\ \A list \in c : list \in view.covered \/ list = "todo"
    BY DEF SqlPageInv, SqlShape
  <2> HIDE DEF c, of
  <2>4. /\ DOMAIN view' = DOMAIN view /\ view'.form = view.form /\ view'.current = f
        /\ view'.picked = view.picked /\ view'.batch = b
        /\ view'.force = view.force /\ SameBoxes /\ view'.covered = c
        /\ view'.parsing = view.parsing /\ view'.executing = view.executing
        /\ view'.importing = view.importing
    BY <2>1 DEF SqlPageInv, SqlShape, SqlFields, SameBoxes
  <2>5. SqlShape'
    BY <2>1, <2>3, <2>4 DEF SqlPageInv, SqlShape, SameBoxes
  <2>6. CoveredKept /\ ParsingKept(calls[i].op)
    BY <2>1, <2>2, <2>3, <2>4 DEF CoveredKept, ParsingKept
  <2> QED
    BY <1>1, <2>2, <2>4, <2>5, <2>6, ParsingStep
<1> QED
  BY <1>2, <1>3

\* What the server holds of files, and what it takes from a server's directory.
LEMMA ImportAsked ==
  ASSUME SqlPageInv, Q!handleImportServerSQL PROVE SqlPageInv'
<1>1. /\ page' = page /\ view' = [view EXCEPT !.importing = TRUE]
      /\ Send(<<Call("import", None)>>) /\ FitsSql("import", None)
  BY SqlConsole DEF Q!handleImportServerSQL, Q!User, FitsSql
<1>2. /\ SameForm /\ SameBoxes /\ view'.importing = TRUE /\ view'.covered = view.covered
      /\ view'.executing = view.executing /\ view'.parsing = view.parsing
  BY <1>1 DEF SqlPageInv, SqlShape, SqlFields, SameForm, SameBoxes
<1>3. AreCalls(calls') /\ NewFits /\ OthersFly("none") /\ InFlight({"import"})'
  BY <1>1, SqlSends
<1>4. SqlShape' /\ BoxedSoFar(view'.boxes, view'.force)
  BY <1>2 DEF SqlPageInv, SqlShape, SameForm, SameBoxes, RunsConfirmed
<1>5. /\ CoveredKept /\ ParsingKept("none") /\ ExecutingKept("none") /\ ImportingKept("none")
      /\ SavingKept("none") /\ WhitelistKept("none")
  BY <1>2, <1>3 DEF CoveredKept, ParsingKept, ExecutingKept, ImportingKept, SavingKept,
     WhitelistKept, SameBoxes
<1> QED
  BY <1>1, <1>3, <1>4, <1>5, SqlStep

LEMMA TouchedFile ==
  ASSUME SqlPageInv, NEW i \in DOMAIN calls, NEW ok \in BOOLEAN, Q!FileTouched(i, ok)
  PROVE  SqlPageInv'
<1> DEFINE op == calls[i].op
           of == IF op = "skipFile" THEN {"todo", "done"} ELSE {"todo"}
           ends == IF op = "import" THEN "importing" ELSE None
           c == IF ok THEN view.covered \cup (of \cap {"todo", "done"}) ELSE view.covered
           m == IF ~ok /\ ends = "importing" THEN FALSE ELSE view.importing
<1>1. /\ op \in {"skipFile", "deleteFile", "import"} /\ page' = page
      /\ Reply(i, IF ok THEN <<Call("lists", [of |-> of, ends |-> ends])>> ELSE <<>>)
      /\ view' = CASE ok -> [view EXCEPT !.covered = @ \cup (of \cap {"todo", "done"})]
                   [] ~ok /\ ends = "importing" -> [view EXCEPT !.importing = FALSE]
                   [] OTHER -> view
  BY SqlConsole DEF Q!FileTouched, Q!Answer, Q!Cover, Q!loadLists
<1>2. /\ c \subseteq {"todo", "done"} /\ m \in BOOLEAN /\ (m => view.importing)
      /\ \A list \in c : list \in view.covered \/ (ok /\ list \in of)
      /\ op = "import" => ends = "importing" /\ (m => ok)
  BY DEF SqlPageInv, SqlShape
<1>3. /\ SameForm /\ SameBoxes /\ view'.covered = c /\ view'.importing = m
      /\ view'.executing = view.executing /\ view'.parsing = view.parsing
  <2>1. CASE ok
    <3>1. c = view.covered \cup (of \cap {"todo", "done"}) /\ m = view.importing
      BY <2>1
    <3>2. view' = [view EXCEPT !.covered = view.covered \cup (of \cap {"todo", "done"})]
      BY <1>1, <2>1
    <3> HIDE DEF of, c, m, ends
    <3> QED
      BY <3>1, <3>2 DEF SqlPageInv, SqlShape, SqlFields, SameForm, SameBoxes
  <2>2. CASE ~ok /\ ends = "importing"
    <3>1. c = view.covered /\ m = FALSE
      BY <2>2
    <3>2. view' = [view EXCEPT !.importing = FALSE]
      BY <1>1, <2>2
    <3> HIDE DEF of, c, m, ends
    <3> QED
      BY <3>1, <3>2 DEF SqlPageInv, SqlShape, SqlFields, SameForm, SameBoxes
  <2>3. CASE ~ok /\ ends # "importing"
    <3>1. c = view.covered /\ m = view.importing
      BY <2>3
    <3>2. view' = view
      BY <1>1, <2>3
    <3> HIDE DEF of, c, m, ends
    <3> QED
      BY <3>1, <3>2 DEF SqlPageInv, SqlShape, SqlFields, SameForm, SameBoxes
  <2> QED
    BY <2>1, <2>2, <2>3
<1> HIDE DEF of, c, m, ends
<1>4. /\ AreCalls(calls') /\ OthersFly(op) /\ NewFits
      /\ ok => EndsIn(ends, calls') /\ \A list \in of : Brings(list, calls')
  <2>1. CASE ok
    BY <1>1, <2>1, ListsFollow
  <2>2. CASE ~ok
    BY <1>1, <2>2, SqlRepliesNone
  <2> QED
    BY <2>1, <2>2
<1> HIDE DEF op
<1>5. SqlShape' /\ BoxedSoFar(view'.boxes, view'.force)
  BY <1>2, <1>3 DEF SqlPageInv, SqlShape, SameForm, SameBoxes, RunsConfirmed
<1>6. CoveredKept
  BY <1>2, <1>3, <1>4 DEF CoveredKept
<1>7. ParsingKept(op) /\ ExecutingKept(op)
  BY <1>1, <1>3 DEF ParsingKept, ExecutingKept, SameBoxes
<1>8. ImportingKept(op)
  BY <1>1, <1>2, <1>3, <1>4 DEF ImportingKept
<1>9. SavingKept(op) /\ WhitelistKept(op)
  BY <1>1, <1>3 DEF SavingKept, WhitelistKept, SameBoxes
<1> QED
  BY <1>1, <1>4, <1>5, <1>6, <1>7, <1>8, <1>9, SqlStep

-----------------------------------------------------------------------------
(* What a box asks, one box over the other, and what is run after it *)

LEMMA BoxAdded ==
  ASSUME NEW bs \in Seq(Q!Boxes), NEW b \in Q!Boxes, NEW force, BoxedSoFar(bs, force),
         b.kind \in {"force", "warn"} => b.file \in Files,
         b.kind = "warn" /\ force /\ "BLOCKED" \in Risks[b.file] => b.forced
  PROVE  /\ Append(bs, b) \in Seq(Q!Boxes) /\ BoxedSoFar(Append(bs, b), force)
         /\ Confirming(bs) => Confirming(Append(bs, b))
         /\ b.kind \in {"force", "warn"} => Confirming(Append(bs, b))
<1>1. /\ Append(bs, b) \in Seq(Q!Boxes) /\ Len(bs) \in Nat /\ DOMAIN bs = 1 .. Len(bs)
      /\ DOMAIN Append(bs, b) = 1 .. (Len(bs) + 1) /\ Append(bs, b)[Len(bs) + 1] = b
      /\ \A k \in 1 .. Len(bs) : Append(bs, b)[k] = bs[k]
  <2> HIDE DEF Q!Boxes
  <2> QED
    OBVIOUS
<1>2. /\ \A k \in 1 .. (Len(bs) + 1) : k \in 1 .. Len(bs) \/ k = Len(bs) + 1
      /\ \A k \in 1 .. Len(bs) : k \in 1 .. (Len(bs) + 1)
      /\ Len(bs) + 1 \in 1 .. (Len(bs) + 1)
  BY <1>1
<1>3. BoxedSoFar(Append(bs, b), force)
  BY <1>1, <1>2 DEF BoxedSoFar
<1>4. /\ Confirming(bs) => Confirming(Append(bs, b))
      /\ b.kind \in {"force", "warn"} => Confirming(Append(bs, b))
  BY <1>1, <1>2 DEF Confirming
<1> QED
  BY <1>1, <1>3, <1>4

LEMMA BoxTaken ==
  ASSUME NEW bs \in Seq(Q!Boxes), bs # <<>>, NEW force, BoxedSoFar(bs, force)
  PROVE  /\ Q!Front(bs) \in Seq(Q!Boxes) /\ BoxedSoFar(Q!Front(bs), force)
         /\ Q!Last(bs) \in Q!Boxes
         /\ Q!Last(bs).kind \in {"force", "warn"} => Q!Last(bs).file \in Files
         /\ Q!Last(bs).kind = "warn" /\ force /\ "BLOCKED" \in Risks[Q!Last(bs).file] =>
              Q!Last(bs).forced
         /\ Confirming(bs) /\ Q!Last(bs).kind \notin {"force", "warn"} => Confirming(Q!Front(bs))
<1> DEFINE N == Len(bs)
           front == Q!Front(bs)
<1>1. N \in Nat /\ DOMAIN bs = 1 .. N /\ N \in 1 .. N /\ N # 0
  OBVIOUS
<1>2. Q!Last(bs) = bs[N] /\ bs[N] \in Q!Boxes
  BY <1>1 DEF Q!Last
<1>3. front = SubSeq(bs, 1, N - 1)
  BY DEF Q!Front
<1> HIDE DEF N
<1>4. /\ N - 1 \in Nat /\ N - 1 \in Int /\ 1 \in Int /\ (N - 1) - 1 + 1 = N - 1
      /\ (IF 1 <= N - 1 THEN (N - 1) - 1 + 1 ELSE 0) = N - 1
      /\ \A k \in 1 .. (N - 1) : 1 + k - 1 = k
      /\ \A k \in 1 .. (N - 1) : k \in 1 .. N
      /\ \A k \in 1 .. N : k \in 1 .. (N - 1) \/ k = N
  BY <1>1
<1>5. front \in Seq(Q!Boxes) /\ Len(front) = N - 1 /\ \A k \in 1 .. (N - 1) : front[k] = bs[k]
  <2>1. \A k \in 1 .. (N - 1) : bs[k] \in Q!Boxes
    BY <1>1, <1>4
  <2> HIDE DEF front, Q!Boxes
  <2>2. /\ SubSeq(bs, 1, N - 1) \in Seq(Q!Boxes)
        /\ Len(SubSeq(bs, 1, N - 1)) = IF 1 <= N - 1 THEN (N - 1) - 1 + 1 ELSE 0
        /\ \A k \in 1 .. (N - 1) - 1 + 1 : SubSeq(bs, 1, N - 1)[k] = bs[1 + k - 1]
    BY <1>4, <2>1, SubSeqProperties
  <2> QED
    BY <1>3, <1>4, <2>2
<1>6. DOMAIN front = 1 .. (N - 1)
  <2> HIDE DEF front, Q!Boxes
  <2> QED
    BY <1>5
<1> HIDE DEF front
<1>7. BoxedSoFar(front, force)
  BY <1>1, <1>4, <1>5, <1>6 DEF BoxedSoFar
<1>8. /\ bs[N].kind \in {"force", "warn"} => bs[N].file \in Files
      /\ bs[N].kind = "warn" /\ force /\ "BLOCKED" \in Risks[bs[N].file] => bs[N].forced
  BY <1>1 DEF BoxedSoFar
<1>9. Confirming(bs) /\ bs[N].kind \notin {"force", "warn"} => Confirming(front)
  BY <1>1, <1>4, <1>5, <1>6 DEF Confirming
<1> QED
  BY <1>2, <1>5, <1>7, <1>8, <1>9 DEF front

LEMMA ExecutingStep ==
  ASSUME SqlPageInv, NEW x, x \notin {"lists", "parse", "parseBatch", "import",
                                      "whitelist", "putWhitelist"},
         page' = page, AreCalls(calls'), OthersFly(x), NewFits, SqlShape',
         BoxedSoFar(view'.boxes, view'.force), CoveredKept, ExecutingKept(x),
         view'.parsing = view.parsing, view'.importing = view.importing,
         view'.whitelist = view.whitelist, view'.calm = view.calm
  PROVE  SqlPageInv'
<1>1. ParsingKept(x) /\ ImportingKept(x) /\ SavingKept(x) /\ WhitelistKept(x)
  BY DEF ParsingKept, ImportingKept, SavingKept, WhitelistKept
<1> QED
  BY <1>1, SqlStep

LEMMA BoxesChanged ==
  ASSUME SqlPageInv, NEW x, x \notin {"lists", "parse", "parseBatch", "import",
                                      "whitelist", "putWhitelist"},
         page' = page, AreCalls(calls'), OthersFly(x), NewFits,
         NEW bs \in Seq(Q!Boxes), BoxedSoFar(bs, view.force), NEW e \in BOOLEAN,
         view' = [view EXCEPT !.boxes = bs, !.executing = e],
         e => \/ /\ view.executing /\ x \notin {"statements", "execute"}
                 /\ Confirming(view.boxes) => Confirming(bs)
              \/ InFlight({"statements"})' \/ InFlight({"execute"})' \/ Confirming(bs)
  PROVE  SqlPageInv'
<1>1. /\ SameForm /\ view'.boxes = bs /\ view'.executing = e
      /\ view'.parsing = view.parsing /\ view'.importing = view.importing
      /\ view'.covered = view.covered
      /\ view'.whitelist = view.whitelist /\ view'.calm = view.calm
  BY DEF SqlPageInv, SqlShape, SqlFields, SameForm
<1>2. SqlShape'
  BY <1>1 DEF SqlPageInv, SqlShape, SameForm
<1>3. CoveredKept /\ ExecutingKept(x) /\ BoxedSoFar(view'.boxes, view'.force)
  BY <1>1 DEF CoveredKept, ExecutingKept, SameForm
<1> QED
  BY <1>1, <1>2, <1>3, ExecutingStep

LEMMA ExecutionAsked ==
  ASSUME Q!SqlConstants, SqlPageInv,
         \/ Q!handleExecuteContent
         \/ \E f \in Files : \E link \in BOOLEAN : Q!handleExecuteFile(f, link)
  PROVE  SqlPageInv'
<1>1. PICK f \in Files :
        /\ Send(<<Call("statements", f)>>) /\ page' = page
        /\ view' = [view EXCEPT !.executing = TRUE]
  <2>1. CASE Q!handleExecuteContent
    BY <2>1, SqlConsole DEF Q!handleExecuteContent, Q!User, SqlPageInv, SqlShape
  <2>2. CASE \E f \in Files : \E link \in BOOLEAN : Q!handleExecuteFile(f, link)
    BY <2>2, SqlConsole DEF Q!handleExecuteFile, Q!User
  <2> QED
    BY <2>1, <2>2
<1>2. FitsSql("statements", f)
  BY DEF FitsSql
<1>3. AreCalls(calls') /\ NewFits /\ OthersFly("none") /\ InFlight({"statements"})'
  BY <1>1, <1>2, SqlSends
<1>4. view' = [view EXCEPT !.boxes = view.boxes, !.executing = TRUE]
  BY <1>1 DEF SqlPageInv, SqlShape, SqlFields
<1>5. view.boxes \in Seq(Q!Boxes) /\ BoxedSoFar(view.boxes, view.force)
  BY DEF SqlPageInv, SqlShape, RunsConfirmed
<1> QED
  BY <1>1, <1>3, <1>4, <1>5, BoxesChanged

\* The statements of a file came: its risks are to be confirmed, or it is run.
LEMMA OptionsBuilt ==
  ASSUME Q!SqlConstants, SqlPageInv, NEW i \in DOMAIN calls, NEW ok \in BOOLEAN,
         Q!buildConfirmedOptions(i, ok)
  PROVE  SqlPageInv'
<1> DEFINE f == calls[i].arg
           kind == IF view.force /\ "BLOCKED" \in Risks[f] THEN "force"
                   ELSE IF "WARN" \in Risks[f] THEN "warn" ELSE None
           b == Q!Box(kind, f, FALSE)
           r == [file |-> f, force |-> view.force, forced |-> FALSE, warn |-> FALSE]
<1>1. calls[i].op = "statements" /\ page' = page
  BY SqlConsole DEF Q!buildConfirmedOptions, Q!Answer
<1>2. f \in Files /\ f # None
  <2>1. Flying("statements", f, calls)
    BY <1>1 DEF Flying
  <2> QED
    BY <2>1 DEF SqlPageInv, SqlCalls, Q!SqlConstants
<1>3. \/ kind = "force" /\ view.force /\ "BLOCKED" \in Risks[f]
      \/ kind = "warn" /\ ~(view.force /\ "BLOCKED" \in Risks[f])
      \/ /\ kind = None /\ ~(view.force /\ "BLOCKED" \in Risks[f])
         /\ "WARN" \notin Risks[f]
  <2>1. CASE view.force /\ "BLOCKED" \in Risks[f]
    <3>1. kind = "force"
      BY <2>1
    <3> QED
      BY <2>1, <3>1
  <2>2. CASE ~(view.force /\ "BLOCKED" \in Risks[f]) /\ "WARN" \in Risks[f]
    BY <2>2
  <2>3. CASE ~(view.force /\ "BLOCKED" \in Risks[f]) /\ "WARN" \notin Risks[f]
    BY <2>3
  <2> QED
    BY <2>1, <2>2, <2>3
<1>4. None # "force" /\ None # "warn"
  BY DEF Q!SqlConstants
<1>5. view.boxes \in Seq(Q!Boxes) /\ BoxedSoFar(view.boxes, view.force)
      /\ view.executing \in BOOLEAN /\ view.force \in BOOLEAN
  BY DEF SqlPageInv, SqlShape, RunsConfirmed
<1>6. /\ view' = CASE ~ok -> [view EXCEPT !.executing = FALSE]
                   [] ok /\ kind = None -> view
                   [] OTHER -> [view EXCEPT !.boxes = Append(@, b)]
      /\ Reply(i, IF ok /\ kind = None THEN <<Call("execute", r)>> ELSE <<>>)
  BY SqlConsole DEF Q!buildConfirmedOptions, Q!Show, Q!Run
<1>7. CASE ~ok
  <2>1. Reply(i, <<>>) /\ view' = [view EXCEPT !.executing = FALSE]
    BY <1>6, <1>7
  <2>2. AreCalls(calls') /\ OthersFly("statements") /\ NewFits
    BY <1>1, <2>1, SqlRepliesNone
  <2>3. view' = [view EXCEPT !.boxes = view.boxes, !.executing = FALSE]
    BY <2>1 DEF SqlPageInv, SqlShape, SqlFields
  <2> QED
    BY <1>1, <1>5, <2>2, <2>3, BoxesChanged
<1>8. CASE ok /\ kind = None
  <2>1. Reply(i, <<Call("execute", r)>>) /\ view' = view
    BY <1>6, <1>8
  <2>2. FitsSql("execute", r)
    BY <1>2, <1>3, <1>4, <1>5, <1>8 DEF FitsSql, RunArgs, Confirmed
  <2> HIDE DEF r, kind, b, f
  <2>3. AreCalls(calls') /\ OthersFly("statements") /\ NewFits /\ InFlight({"execute"})'
    BY <1>1, <2>1, <2>2, SqlReplies, FlightFlies
  <2>4. SqlShape' /\ CoveredKept /\ BoxedSoFar(view'.boxes, view'.force)
    BY <1>5, <2>1 DEF SqlPageInv, SqlShape, CoveredKept
  <2>5. ExecutingKept("statements")
    BY <2>3 DEF ExecutingKept
  <2> QED
    BY <1>1, <2>1, <2>3, <2>4, <2>5, ExecutingStep
<1>9. CASE ok /\ kind # None
  <2>1. Reply(i, <<>>) /\ view' = [view EXCEPT !.boxes = Append(@, b)]
    BY <1>6, <1>9
  <2>2. /\ b \in Q!Boxes /\ b.kind \in {"force", "warn"} /\ b.file \in Files
        /\ b.kind = "warn" /\ view.force => "BLOCKED" \notin Risks[b.file]
    BY <1>2, <1>3, <1>4, <1>9 DEF Q!Box, Q!Boxes
  <2> HIDE DEF b, kind, f, r
  <2>3. AreCalls(calls') /\ OthersFly("statements") /\ NewFits
    BY <1>1, <2>1, SqlRepliesNone
  <2> DEFINE bs == Append(view.boxes, b)
  <2>4. bs \in Seq(Q!Boxes) /\ BoxedSoFar(bs, view.force) /\ Confirming(bs)
    BY <1>5, <2>2, BoxAdded
  <2>5. view' = [view EXCEPT !.boxes = bs, !.executing = view.executing]
    BY <2>1 DEF SqlPageInv, SqlShape, SqlFields
  <2> HIDE DEF bs
  <2> QED
    BY <1>1, <1>5, <2>3, <2>4, <2>5, BoxesChanged
<1> QED
  BY <1>7, <1>8, <1>9

LEMMA ForceConfirmed ==
  ASSUME Q!SqlConstants, SqlPageInv, Q!ConfirmForce PROVE SqlPageInv'
<1> DEFINE f == Q!Last(view.boxes).file
           b == Q!Box("warn", f, TRUE)
           r == [file |-> f, force |-> view.force, forced |-> TRUE, warn |-> FALSE]
           fs == Q!Front(view.boxes)
<1>1. page' = page /\ view.boxes # <<>> /\ Q!Last(view.boxes).kind = "force"
  BY SqlConsole DEF Q!ConfirmForce, Q!User, Q!Asked
<1>2. /\ view.boxes \in Seq(Q!Boxes) /\ BoxedSoFar(view.boxes, view.force)
      /\ view.executing \in BOOLEAN /\ view.force \in BOOLEAN
  BY DEF SqlPageInv, SqlShape, RunsConfirmed
<1>3. fs \in Seq(Q!Boxes) /\ BoxedSoFar(fs, view.force) /\ f \in Files
  BY <1>1, <1>2, BoxTaken
<1>4. f # None
  BY <1>3 DEF Q!SqlConstants
<1>5. CASE "WARN" \in Risks[f]
  <2>1. Send(<<>>) /\ view' = [[view EXCEPT !.boxes = fs] EXCEPT !.boxes = Append(fs, b)]
    BY <1>5, SqlConsole DEF Q!ConfirmForce, Q!Rest, SqlPageInv, SqlShape, SqlFields
  <2>2. b \in Q!Boxes /\ b.kind = "warn" /\ b.file \in Files /\ b.forced
    BY <1>3 DEF Q!Box, Q!Boxes
  <2> DEFINE bs == Append(fs, b)
  <2> HIDE DEF b, f, fs, r
  <2>3. bs \in Seq(Q!Boxes) /\ BoxedSoFar(bs, view.force) /\ Confirming(bs)
    BY <1>3, <2>2, BoxAdded
  <2>4. view' = [view EXCEPT !.boxes = bs, !.executing = view.executing]
    BY <2>1 DEF SqlPageInv, SqlShape, SqlFields
  <2>5. AreCalls(calls') /\ NewFits /\ OthersFly("none")
    BY <2>1, SqlSendsNone
  <2> HIDE DEF bs
  <2> QED
    BY <1>1, <1>2, <2>3, <2>4, <2>5, BoxesChanged
<1>6. CASE "WARN" \notin Risks[f]
  <2>1. Send(<<Call("execute", r)>>) /\ view' = [view EXCEPT !.boxes = fs]
    BY <1>6, SqlConsole DEF Q!ConfirmForce, Q!Rest, Q!Run
  <2>2. FitsSql("execute", r)
    BY <1>2, <1>3, <1>4, <1>6 DEF FitsSql, RunArgs, Confirmed
  <2> HIDE DEF b, f, fs, r
  <2>3. AreCalls(calls') /\ NewFits /\ OthersFly("none") /\ InFlight({"execute"})'
    BY <2>1, <2>2, SqlSends
  <2>4. view' = [view EXCEPT !.boxes = fs, !.executing = view.executing]
    BY <2>1 DEF SqlPageInv, SqlShape, SqlFields
  <2> QED
    BY <1>1, <1>2, <1>3, <2>3, <2>4, BoxesChanged
<1> QED
  BY <1>5, <1>6

LEMMA WarnConfirmed ==
  ASSUME Q!SqlConstants, SqlPageInv, Q!ConfirmWarn PROVE SqlPageInv'
<1> DEFINE last == Q!Last(view.boxes)
           r == [file |-> last.file, force |-> view.force, forced |-> last.forced,
                 warn |-> TRUE]
           fs == Q!Front(view.boxes)
<1>1. /\ page' = page /\ view.boxes # <<>> /\ last.kind = "warn"
      /\ Send(<<Call("execute", r)>>) /\ view' = [view EXCEPT !.boxes = fs]
  BY SqlConsole DEF Q!ConfirmWarn, Q!User, Q!Asked, Q!Rest, Q!Run
<1>2. /\ view.boxes \in Seq(Q!Boxes) /\ BoxedSoFar(view.boxes, view.force)
      /\ view.executing \in BOOLEAN /\ view.force \in BOOLEAN
  BY DEF SqlPageInv, SqlShape, RunsConfirmed
<1>3. /\ fs \in Seq(Q!Boxes) /\ BoxedSoFar(fs, view.force) /\ last \in Q!Boxes
      /\ last.file \in Files
      /\ view.force /\ "BLOCKED" \in Risks[last.file] => last.forced
  BY <1>1, <1>2, BoxTaken
<1>4. last.file # None /\ last.forced \in BOOLEAN
  BY <1>3 DEF Q!SqlConstants, Q!Boxes
<1> HIDE DEF last
<1>5. FitsSql("execute", r)
  BY <1>2, <1>3, <1>4 DEF FitsSql, RunArgs, Confirmed
<1> HIDE DEF r, fs
<1>6. AreCalls(calls') /\ NewFits /\ OthersFly("none") /\ InFlight({"execute"})'
  BY <1>1, <1>5, SqlSends
<1>7. view' = [view EXCEPT !.boxes = fs, !.executing = view.executing]
  BY <1>1 DEF SqlPageInv, SqlShape, SqlFields
<1> QED
  BY <1>1, <1>2, <1>3, <1>6, <1>7, BoxesChanged

LEMMA BoxDismissed ==
  ASSUME SqlPageInv, Q!Dismiss PROVE SqlPageInv'
<1> DEFINE last == Q!Last(view.boxes)
           fs == Q!Front(view.boxes)
<1>1. /\ UNCHANGED <<page, calls>> /\ view.boxes # <<>>
      /\ view' = [[view EXCEPT !.boxes = fs]
                    EXCEPT !.executing = @ /\ last.kind \notin {"force", "warn"}]
  BY SqlConsole DEF Q!Dismiss, Q!User, Q!Rest
<1>2. /\ view.boxes \in Seq(Q!Boxes) /\ BoxedSoFar(view.boxes, view.force)
      /\ view.executing \in BOOLEAN
  BY DEF SqlPageInv, SqlShape, RunsConfirmed
<1>3. /\ fs \in Seq(Q!Boxes) /\ BoxedSoFar(fs, view.force)
      /\ Confirming(view.boxes) /\ last.kind \notin {"force", "warn"} => Confirming(fs)
  BY <1>1, <1>2, BoxTaken
<1> HIDE DEF last, fs
<1>4. PICK e \in BOOLEAN : e = (view.executing /\ last.kind \notin {"force", "warn"})
  BY <1>2
<1>5. view' = [view EXCEPT !.boxes = fs, !.executing = e]
  BY <1>1, <1>4 DEF SqlPageInv, SqlShape, SqlFields
<1>6. AreCalls(calls') /\ NewFits /\ OthersFly("none")
  BY <1>1, SqlSendsNone
<1>7. e => /\ view.executing /\ "none" \notin {"statements", "execute"}
           /\ Confirming(view.boxes) => Confirming(fs)
  BY <1>3, <1>4
<1> QED
  BY <1>1, <1>3, <1>5, <1>6, <1>7, BoxesChanged

\* Boxes that lead to no run of a file: of a batch, and of a file skipped or deleted.
LEMMA OtherBoxShown ==
  ASSUME SqlPageInv, \/ Q!handleExecuteBatch
                     \/ \E kind \in {"skipFile", "deleteFile"} : \E f \in Files : Q!AskFile(kind, f)
  PROVE  SqlPageInv'
<1>1. PICK kind \in {"batch", "skipFile", "deleteFile"}, f \in Files \cup {None} :
        /\ view' = [view EXCEPT !.boxes = Append(@, Q!Box(kind, f, FALSE))]
        /\ UNCHANGED <<page, calls>>
  BY SqlConsole DEF Q!handleExecuteBatch, Q!AskFile, Q!Show, Q!User
<1> DEFINE b == Q!Box(kind, f, FALSE)
           bs == Append(view.boxes, b)
<1>2. /\ view.boxes \in Seq(Q!Boxes) /\ BoxedSoFar(view.boxes, view.force)
      /\ view.executing \in BOOLEAN
  BY DEF SqlPageInv, SqlShape, RunsConfirmed
<1>3. b \in Q!Boxes /\ b.kind \notin {"force", "warn"}
  BY DEF Q!Box, Q!Boxes
<1>4. view' = [view EXCEPT !.boxes = bs, !.executing = view.executing]
  <2> HIDE DEF b
  <2>1. view' = [view EXCEPT !.boxes = Append(view.boxes, b)]
    BY <1>1 DEF b
  <2> QED
    BY <2>1 DEF SqlPageInv, SqlShape, SqlFields
<1> HIDE DEF b
<1>5. /\ bs \in Seq(Q!Boxes) /\ BoxedSoFar(bs, view.force)
      /\ Confirming(view.boxes) => Confirming(bs)
  BY <1>2, <1>3, BoxAdded
<1>6. AreCalls(calls') /\ NewFits /\ OthersFly("none")
  BY <1>1, SqlSendsNone
<1> HIDE DEF bs
<1>7. view.executing => /\ view.executing /\ "none" \notin {"statements", "execute"}
                        /\ Confirming(view.boxes) => Confirming(bs)
  BY <1>5
<1> QED
  BY <1>1, <1>2, <1>4, <1>5, <1>6, <1>7, BoxesChanged

LEMMA FileConfirmed ==
  ASSUME SqlPageInv, NEW kind \in {"skipFile", "deleteFile"}, Q!ConfirmFile(kind)
  PROVE  SqlPageInv'
<1> DEFINE last == Q!Last(view.boxes)
           fs == Q!Front(view.boxes)
<1>1. /\ page' = page /\ view.boxes # <<>> /\ last.kind = kind
      /\ view' = [view EXCEPT !.boxes = fs] /\ Send(<<Call(kind, last.file)>>)
  BY SqlConsole DEF Q!ConfirmFile, Q!Asked, Q!User, Q!Rest
<1>2. /\ view.boxes \in Seq(Q!Boxes) /\ BoxedSoFar(view.boxes, view.force)
      /\ view.executing \in BOOLEAN
  BY DEF SqlPageInv, SqlShape, RunsConfirmed
<1>3. /\ fs \in Seq(Q!Boxes) /\ BoxedSoFar(fs, view.force)
      /\ Confirming(view.boxes) => Confirming(fs)
  BY <1>1, <1>2, BoxTaken
<1>4. FitsSql(kind, last.file)
  BY DEF FitsSql
<1> HIDE DEF last, fs
<1>5. AreCalls(calls') /\ NewFits /\ OthersFly("none")
  BY <1>1, <1>4, SqlSends
<1>6. view' = [view EXCEPT !.boxes = fs, !.executing = view.executing]
  BY <1>1 DEF SqlPageInv, SqlShape, SqlFields
<1>7. view.executing => /\ view.executing /\ "none" \notin {"statements", "execute"}
                        /\ Confirming(view.boxes) => Confirming(fs)
  BY <1>3
<1> QED
  BY <1>1, <1>2, <1>3, <1>5, <1>6, <1>7, BoxesChanged

\* A batch that is forced takes a second box.
LEMMA BatchConfirmed ==
  ASSUME SqlPageInv, Q!ConfirmBatch PROVE SqlPageInv'
<1> DEFINE last == Q!Last(view.boxes)
           fs == Q!Front(view.boxes)
           b == Q!Box("forceBatch", None, TRUE)
<1>1. page' = page /\ view.boxes # <<>> /\ last.kind \in {"batch", "forceBatch"}
  BY SqlConsole DEF Q!ConfirmBatch, Q!Asked, Q!User
<1>2. /\ view.boxes \in Seq(Q!Boxes) /\ BoxedSoFar(view.boxes, view.force)
      /\ view.executing \in BOOLEAN /\ view.force \in BOOLEAN
  BY DEF SqlPageInv, SqlShape, RunsConfirmed
<1>3. /\ fs \in Seq(Q!Boxes) /\ BoxedSoFar(fs, view.force)
      /\ Confirming(view.boxes) => Confirming(fs)
  BY <1>1, <1>2, BoxTaken
<1>4. PICK forced \in BOOLEAN : forced = (last.kind = "forceBatch")
  OBVIOUS
<1> DEFINE r == [file |-> None, force |-> view.force, forced |-> forced, warn |-> TRUE]
<1>5. CASE view.force /\ ~forced
  <2>1. Send(<<>>) /\ view' = [[view EXCEPT !.boxes = fs] EXCEPT !.boxes = Append(fs, b)]
    BY <1>4, <1>5, SqlConsole DEF Q!ConfirmBatch, Q!Rest, SqlPageInv, SqlShape, SqlFields
  <2>2. b \in Q!Boxes /\ b.kind \notin {"force", "warn"}
    BY DEF Q!Box, Q!Boxes
  <2> DEFINE bs == Append(fs, b)
  <2> HIDE DEF b, fs, last
  <2>3. /\ bs \in Seq(Q!Boxes) /\ BoxedSoFar(bs, view.force)
        /\ Confirming(view.boxes) => Confirming(bs)
    BY <1>3, <2>2, BoxAdded
  <2>4. view' = [view EXCEPT !.boxes = bs, !.executing = view.executing]
    BY <2>1 DEF SqlPageInv, SqlShape, SqlFields
  <2>5. AreCalls(calls') /\ NewFits /\ OthersFly("none")
    BY <2>1, SqlSendsNone
  <2> HIDE DEF bs
  <2>6. view.executing => /\ view.executing /\ "none" \notin {"statements", "execute"}
                          /\ Confirming(view.boxes) => Confirming(bs)
    BY <1>3, <2>3
  <2> QED
    BY <1>1, <1>2, <2>3, <2>4, <2>5, <2>6, BoxesChanged
<1>6. CASE ~(view.force /\ ~forced)
  <2>1. /\ Send(<<Call("execute", r)>>)
        /\ view' = [[view EXCEPT !.boxes = fs] EXCEPT !.executing = TRUE]
    BY <1>4, <1>6, SqlConsole DEF Q!ConfirmBatch, Q!Rest, Q!Run
  <2>2. FitsSql("execute", r)
    BY <1>2, <1>6 DEF FitsSql, RunArgs, Confirmed
  <2> HIDE DEF b, fs, r, last
  <2>3. AreCalls(calls') /\ NewFits /\ OthersFly("none") /\ InFlight({"execute"})'
    BY <2>1, <2>2, SqlSends
  <2>4. view' = [view EXCEPT !.boxes = fs, !.executing = TRUE]
    BY <2>1 DEF SqlPageInv, SqlShape, SqlFields
  <2> QED
    BY <1>1, <1>3, <2>3, <2>4, BoxesChanged
<1> QED
  BY <1>5, <1>6

LEMMA ExecutionOver ==
  ASSUME SqlPageInv, NEW i \in DOMAIN calls, NEW ok \in BOOLEAN, Q!Executed(i, ok)
  PROVE  SqlPageInv'
<1> DEFINE f == calls[i].arg.file
           of == {"todo", "done", "batches"}
           c == view.covered \cup ({"todo", "done"} \cap {"todo", "done"})
<1>1. calls[i].op = "execute" /\ page' = page
  BY SqlConsole DEF Q!Executed, Q!Answer
<1>2. f \in Files \cup {None}
  <2>1. Flying("execute", calls[i].arg, calls)
    BY <1>1 DEF Flying
  <2> QED
    BY <2>1 DEF SqlPageInv, SqlCalls, RunArgs
<1>3. /\ view.boxes \in Seq(Q!Boxes) /\ BoxedSoFar(view.boxes, view.force)
      /\ view.executing \in BOOLEAN
  BY DEF SqlPageInv, SqlShape, RunsConfirmed
<1>4. CASE ~ok
  <2>1. Reply(i, <<>>) /\ view' = [view EXCEPT !.executing = FALSE]
    BY <1>4, SqlConsole DEF Q!Executed
  <2>2. AreCalls(calls') /\ OthersFly("execute") /\ NewFits
    BY <1>1, <2>1, SqlRepliesNone
  <2>3. view' = [view EXCEPT !.boxes = view.boxes, !.executing = FALSE]
    BY <2>1 DEF SqlPageInv, SqlShape, SqlFields
  <2> QED
    BY <1>1, <1>3, <2>2, <2>3, BoxesChanged
<1>5. CASE ok
  <2>1. /\ Reply(i, <<Call("lists", [of |-> of, ends |-> "executing"])>>)
        /\ view' = [IF f = None THEN [view EXCEPT !.batch = TRUE] ELSE [view EXCEPT !.current = f]
                      EXCEPT !.covered = @ \cup ({"todo", "done"} \cap {"todo", "done"})]
    BY <1>5, SqlConsole DEF Q!Executed, Q!Cover, Q!loadLists
  <2>2. /\ AreCalls(calls') /\ OthersFly("execute") /\ NewFits
        /\ \A list \in of : Brings(list, calls')
        /\ EndsIn("executing", calls')
    BY <1>1, <2>1, ListsFollow
  <2>3. c \subseteq {"todo", "done"} /\ \A l \in c : l \in view.covered \/ l \in of
    BY DEF SqlPageInv, SqlShape
  <2>4. PICK g \in Files \cup {None}, b \in BOOLEAN :
          view' = [[view EXCEPT !.current = g, !.batch = b] EXCEPT !.covered = c]
    <3>1. CASE f = None
      <4>1. view' = [[view EXCEPT !.current = view.current, !.batch = TRUE] EXCEPT !.covered = c]
        BY <2>1, <3>1 DEF SqlPageInv, SqlShape, SqlFields
      <4> QED
        BY <4>1 DEF SqlPageInv, SqlShape
    <3>2. CASE f # None
      <4>1. view' = [[view EXCEPT !.current = f, !.batch = view.batch] EXCEPT !.covered = c]
        BY <2>1, <3>2 DEF SqlPageInv, SqlShape, SqlFields
      <4> QED
        BY <1>2, <4>1 DEF SqlPageInv, SqlShape
    <3> QED
      BY <3>1, <3>2
  <2> HIDE DEF f, of, c
  <2>5. /\ DOMAIN view' = DOMAIN view /\ view'.form = view.form /\ view'.current = g
        /\ view'.picked = view.picked /\ view'.batch = b
        /\ view'.force = view.force /\ view'.boxes = view.boxes /\ view'.covered = c
        /\ view'.parsing = view.parsing /\ view'.executing = view.executing
        /\ view'.importing = view.importing
        /\ view'.whitelist = view.whitelist /\ view'.calm = view.calm
    BY <2>4 DEF SqlPageInv, SqlShape, SqlFields
  <2>6. SqlShape'
    BY <2>3, <2>4, <2>5 DEF SqlPageInv, SqlShape
  <2>7. CoveredKept
    BY <2>2, <2>3, <2>5 DEF CoveredKept
  <2>8. ExecutingKept("execute") /\ BoxedSoFar(view'.boxes, view'.force)
    BY <1>3, <2>2, <2>5 DEF ExecutingKept
  <2> QED
    BY <1>1, <2>2, <2>5, <2>6, <2>7, <2>8, ExecutingStep
<1> QED
  BY <1>4, <1>5

-----------------------------------------------------------------------------
(* The three views together *)

LEMMA OneSqlPage ==
  ASSUME SqlPageInv' \/ DepsPageInv' \/ InstancePageInv' PROVE SqlInv'
<1>1. /\ SqlPageInv' => page' = "Sql"
      /\ DepsPageInv' => page' = "ViewDeps"
      /\ InstancePageInv' => page' = "Instance"
  BY DEF SqlPageInv, DepsPageInv, InstancePageInv
<1> QED
  BY <1>1 DEF SqlInv

LEMMA OutsideSql ==
  ASSUME page' \notin Q!Views PROVE SqlInv'
  BY DEF Q!Views, SqlInv

LEMMA SqlEntered ==
  ASSUME Q!SqlConstants, Q!Enter PROVE SqlInv'
  BY SqlMounted, DepsMounted, InstanceMounted, OneSqlPage DEF Q!Enter

LEMMA SqlUnchanged ==
  ASSUME SqlInv, UNCHANGED console PROVE SqlInv'
<1>1. UNCHANGED <<page, view, calls, world>>
  BY DEF console
<1>2. CASE page = "Sql"
  <2>1. SqlPageInv
    BY <1>2 DEF SqlInv
  <2>2. SqlShape' /\ SqlCalls' /\ SqlBusy'
    BY <1>1, <2>1 DEF SqlPageInv, SqlShape, SqlCalls, SqlBusy, InFlight
  <2>3. RunsConfirmed' /\ WhitelistKnown'
    BY <1>1, <2>1 DEF SqlPageInv, RunsConfirmed, WhitelistKnown, InFlight
  <2> QED
    BY <1>1, <1>2, <2>2, <2>3, OneSqlPage DEF SqlPageInv
<1>3. CASE page = "ViewDeps"
  <2>1. DepsPageInv
    BY <1>3 DEF SqlInv
  <2>2. DepsShape' /\ DepsBusy' /\ StatusKnown'
    BY <1>1, <2>1 DEF DepsPageInv, DepsShape, DepsBusy, StatusKnown, InFlight
  <2>3. DepsCalls'
    BY <1>1, <2>1, DepsCallsKept DEF DepsPageInv, DepsCalls
  <2> QED
    BY <1>1, <1>3, <2>2, <2>3, OneSqlPage DEF DepsPageInv
<1>4. CASE page = "Instance"
  BY <1>1, <1>4 DEF SqlInv, InstancePageInv, InFlight
<1>5. CASE page \notin Q!Views
  BY <1>1, <1>5, OutsideSql
<1> QED
  BY <1>2, <1>3, <1>4, <1>5 DEF Q!Views

LEMMA SqlFormMoves ==
  ASSUME Q!SqlConstants, SqlInv,
         \/ \E list : Q!TurnPage(list)
         \/ Q!OpenWhitelist \/ Q!EditWhitelist \/ Q!CloseWhitelist
         \/ Q!handleSaveSQLForceWhitelist
         \/ \E files \in Uploads : Q!handleFileChange(files)
         \/ Q!ToggleForce \/ Q!handleParse \/ Q!handleImportServerSQL
         \/ \E f \in Files : Q!Type(f)
  PROVE  SqlInv'
<1>1. page = "Sql"
  BY DEF Q!TurnPage, Q!OpenWhitelist, Q!EditWhitelist, Q!CloseWhitelist,
         Q!handleSaveSQLForceWhitelist, Q!handleFileChange, Q!ToggleForce, Q!handleParse,
         Q!handleImportServerSQL, Q!Type, Q!Free, Q!On
<1>2. SqlPageInv
  BY <1>1 DEF SqlInv
<1> QED
  BY <1>2, PageTurned, WhitelistEdited, WhitelistSent, FilesChosen, ForceToggled, ParseAsked,
     ImportAsked, Typed, OneSqlPage

LEMMA SqlRunMoves ==
  ASSUME Q!SqlConstants, SqlInv,
         \/ Q!handleExecuteContent \/ Q!ConfirmForce \/ Q!ConfirmWarn \/ Q!Dismiss
         \/ Q!handleExecuteBatch \/ Q!ConfirmBatch
         \/ Q!handleCancel \/ Q!handleOpenBatch \/ Q!handleSkipStatement
         \/ \E f \in Files :
               \/ Q!handleOpen(f)
               \/ \E link \in BOOLEAN : Q!handleExecuteFile(f, link)
               \/ \E kind \in {"skipFile", "deleteFile"} : Q!AskFile(kind, f)
         \/ \E kind \in {"skipFile", "deleteFile"} : Q!ConfirmFile(kind)
  PROVE  SqlInv'
<1>1. page = "Sql"
  BY DEF Q!handleExecuteContent, Q!ConfirmForce, Q!ConfirmWarn, Q!Dismiss,
         Q!handleExecuteBatch, Q!ConfirmBatch, Q!handleCancel, Q!handleOpenBatch,
         Q!handleSkipStatement, Q!handleOpen, Q!handleExecuteFile, Q!AskFile, Q!ConfirmFile,
         Q!Asked, Q!Free, Q!On
<1>2. SqlPageInv
  BY <1>1 DEF SqlInv
<1>3. CASE \/ Q!handleExecuteContent \/ Q!ConfirmForce \/ Q!ConfirmWarn \/ Q!Dismiss
           \/ \E f \in Files : \E link \in BOOLEAN : Q!handleExecuteFile(f, link)
  BY <1>2, <1>3, ExecutionAsked, ForceConfirmed, WarnConfirmed, BoxDismissed, OneSqlPage
<1>4. CASE \/ Q!handleExecuteBatch \/ Q!ConfirmBatch
           \/ \E kind \in {"skipFile", "deleteFile"} : \E f \in Files : Q!AskFile(kind, f)
           \/ \E kind \in {"skipFile", "deleteFile"} : Q!ConfirmFile(kind)
  BY <1>2, <1>4, OtherBoxShown, BatchConfirmed, FileConfirmed, OneSqlPage
<1>5. CASE \/ Q!handleCancel \/ Q!handleOpenBatch \/ Q!handleSkipStatement
           \/ \E f \in Files : Q!handleOpen(f)
  BY <1>2, <1>5, SqlOpened, OneSqlPage
<1> QED
  BY <1>3, <1>4, <1>5

LEMMA SqlAnswers ==
  ASSUME Q!SqlConstants, SqlInv, NEW i \in DOMAIN calls, NEW ok \in BOOLEAN,
         \/ Q!ListsArrive(i) \/ Q!WhitelistArrives(i, ok) \/ Q!WhitelistSaved(i, ok)
         \/ Q!Parsed(i, ok) \/ Q!handleParseBatch(i, ok) \/ Q!buildConfirmedOptions(i, ok)
         \/ Q!Executed(i, ok) \/ Q!Opened(i, ok) \/ Q!BatchAnswered(i, ok)
         \/ Q!FileTouched(i, ok) \/ Q!StatementSkipped(i, ok)
  PROVE  SqlInv'
<1>1. page = "Sql"
  BY DEF Q!ListsArrive, Q!WhitelistArrives, Q!WhitelistSaved, Q!Parsed, Q!handleParseBatch,
         Q!buildConfirmedOptions, Q!Executed, Q!Opened, Q!BatchAnswered, Q!FileTouched,
         Q!StatementSkipped, Q!On
<1>2. SqlPageInv
  BY <1>1 DEF SqlInv
<1> QED
  BY <1>2, SqlListed, WhitelistShown, SavedWhitelist, ParseShown, OptionsBuilt, ExecutionOver,
     SqlReopened, BatchShown, TouchedFile, SkippedStatement, OneSqlPage

LEMMA DepsMoves ==
  ASSUME Q!SqlConstants, SqlInv,
         \/ Q!ReloadTasks \/ Q!handleCreateTask \/ Q!handleExportPlan
         \/ \E t \in Tasks : Q!handleOpenTask(t) \/ Q!OperationEnds(t)
         \/ \E op \in Q!Operations : Q!operate(op)
  PROVE  SqlInv'
<1>1. page = "ViewDeps"
  BY DEF Q!ReloadTasks, Q!handleCreateTask, Q!handleExportPlan, Q!handleOpenTask,
         Q!OperationEnds, Q!operate, Q!Can, Q!On
<1>2. DepsPageInv
  BY <1>1 DEF SqlInv
<1> QED
  BY <1>2, DepsAsked, DepsClicked, PlanSent, OperationOver, OperationSent, OneSqlPage

LEMMA DepsAnswers ==
  ASSUME Q!SqlConstants, SqlInv, NEW i \in DOMAIN calls, NEW ok \in BOOLEAN,
         \/ Q!TasksArrive(i) \/ Q!OperationTimesOut(i) \/ Q!TaskCreated(i, ok)
         \/ Q!TaskOpened(i, ok) \/ Q!OperationAnswered(i, ok) \/ Q!refreshCurrentTask(i, ok)
         \/ Q!PlanArrives(i, ok)
  PROVE  SqlInv'
<1>1. page = "ViewDeps"
  BY DEF Q!TasksArrive, Q!OperationTimesOut, Q!TaskCreated, Q!TaskOpened,
         Q!OperationAnswered, Q!refreshCurrentTask, Q!PlanArrives, Q!On
<1>2. DepsPageInv
  BY <1>1 DEF SqlInv
<1> QED
  BY <1>2, TasksListed, OperationLate, TaskMade, TaskShown, OperationOutcome, TaskRefreshed,
     PlanShown, OneSqlPage

LEMMA InstanceMoves ==
  ASSUME SqlInv, Q!loadInstance \/ \E i \in DOMAIN calls : Q!InstanceArrives(i)
  PROVE  SqlInv'
<1>1. page = "Instance"
  BY DEF Q!loadInstance, Q!InstanceArrives, Q!On
<1>2. InstancePageInv
  BY <1>1 DEF SqlInv
<1> QED
  BY <1>2, InstanceAsked, OneSqlPage

LEMMA SqlVisit ==
  ASSUME Q!SqlConstants, SqlInv, [Q!Enter \/ Q!Leave \/ Q!Next]_console PROVE SqlInv'
<1>1. CASE Q!Enter
  BY <1>1, SqlEntered
<1>2. CASE Q!Leave
  <2>1. page' = None
    BY <1>2 DEF Q!Leave, Q!LeaveWith
  <2>2. None \notin Q!Views
    BY DEF Q!SqlConstants
  <2> QED
    BY <2>1, <2>2, OutsideSql
<1>3. CASE Q!UserActs
  <2>1. \/ \E list : Q!TurnPage(list)
        \/ Q!OpenWhitelist \/ Q!EditWhitelist \/ Q!CloseWhitelist
        \/ Q!handleSaveSQLForceWhitelist
        \/ \E files \in Uploads : Q!handleFileChange(files)
        \/ Q!ToggleForce \/ Q!handleParse \/ Q!handleImportServerSQL
        \/ \E f \in Files : Q!Type(f)
        \/ Q!handleExecuteContent \/ Q!ConfirmForce \/ Q!ConfirmWarn \/ Q!Dismiss
        \/ Q!handleExecuteBatch \/ Q!ConfirmBatch
        \/ Q!handleCancel \/ Q!handleOpenBatch \/ Q!handleSkipStatement
        \/ \E f \in Files :
              \/ Q!handleOpen(f)
              \/ \E link \in BOOLEAN : Q!handleExecuteFile(f, link)
              \/ \E kind \in {"skipFile", "deleteFile"} : Q!AskFile(kind, f)
        \/ \E kind \in {"skipFile", "deleteFile"} : Q!ConfirmFile(kind)
        \/ Q!ReloadTasks \/ Q!handleCreateTask \/ Q!handleExportPlan
        \/ \E t \in Tasks : Q!handleOpenTask(t)
        \/ \E op \in Q!Operations : Q!operate(op)
        \/ Q!loadInstance
    BY <1>3 DEF Q!UserActs
  <2> QED
    BY <2>1, SqlFormMoves, SqlRunMoves, DepsMoves, InstanceMoves
<1>4. CASE Q!Arrivals
  <2>1. ASSUME NEW i \in DOMAIN calls, NEW ok \in BOOLEAN,
               \/ Q!WhitelistArrives(i, ok) \/ Q!WhitelistSaved(i, ok) \/ Q!Parsed(i, ok)
               \/ Q!handleParseBatch(i, ok) \/ Q!buildConfirmedOptions(i, ok)
               \/ Q!Executed(i, ok) \/ Q!Opened(i, ok) \/ Q!BatchAnswered(i, ok)
               \/ Q!FileTouched(i, ok) \/ Q!StatementSkipped(i, ok) \/ Q!TaskCreated(i, ok)
               \/ Q!TaskOpened(i, ok) \/ Q!OperationAnswered(i, ok)
               \/ Q!refreshCurrentTask(i, ok) \/ Q!PlanArrives(i, ok)
        PROVE  SqlInv'
    BY <2>1, SqlAnswers, DepsAnswers
  <2>2. ASSUME NEW i \in DOMAIN calls,
               \/ Q!ListsArrive(i) \/ Q!TasksArrive(i) \/ Q!OperationTimesOut(i)
               \/ Q!InstanceArrives(i)
        PROVE  SqlInv'
    BY <2>2, SqlAnswers, DepsAnswers, InstanceMoves
  <2>3. CASE \E t \in Tasks : Q!OperationEnds(t)
    BY <2>3, DepsMoves
  <2> QED
    BY <1>4, <2>1, <2>2, <2>3 DEF Q!Arrivals
<1>5. CASE UNCHANGED console
  BY <1>5, SqlUnchanged
<1> QED
  BY <1>1, <1>2, <1>3, <1>4, <1>5 DEF Q!Next

-----------------------------------------------------------------------------
(* What the views of SQL changes promise *)

LEMMA SqlTypes ==
  ASSUME SqlInv PROVE Q!TypeOK
<1>1. CASE page = "Sql"
  <2>1. SqlShape
    BY <1>1 DEF SqlInv, SqlPageInv
  <2> QED
    BY <1>1, <2>1 DEF Q!TypeOK, Q!On, SqlShape, WhitelistType
<1>2. CASE page = "ViewDeps"
  <2>1. DepsShape
    BY <1>2 DEF SqlInv, DepsPageInv
  <2> QED
    BY <1>2, <2>1 DEF Q!TypeOK, Q!On, DepsShape
<1>3. CASE page = "Instance"
  BY <1>3 DEF SqlInv, InstancePageInv, Q!TypeOK, Q!On
<1>4. CASE page \notin Q!Views
  BY <1>4 DEF Q!TypeOK, Q!On, Q!Views
<1> QED
  BY <1>1, <1>2, <1>3, <1>4 DEF Q!Views

LEMMA SqlBusyEnds ==
  ASSUME SqlInv PROVE Q!BusyEnds
<1>1. CASE page = "Sql"
  <2>1. SqlBusy
    BY <1>1 DEF SqlInv, SqlPageInv
  <2>2. /\ \A flag : EndsIn(flag, calls) <=> Q!Ends(flag)
        /\ \A list : Brings(list, calls) <=> \E i \in Q!Indices("lists") : list \in calls[i].arg.of
    BY DEF EndsIn, Brings, Flying, Q!Ends, Q!Indices
  <2>3. /\ \A list \in view.covered : \E i \in Q!Indices("lists") : list \in calls[i].arg.of
        /\ view.importing => InFlight({"import"}) \/ Q!Ends("importing")
        /\ view.whitelist.saving => InFlight({"putWhitelist"})
    BY <2>1, <2>2 DEF SqlBusy
  <2>4. view.parsing => InFlight({"parse", "parseBatch"}) \/ Q!Ends("parsing")
    <3>1. InFlight({"parse"}) \/ InFlight({"parseBatch"}) => InFlight({"parse", "parseBatch"})
      BY DEF InFlight
    <3> QED
      BY <2>1, <2>2, <3>1 DEF SqlBusy
  <2>5. view.executing => \/ InFlight({"statements", "execute"}) \/ Q!Ends("executing")
                          \/ \E k \in DOMAIN view.boxes :
                                view.boxes[k].kind \in {"force", "warn"}
    <3>1. InFlight({"statements"}) \/ InFlight({"execute"}) => InFlight({"statements", "execute"})
      BY DEF InFlight
    <3> QED
      BY <2>1, <2>2, <3>1 DEF SqlBusy, Confirming
  <2> QED
    BY <1>1, <2>3, <2>4, <2>5, SqlConsole DEF Q!BusyEnds, Q!On
<1>2. CASE page = "ViewDeps"
  <2>1. DepsBusy
    BY <1>2 DEF SqlInv, DepsPageInv
  <2>2. ASSUME NEW op, UnderWay(op, calls)
        PROVE  \E i \in DOMAIN calls :
                 CASE calls[i].op \in {"operate", "refresh"} -> calls[i].arg.op = op
                   [] calls[i].op = "tasks" -> calls[i].arg = op
                   [] calls[i].op = "plan" -> op = "export"
                   [] OTHER -> FALSE
    <3>1. PICK i \in DOMAIN calls :
            \/ calls[i].op \in {"operate", "refresh"} /\ calls[i].arg.op = op
            \/ calls[i].op = "tasks" /\ calls[i].arg = op
            \/ calls[i].op = "plan" /\ op = "export"
      BY <2>2 DEF UnderWay, Flying
    <3> QED
      BY <3>1
  <2> QED
    BY <1>2, <2>1, <2>2, SqlConsole DEF Q!BusyEnds, Q!On, DepsBusy
<1>3. CASE page = "Instance"
  BY <1>3, SqlConsole DEF SqlInv, InstancePageInv, Q!BusyEnds, Q!On
<1>4. CASE page \notin Q!Views
  BY <1>4 DEF Q!BusyEnds, Q!On, Q!Views
<1> QED
  BY <1>1, <1>2, <1>3, <1>4 DEF Q!Views

LEMMA SqlPromises ==
  ASSUME SqlInv
  PROVE  /\ Q!TypeOK /\ Q!BusyEnds /\ Q!RunsAsConfirmed /\ Q!WritesOwnSubject
         /\ Q!StatusIsServed
<1>1. Q!RunsAsConfirmed
  <2> SUFFICES ASSUME page = "Sql", NEW i \in DOMAIN calls, calls[i].op = "execute"
               PROVE  Confirmed(calls[i].arg)
    BY DEF Q!RunsAsConfirmed, Q!On, Q!Indices, Confirmed
  <2>1. Flying("execute", calls[i].arg, calls)
    BY DEF Flying
  <2> QED
    BY <2>1 DEF SqlInv, SqlPageInv, RunsConfirmed
<1>2. Q!WritesOwnSubject
  <2> SUFFICES ASSUME page = "Sql", view.calm, NEW i \in DOMAIN calls,
                      calls[i].op = "putWhitelist"
               PROVE  calls[i].arg.early \/ calls[i].arg.list # "empty"
    BY DEF Q!WritesOwnSubject, Q!On, Q!Indices
  <2>1. Flying("putWhitelist", calls[i].arg, calls)
    BY DEF Flying
  <2> QED
    BY <2>1 DEF SqlInv, SqlPageInv, WhitelistKnown
<1>3. Q!StatusIsServed
  <2> SUFFICES ASSUME page = "ViewDeps", view.calm, view.current # None,
                      ~InFlight({"operate", "refresh", "openTask"})
               PROVE  view.status = world[view.current] /\ view.plan \in {None, view.current}
    BY SqlConsole DEF Q!StatusIsServed, Q!On
  <2>1. ~InFlight({"refresh"})
    BY DEF InFlight
  <2> QED
    BY <2>1 DEF SqlInv, DepsPageInv, StatusKnown
<1> QED
  BY <1>1, <1>2, <1>3, SqlTypes, SqlBusyEnds

\* The views of SQL changes alone.
SqlVisits == Init /\ [][Q!Enter \/ Q!Leave \/ Q!Next]_console

LEMMA SqlInvariant ==
  ASSUME Q!SqlConstants PROVE SqlVisits => []SqlInv
<1>1. Init => SqlInv
  <2>1. None \notin Q!Views
    BY DEF Q!SqlConstants
  <2> QED
    BY <2>1 DEF Init, SqlInv, Q!Views
<1>2. SqlInv /\ [Q!Enter \/ Q!Leave \/ Q!Next]_console => SqlInv'
  BY SqlVisit
<1> QED
  BY <1>1, <1>2, PTL DEF SqlVisits

\* Blocked statements are forced, and statements with a warning run, only after a box
\* said so of that very file, and a batch is forced only after its second box, whatever
\* was typed, toggled, run or answered meanwhile: the box blocks the switch while it is
\* shown, and the options sent are those it was shown for.
THEOREM RunsWereConfirmed ==
  ASSUME Q!SqlConstants
  PROVE  SqlVisits => []Q!RunsAsConfirmed
  BY SqlInvariant, SqlPromises, PTL

\* When nothing is in flight the status shown of a task is the server's and the plan shown
\* is that task's, after failures and time-outs too: each of them asks for the status, and
\* an operation stays under way until that question and the list after it are answered.
THEOREM TaskStatusIsServed ==
  ASSUME Q!SqlConstants
  PROVE  SqlVisits => []Q!StatusIsServed
  BY SqlInvariant, SqlPromises, PTL

\* The whitelist of forced statements is replaced by one made from the server's, unless it
\* was saved before that came or after it failed to come.
THEOREM WhitelistFromServer ==
  ASSUME Q!SqlConstants
  PROVE  SqlVisits => []Q!WritesOwnSubject
  BY SqlInvariant, SqlPromises, PTL

\* No overlay, spinner or operation of the views of SQL changes goes on without a call in
\* flight that will end it, or a box whose answer does.
THEOREM SqlNeverStuck ==
  ASSUME Q!SqlConstants
  PROVE  SqlVisits => []Q!BusyEnds
  BY SqlInvariant, SqlPromises, PTL
=============================================================================
