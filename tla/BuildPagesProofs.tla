--------------------------- MODULE BuildPagesProofs ---------------------------
(***************************************************************************)
(* Theorems about the views of the build side, of the artifacts and of     *)
(* deployment, for every list of tasks, filters, stages, batches, jobs,    *)
(* tables, versions and components, every number of clicks and calls in    *)
(* flight and every order of the answers.                                  *)
(***************************************************************************)
EXTENDS BuildPages, ConsoleProofs

\* One visit of a view of the build side after the other.
Visits == Init /\ [][Enter \/ Leave \/ Next]_console

-----------------------------------------------------------------------------
(* The pipelines of a batch *)

\* What pipelineIds makes of a list it has and the next record.
Listed(ids, p) == IF p \in {None} \cup Range(ids) THEN ids ELSE Append(ids, p)

LEMMA RangeAppended ==
  ASSUME NEW S, NEW s \in Seq(S), NEW p \in S
  PROVE  Append(s, p) \in Seq(S) /\ Range(Append(s, p)) = Range(s) \cup {p}
<1>1. /\ Append(s, p) \in Seq(S) /\ Len(Append(s, p)) = Len(s) + 1
      /\ Len(s) \in Nat /\ DOMAIN s = 1..Len(s)
      /\ DOMAIN Append(s, p) = 1..(Len(s) + 1)
      /\ \A j \in 1..Len(s) : Append(s, p)[j] = s[j]
      /\ Append(s, p)[Len(s) + 1] = p
  OBVIOUS
<1>2. \A j \in 1..(Len(s) + 1) : j \in 1..Len(s) \/ j = Len(s) + 1
  BY <1>1
<1>3. Len(s) + 1 \in 1..(Len(s) + 1) /\ \A j \in 1..Len(s) : j \in 1..(Len(s) + 1)
  BY <1>1
<1> HIDE DEF Range
<1>4. Range(Append(s, p)) = {Append(s, p)[j] : j \in 1..(Len(s) + 1)}
  BY <1>1 DEF Range
<1>5. Range(s) = {s[j] : j \in 1..Len(s)}
  BY <1>1 DEF Range
<1> QED
  BY <1>1, <1>2, <1>3, <1>4, <1>5

\* Its recursion is that of a function.
LEMMA ListsExist ==
  ASSUME NEW S, NEW records \in Seq(S), NEW n \in 0 .. Len(records)
  PROVE  \E f \in [0 .. n -> Seq(S)] :
            f[0] = <<>> /\ \A k \in 1 .. n : f[k] = Listed(f[k - 1], records[k])
<1> DEFINE Made(m) == \E f \in [0 .. m -> Seq(S)] :
                        f[0] = <<>> /\ \A k \in 1 .. m : f[k] = Listed(f[k - 1], records[k])
           T == {m \in 0 .. Len(records) : ~Made(m)}
<1>0. Len(records) \in Nat /\ \A k \in 1..Len(records) : records[k] \in S
  OBVIOUS
<1>1. T = {}
  <2> SUFFICES ASSUME T # {} PROVE FALSE
    OBVIOUS
  <2>1. PICK m \in T : \A j \in T : ~(j < m)
    <3>1. T \subseteq Nat
      BY <1>0
    <3> HIDE DEF T
    <3> QED
      BY <3>1, LeastNumber
  <2>2. m \in 0 .. Len(records) /\ ~Made(m)
    OBVIOUS
  <2>3. CASE m = 0
    <3> DEFINE f == [k \in 0 .. 0 |-> <<>>]
    <3>1. f \in [0 .. 0 -> Seq(S)] /\ f[0] = <<>> /\ 1 .. 0 = {}
      OBVIOUS
    <3> HIDE DEF f
    <3> QED
      BY <2>2, <2>3, <3>1
  <2>4. CASE m # 0
    <3>1. m - 1 \in 0 .. Len(records) /\ m - 1 < m /\ m \in 1 .. Len(records) /\ m \in Nat
      BY <1>0, <2>2, <2>4
    <3>2. Made(m - 1)
      BY <2>1, <3>1
    <3>3. PICK g \in [0 .. (m - 1) -> Seq(S)] :
             g[0] = <<>> /\ \A k \in 1 .. (m - 1) : g[k] = Listed(g[k - 1], records[k])
      BY <3>2
    <3> DEFINE new == Listed(g[m - 1], records[m])
               f == [k \in 0 .. m |-> IF k < m THEN g[k] ELSE new]
    <3>4. new \in Seq(S)
      <4>1. g[m - 1] \in Seq(S) /\ records[m] \in S
        BY <1>0, <3>1, <3>3
      <4> QED
        BY <4>1, RangeAppended DEF Listed
    <3> HIDE DEF new
    <3>5. f \in [0 .. m -> Seq(S)] /\ f[0] = g[0] /\ f[m] = new
          /\ \A k \in 0 .. (m - 1) : f[k] = g[k]
      BY <3>1, <3>3, <3>4
    <3> HIDE DEF f
    <3>6. \A k \in 1 .. m : f[k] = Listed(f[k - 1], records[k])
      <4> TAKE k \in 1 .. m
      <4>1. k - 1 \in 0 .. (m - 1)
        BY <3>1
      <4>2. CASE k = m
        BY <3>5, <4>1, <4>2 DEF new
      <4>3. CASE k # m
        <5>1. k \in 1 .. (m - 1) /\ k \in 0 .. (m - 1)
          BY <3>1, <4>3
        <5> QED
          BY <3>3, <3>5, <4>1, <5>1
      <4> QED
        BY <4>2, <4>3
    <3>7. Made(m)
      BY <3>3, <3>5, <3>6
    <3> QED
      BY <2>2, <3>7
  <2> QED
    BY <2>3, <2>4
<1> QED
  BY <1>1

\* A batch's list names each pipeline of its records, and nothing else.
LEMMA EachListed ==
  ASSUME NEW S, NEW records \in Seq(S)
  PROVE  /\ pipelineIds(records) \in Seq(S \ {None})
         /\ Range(pipelineIds(records)) = Range(records) \ {None}
<1> DEFINE N == Len(records)
           E(f) == f = [k \in 0 .. N |->
                     IF k = 0 THEN <<>>
                     ELSE IF records[k] \in {None} \cup Range(f[k - 1]) THEN f[k - 1]
                     ELSE Append(f[k - 1], records[k])]
           ids == CHOOSE f : E(f)
<1>0. /\ N \in Nat /\ DOMAIN records = 1 .. N /\ \A k \in 1..N : records[k] \in S
      /\ N = Len(records) /\ 0 \in 0 .. N /\ N \in 0 .. N
      /\ \A k \in 1 .. N : k \in 0 .. N /\ k # 0
      /\ \A k \in 0 .. N : k = 0 \/ k \in 1 .. N
  OBVIOUS
<1> HIDE DEF N
<1>1. \E f : E(f)
  <2>1. PICK f \in [0 .. N -> Seq(S)] :
          f[0] = <<>> /\ \A k \in 1 .. N : f[k] = Listed(f[k - 1], records[k])
    <3>1. N \in 0 .. Len(records)
      BY <1>0
    <3> QED
      BY <3>1, ListsExist, Zenon
  <2>2. \A k \in 0 .. N : f[k] = IF k = 0 THEN <<>>
                                 ELSE IF records[k] \in {None} \cup Range(f[k - 1]) THEN f[k - 1]
                                 ELSE Append(f[k - 1], records[k])
    BY <1>0, <2>1 DEF Listed
  <2>3. E(f)
    BY <2>1, <2>2
  <2> QED
    BY <2>3
<1>2. E(ids)
  BY <1>1
<1>3. pipelineIds(records) = ids[N]
  BY DEF pipelineIds, N
<1> HIDE DEF ids
<1>4. ids[0] = <<>> /\ \A k \in 1 .. N : ids[k] = Listed(ids[k - 1], records[k])
  BY <1>0, <1>2 DEF Listed
<1> HIDE DEF E
<1> DEFINE Good(k) == /\ ids[k] \in Seq(S \ {None})
                      /\ Range(ids[k]) = {records[j] : j \in 1 .. k} \ {None}
           T == {k \in 0 .. N : ~Good(k)}
<1>5. T = {}
  <2> SUFFICES ASSUME T # {} PROVE FALSE
    OBVIOUS
  <2>1. PICK m \in T : \A j \in T : ~(j < m)
    <3>1. T \subseteq Nat
      BY <1>0
    <3> HIDE DEF T
    <3> QED
      BY <3>1, LeastNumber
  <2>2. m \in 0 .. N /\ ~Good(m)
    OBVIOUS
  <2>3. CASE m = 0
    <3>1. <<>> \in Seq(S \ {None}) /\ Range(<<>>) = {} /\ 1 .. 0 = {}
      BY DEF Range
    <3> QED
      BY <1>4, <2>2, <2>3, <3>1
  <2>4. CASE m # 0
    <3>1. m - 1 \in 0 .. N /\ m - 1 < m /\ m \in 1 .. N /\ m \in Nat
      BY <1>0, <2>2, <2>4
    <3>2. Good(m - 1)
      BY <2>1, <3>1
    <3>3. {records[j] : j \in 1 .. m} = {records[j] : j \in 1 .. (m - 1)} \cup {records[m]}
      <4>1. \A j \in 1 .. m : j \in 1 .. (m - 1) \/ j = m
        BY <3>1
      <4>2. m \in 1 .. m /\ \A j \in 1 .. (m - 1) : j \in 1 .. m
        BY <3>1
      <4> QED
        BY <4>1, <4>2
    <3>4. ids[m] = Listed(ids[m - 1], records[m]) /\ records[m] \in S
      BY <1>0, <1>4, <3>1
    <3> HIDE DEF T
    <3>5. Good(m)
      <4>1. CASE records[m] \in {None} \cup Range(ids[m - 1])
        BY <3>2, <3>3, <3>4, <4>1 DEF Listed
      <4>2. CASE records[m] \notin {None} \cup Range(ids[m - 1])
        <5>1. ids[m] = Append(ids[m - 1], records[m]) /\ records[m] \in S \ {None}
          BY <3>4, <4>2 DEF Listed
        <5>2. Range(ids[m]) = Range(ids[m - 1]) \cup {records[m]} /\ ids[m] \in Seq(S \ {None})
          BY <3>2, <5>1, RangeAppended
        <5> QED
          BY <3>2, <3>3, <5>1, <5>2
      <4> QED
        BY <4>1, <4>2
    <3> QED
      BY <2>2, <3>5
  <2> QED
    BY <2>3, <2>4
<1>6. Good(N)
  <2>1. N \notin T
    BY <1>5
  <2> QED
    BY <1>0, <2>1
<1>7. Range(records) = {records[j] : j \in 1 .. N}
  BY <1>0 DEF Range
<1> QED
  BY <1>3, <1>6, <1>7

\* Each pipeline of a batch's records is listed, and nothing else.
RecordsListed ==
  \A b \in Batches : /\ pipelineIds(RecordsOf[b]) \in Seq(Ready)
                     /\ Range(pipelineIds(RecordsOf[b])) = Range(RecordsOf[b]) \ {None}

LEMMA ListsAreListed ==
  ASSUME RecordsAreLists PROVE RecordsListed
<1> SUFFICES ASSUME NEW b \in Batches
             PROVE  /\ pipelineIds(RecordsOf[b]) \in Seq(Ready)
                    /\ Range(pipelineIds(RecordsOf[b])) = Range(RecordsOf[b]) \ {None}
  BY DEF RecordsListed
<1> DEFINE ids == pipelineIds(RecordsOf[b])
<1>1. RecordsOf[b] \in Seq(Range(RecordsOf[b]))
  BY DEF RecordsAreLists
<1>2. ids \in Seq(Range(RecordsOf[b]) \ {None}) /\ Range(ids) = Range(RecordsOf[b]) \ {None}
  BY <1>1, EachListed
<1>3. Range(ids) \subseteq Ready
  BY DEF Ready
<1> HIDE DEF ids
<1>4. ids \in Seq(Ready)
  BY <1>2, <1>3
<1> QED
  BY <1>2, <1>4 DEF ids

-----------------------------------------------------------------------------
(* Which steps a view leaves to the others. *)

LEMMA OffLists ==
  ASSUME ~List
  PROVE  /\ \A f : ~Search(f) /\ ~handlePageChange(f) /\ ~AskAbout(f) /\ ~AnswerBox(f)
         /\ \A t : ~handleSelectionChange(t) /\ ~handleEdit(t) /\ ~handleExecute(t)
         /\ ~handleBatchExecute /\ ~handleCreate /\ ~CloseDialog /\ ~Submit
         /\ \A i : ~SettingsArrive(i)
         /\ \A i, ok : ~loadAll(i, ok) /\ ~Submitted(i, ok) /\ ~Touched(i, ok)
<1>0. ~On("Tasks") /\ ~Row /\ ~Uncovered
  BY DEF List, On, Row, Uncovered
<1>1. \A f : ~Search(f) /\ ~handlePageChange(f) /\ ~AskAbout(f) /\ ~AnswerBox(f)
  BY <1>0 DEF Search, handlePageChange, AskAbout, AnswerBox
<1>2. \A t : ~handleSelectionChange(t) /\ ~handleEdit(t) /\ ~handleExecute(t)
  BY <1>0 DEF handleSelectionChange, handleEdit, handleExecute
<1>3. ~handleBatchExecute /\ ~handleCreate /\ ~CloseDialog /\ ~Submit
  BY <1>0 DEF handleBatchExecute, handleCreate, CloseDialog, Submit
<1>4. \A i : ~SettingsArrive(i)
  BY <1>0 DEF SettingsArrive
<1>5. \A i, ok : ~loadAll(i, ok) /\ ~Submitted(i, ok) /\ ~Touched(i, ok)
  BY <1>0 DEF loadAll, Submitted, Touched
<1> QED
  BY <1>1, <1>2, <1>3, <1>4, <1>5

LEMMA OffQueue ==
  ASSUME ~On("Queue")
  PROVE  /\ ~CloseDrawer /\ ~QueueTick
         /\ \A b : ~showBatchDetail(b) /\ ~AskQueue(b) /\ ~AnswerQueue(b)
         /\ \A i, ok : page # None => ~load(i, ok)
         /\ \A i, ok : ~DetailArrives(i, ok) /\ ~QueuedCanceled(i, ok)
         /\ \A i, ok : ~handleDeployBatch(i, ok) /\ ~DeployAnswered(i, ok)
<1>1. ~CloseDrawer /\ ~QueueTick
  BY DEF CloseDrawer, QueueTick
<1>2. \A b : ~showBatchDetail(b) /\ ~AskQueue(b) /\ ~AnswerQueue(b)
  BY DEF QueueRow, showBatchDetail, AskQueue, AnswerQueue
<1>3. \A i, ok : page # None => ~load(i, ok)
  BY DEF load
<1>4. \A i, ok : ~DetailArrives(i, ok) /\ ~QueuedCanceled(i, ok)
  BY DEF DetailArrives, QueuedCanceled
<1>5. \A i, ok : ~handleDeployBatch(i, ok) /\ ~DeployAnswered(i, ok)
  BY DEF handleDeployBatch, DeployAnswered
<1> QED
  BY <1>1, <1>2, <1>3, <1>4, <1>5

LEMMA OffPipeline ==
  ASSUME ~On("Pipeline")
  PROVE  /\ ~LogLine /\ ~ServerMoves /\ ~StreamDone /\ ~Poll
         /\ \A s : ~selectStage(s)
         /\ \A i, ok : page # None => ~FirstTaskArrives(i, ok) /\ ~FirstLogsArrive(i, ok)
         /\ \A i, ok : ~LogsArrive(i, ok) /\ ~refreshPipeline(i, ok)
<1>1. ~LogLine /\ ~ServerMoves /\ ~StreamDone /\ ~Poll
  BY DEF LogLine, ServerMoves, StreamDone, Poll
<1>2. \A s : ~selectStage(s)
  BY DEF selectStage
<1>3. \A i, ok : page # None => ~FirstTaskArrives(i, ok)
  BY DEF FirstTaskArrives
<1>4. \A i, ok : page # None => ~FirstLogsArrive(i, ok)
  BY DEF FirstLogsArrive
<1>5. \A i, ok : ~LogsArrive(i, ok) /\ ~refreshPipeline(i, ok)
  BY DEF LogsArrive, refreshPipeline
<1> QED
  BY <1>1, <1>2, <1>3, <1>4, <1>5

LEMMA OffDashboard ==
  ~On("Dashboard") => \A i, ok : ~DashboardArrives(i, ok)
BY DEF DashboardArrives

-----------------------------------------------------------------------------
(* TaskListView and ReleaseListView *)

ListFields == {"loading", "filter", "page", "rows", "selected", "dialog", "box", "calm"}

\* The dialog of a batch is open over the tasks it was opened for.
ListInv ==
  /\ AreCalls(calls) /\ DOMAIN view = ListFields
  /\ view.loading => InFlight({"list", "settings"})
  /\ view.calm /\ view.dialog # None /\ view.dialog.kind = "batch" =>
       view.dialog.tasks = view.selected
  /\ view.calm => \A a : Flying("submit", a, calls) => a.tasks = a.picked

LEMMA ListStep ==
  ASSUME List, ListInv, UserActs \/ Arrivals, NoneApart
  PROVE  page' = page /\ ListInv'
<1> USE DEF List, ListFields
<1>0. page # None /\ ~On("Queue") /\ ~On("Pipeline") /\ ~On("Dashboard")
  BY DEF NoneApart, Views, On
\* The overlay goes up with the call for the rows; the dialog stays as it is.
<1>1. ASSUME NEW refs, DOMAIN refs = ListFields, refs.dialog = view.dialog,
             refs.selected = view.selected, refs.calm = view.calm,
             view' = Covered(refs), Send(<<ListCall(refs)>>)
      PROVE  ListInv'
  <2>1. /\ DOMAIN view' = ListFields /\ view'.dialog = view.dialog
        /\ view'.selected = view.selected /\ view'.calm = view.calm
    BY <1>1 DEF Covered
  <2>2. /\ AreCalls(calls') /\ InFlight({"list", "settings"})'
        /\ \A a : Flying("submit", a, calls') => Flying("submit", a, calls)
    BY <1>1, SendOne DEF ListInv, ListCall
  <2> QED
    BY <2>1, <2>2 DEF ListInv
\* The rows and their overlay stay as they are, and no call is made.
<1>2. ASSUME view'.loading = view.loading, DOMAIN view' = ListFields, calls' = calls,
             view'.calm = view.calm,
             view'.dialog # None /\ view'.dialog.kind = "batch" /\ view.calm =>
               view'.dialog.tasks = view'.selected
      PROVE  ListInv'
  BY <1>2 DEF ListInv, InFlight
<1>3. CASE \E filter \in Filters \cup {None} : Search(filter)
  <2>1. PICK filter : Search(filter)
    BY <1>3
  <2> DEFINE refs == [view EXCEPT !.filter = filter,
                                  !.page = IF On("Tasks") \/ filter = None THEN 1 ELSE @]
  <2>2. page' = page /\ view' = Covered(refs) /\ Send(<<ListCall(refs)>>)
    BY <2>1 DEF Search, User
  <2>3. /\ DOMAIN refs = ListFields /\ refs.dialog = view.dialog
        /\ refs.selected = view.selected /\ refs.calm = view.calm
    BY DEF ListInv
  <2> QED
    BY <1>1, <2>2, <2>3
<1>4. CASE \E n \in Pages : handlePageChange(n)
  <2>1. PICK n : handlePageChange(n)
    BY <1>4
  <2> DEFINE refs == [view EXCEPT !.page = n]
  <2>2. page' = page /\ view' = Covered(refs) /\ Send(<<ListCall(refs)>>)
    BY <2>1 DEF handlePageChange, User
  <2>3. /\ DOMAIN refs = ListFields /\ refs.dialog = view.dialog
        /\ refs.selected = view.selected /\ refs.calm = view.calm
    BY DEF ListInv
  <2> QED
    BY <1>1, <2>2, <2>3
<1>5. CASE \/ \E t \in TaskIds : handleSelectionChange(t) \/ handleEdit(t) \/ handleExecute(t)
           \/ handleBatchExecute \/ handleCreate \/ CloseDialog
           \/ \E kind \in {"delete", "deploy"} : AskAbout(kind)
  <2>1. page' = page /\ calls' = calls
    BY <1>5 DEF handleSelectionChange, handleEdit, handleExecute, handleBatchExecute,
       handleCreate, CloseDialog, AskAbout, User
  <2>2. DOMAIN view' = ListFields /\ view'.loading = view.loading /\ view'.calm = view.calm
    BY <1>5 DEF ListInv, handleSelectionChange, handleEdit, handleExecute,
       handleBatchExecute, handleCreate, CloseDialog, AskAbout, Dialog
  <2>3. view'.dialog # None /\ view'.dialog.kind = "batch" /\ view.calm =>
          view'.dialog.tasks = view'.selected
    <3>1. CASE \E t \in TaskIds : handleSelectionChange(t)
      BY <3>1 DEF ListInv, handleSelectionChange, Row, Uncovered
    <3>2. CASE \/ \E t \in TaskIds : handleEdit(t) \/ handleExecute(t)
               \/ handleBatchExecute \/ handleCreate
      BY <3>2 DEF ListInv, handleEdit, handleExecute, handleBatchExecute, handleCreate, Dialog
    <3>3. CASE CloseDialog \/ \E kind \in {"delete", "deploy"} : AskAbout(kind)
      BY <3>3 DEF ListInv, CloseDialog, AskAbout
    <3> QED
      BY <1>5, <3>1, <3>2, <3>3
  <2> QED
    BY <1>2, <2>1, <2>2, <2>3
<1>6. CASE Submit
  <2> DEFINE d == view.dialog
             arg == [kind |-> d.kind, picked |-> d.tasks,
                     tasks |-> IF d.kind = "batch" THEN view.selected ELSE d.tasks]
  <2>1. page' = page /\ view' = view /\ Send(<<Call("submit", arg)>>) /\ d # None
    BY <1>6 DEF Submit, User
  <2>2. view.calm => arg.tasks = arg.picked
    BY <2>1 DEF ListInv
  <2> HIDE DEF arg
  <2>3. /\ AreCalls(calls')
        /\ \A a : Flying("submit", a, calls') => Flying("submit", a, calls) \/ a = arg
        /\ InFlight({"list", "settings"}) => InFlight({"list", "settings"})'
    BY <2>1, SendOne DEF ListInv
  <2> QED
    BY <2>1, <2>2, <2>3 DEF ListInv
<1>7. CASE \E yes \in BOOLEAN : AnswerBox(yes)
  <2>1. PICK yes \in BOOLEAN : AnswerBox(yes)
    BY <1>7
  <2>2. page' = page /\ view' = [view EXCEPT !.box = None]
    BY <2>1 DEF AnswerBox, User
  <2>3. Send(<<>>) \/ Send(<<Call("touch", view.box)>>)
    BY <2>1 DEF AnswerBox
  <2>4. /\ AreCalls(calls')
        /\ \A a : Flying("submit", a, calls') => Flying("submit", a, calls)
        /\ InFlight({"list", "settings"}) => InFlight({"list", "settings"})'
    BY <2>3, SendOne, SendNone DEF ListInv
  <2> QED
    BY <2>2, <2>4 DEF ListInv
\* Answers.
<1>8. ASSUME NEW i \in DOMAIN calls, SettingsArrive(i)
      PROVE  page' = page /\ ListInv'
  <2>1. page' = page /\ view' = Covered(view) /\ Reply(i, <<ListCall(view)>>)
    BY <1>8 DEF SettingsArrive, Answer
  <2>2. /\ AreCalls(calls') /\ InFlight({"list", "settings"})'
        /\ \A a : Flying("submit", a, calls') => Flying("submit", a, calls)
    BY <2>1, ReplyOne DEF ListInv, ListCall
  <2> QED
    BY <2>1, <2>2 DEF ListInv, Covered
<1>9. ASSUME NEW i \in DOMAIN calls, NEW ok \in BOOLEAN, loadAll(i, ok)
      PROVE  page' = page /\ ListInv'
  <2>1. /\ page' = page /\ Reply(i, <<>>)
        /\ view' = [view EXCEPT !.rows = IF ok THEN calls[i].arg ELSE None,
                                !.loading = FALSE, !.selected = {},
                                !.calm = @ /\ view.dialog = None]
    BY <1>9 DEF loadAll, Answer
  <2>2. AreCalls(calls') /\ \A a : Flying("submit", a, calls') => Flying("submit", a, calls)
    BY <2>1, ReplyNone DEF ListInv
  <2>3. /\ DOMAIN view' = ListFields /\ view'.loading = FALSE /\ view'.dialog = view.dialog
        /\ view'.calm => view.calm /\ view.dialog = None
    BY <2>1 DEF ListInv
  <2> QED
    BY <2>1, <2>2, <2>3 DEF ListInv
<1>10. ASSUME NEW i \in DOMAIN calls, NEW ok \in BOOLEAN, Submitted(i, ok) \/ Touched(i, ok)
       PROVE  page' = page /\ ListInv'
  <2>1. PICK reloads \in BOOLEAN :
          /\ page' = page /\ calls[i].op \in {"submit", "touch"}
          /\ DOMAIN view' = ListFields /\ view'.loading = (view.loading \/ reloads)
          /\ view'.selected = view.selected /\ view'.calm = view.calm
          /\ view'.dialog \in {None, view.dialog}
          /\ Reply(i, IF reloads THEN <<ListCall(view)>> ELSE <<>>)
    <3>1. CASE Submitted(i, ok)
      BY <3>1 DEF ListInv, Submitted, Answer, Indices
    <3>2. CASE Touched(i, ok)
      BY <3>2 DEF ListInv, Touched, Answer, Indices
    <3> QED
      BY <1>10, <3>1, <3>2
  <2>2. /\ AreCalls(calls')
        /\ \A a : Flying("submit", a, calls') => Flying("submit", a, calls)
        /\ reloads \/ InFlight({"list", "settings"}) => InFlight({"list", "settings"})'
    <3>1. CASE reloads
      BY <2>1, <3>1, ReplyOne DEF ListInv, ListCall
    <3>2. CASE ~reloads
      BY <2>1, <3>2, ReplyNone DEF ListInv
    <3> QED
      BY <3>1, <3>2
  <2> QED
    BY <2>1, <2>2 DEF ListInv
<1>11. CASE UserActs
  BY <1>0, <1>3, <1>4, <1>5, <1>6, <1>7, <1>11, OffQueue, OffPipeline DEF UserActs
<1>12. CASE Arrivals
  BY <1>0, <1>8, <1>9, <1>10, <1>12, OffQueue, OffPipeline, OffDashboard DEF Arrivals
<1> QED
  BY <1>11, <1>12

-----------------------------------------------------------------------------
(* BuildQueueView *)

QueueFields == {"loading", "timer", "shown", "drawer", "records", "box", "triggered"}

\* What a batch has that is not deployed yet.
Waiting(b) == Range(RecordsOf[b]) \cap world

\* A deployment under way still lists whatever of its batch is not deployed.
Lists(a) == /\ a.batch \in Batches /\ a.ids \in Seq(Ready) /\ a.ids # <<>>
            /\ Waiting(a.batch) \subseteq Range(a.ids)

QueueInv ==
  /\ AreCalls(calls) /\ DOMAIN view = QueueFields
  /\ view.loading => InFlight({"firstQueue"})
  /\ view.box \in Batches \cup {"cancel", None}
  /\ world \subseteq Ready
  /\ \A a : Flying("records", a, calls) => a \in Batches
  /\ \A a : Flying("deploy", a, calls) => Lists(a)
  /\ \A b \in view.triggered : Waiting(b) = {}

\* The next pipeline of the batch is asked for, or the batch is reported.
LEMMA DeployGoesOn ==
  ASSUME QueueInv, NEW i \in DOMAIN calls, calls[i].op \in {"records", "deploy"},
         NEW b \in Batches, NEW rest \in Seq(Ready), DeployNext(i, b, rest),
         world' \subseteq world, Waiting(b)' \subseteq Range(rest)
  PROVE  QueueInv'
<1>1. \A c : Waiting(c)' \subseteq Waiting(c)
  BY DEF Waiting
<1>2. \A a : Lists(a) => Lists(a)'
  BY <1>1 DEF Lists
<1>3. DOMAIN view' = QueueFields /\ view'.loading = view.loading /\ view'.box = view.box
  BY DEF QueueInv, DeployNext, QueueFields
<1>4. CASE rest = <<>>
  <2>1. Range(rest) = {}
    BY <1>4 DEF Range
  <2>2. view'.triggered = view.triggered \cup {b} /\ Reply(i, <<Call("queue", None)>>)
    BY <1>4 DEF QueueInv, DeployNext, QueueFields
  <2>3. /\ AreCalls(calls')
        /\ \A o, a : Flying(o, a, calls') => Flying(o, a, calls) \/ o = "queue"
        /\ InFlight({"firstQueue"}) => InFlight({"firstQueue"})'
    BY <2>2, ReplyOne DEF QueueInv
  <2>4. \A c \in view'.triggered : Waiting(c)' = {}
    BY <1>1, <2>1, <2>2 DEF QueueInv
  <2> QED
    BY <1>2, <1>3, <2>3, <2>4 DEF QueueInv
<1>5. CASE rest # <<>>
  <2> DEFINE arg == [batch |-> b, ids |-> rest]
  <2>1. view' = view /\ Reply(i, <<Call("deploy", arg)>>)
    BY <1>5 DEF DeployNext
  <2>2. Lists(arg)'
    BY <1>5 DEF Lists
  <2> HIDE DEF arg
  <2>3. /\ AreCalls(calls')
        /\ \A o, a : Flying(o, a, calls') => Flying(o, a, calls) \/ (o = "deploy" /\ a = arg)
        /\ InFlight({"firstQueue"}) => InFlight({"firstQueue"})'
    BY <2>1, ReplyOne DEF QueueInv
  <2>4. \A a : Flying("deploy", a, calls') => Lists(a)'
    BY <1>2, <2>2, <2>3 DEF QueueInv
  <2>5. \A c \in view'.triggered : Waiting(c)' = {}
    BY <1>1, <2>1 DEF QueueInv
  <2> QED
    BY <1>3, <2>3, <2>4, <2>5 DEF QueueInv
<1> QED
  BY <1>4, <1>5

LEMMA QueueStep ==
  ASSUME On("Queue"), QueueInv, UserActs \/ Arrivals, NoneApart, RecordsListed
  PROVE  page' = page /\ QueueInv'
<1> USE DEF QueueFields
<1>0. page # None /\ ~List /\ ~On("Tasks") /\ ~On("Pipeline") /\ ~On("Dashboard")
  BY DEF NoneApart, Views, On, List
\* Steps that touch neither the calls of a deployment nor what is deployed.
<1>1. ASSUME world' = world, AreCalls(calls'), DOMAIN view' = QueueFields,
             view'.loading => InFlight({"firstQueue"})',
             view'.box \in Batches \cup {"cancel", None}, view'.triggered = view.triggered,
             \A a : Flying("records", a, calls') => Flying("records", a, calls) \/ a \in Batches,
             \A a : Flying("deploy", a, calls') => Flying("deploy", a, calls)
      PROVE  QueueInv'
  <2>1. \A c : Waiting(c)' = Waiting(c)
    BY <1>1 DEF Waiting
  <2>2. \A a : Lists(a) => Lists(a)'
    BY <2>1 DEF Lists
  <2> QED
    BY <1>1, <2>1, <2>2 DEF QueueInv
<1>2. ASSUME CloseDrawer \/ \E what \in Batches \cup {"cancel"} : AskQueue(what)
      PROVE  page' = page /\ QueueInv'
  <2>1. page' = page /\ world' = world /\ calls' = calls
    BY <1>2 DEF CloseDrawer, AskQueue, User
  <2>2. /\ DOMAIN view' = QueueFields /\ view'.loading = view.loading
        /\ view'.box \in Batches \cup {"cancel", None} /\ view'.triggered = view.triggered
    BY <1>2 DEF CloseDrawer, AskQueue, QueueInv
  <2>3. InFlight({"firstQueue"})' <=> InFlight({"firstQueue"})
    BY <2>1 DEF InFlight
  <2> QED
    BY <1>1, <2>1, <2>2, <2>3 DEF QueueInv
<1>3. ASSUME NEW b \in Batches, showBatchDetail(b) PROVE page' = page /\ QueueInv'
  <2>1. /\ page' = page /\ world' = world /\ Send(<<Call("detail", b)>>)
        /\ view' = [view EXCEPT !.drawer = b, !.records = None]
    BY <1>3 DEF showBatchDetail, User
  <2>2. /\ AreCalls(calls')
        /\ \A o, a : Flying(o, a, calls') => Flying(o, a, calls) \/ o = "detail"
        /\ InFlight({"firstQueue"}) => InFlight({"firstQueue"})'
    BY <2>1, SendOne DEF QueueInv
  <2>3. /\ DOMAIN view' = QueueFields /\ view'.loading = view.loading
        /\ view'.box = view.box /\ view'.triggered = view.triggered
    BY <2>1 DEF QueueInv
  <2> QED
    BY <1>1, <2>1, <2>2, <2>3 DEF QueueInv
<1>4. ASSUME NEW yes \in BOOLEAN, AnswerQueue(yes) PROVE page' = page /\ QueueInv'
  <2>1. /\ page' = page /\ world' = world /\ view.box # None
        /\ view' = [view EXCEPT !.box = None]
    BY <1>4 DEF AnswerQueue, User
  <2>2. \/ Send(<<>>) \/ Send(<<Call("cancelQueued", None)>>)
        \/ view.box \in Batches /\ Send(<<Call("records", view.box)>>)
    BY <1>4, <2>1 DEF AnswerQueue, QueueInv
  <2>3. /\ AreCalls(calls')
        /\ \A a : Flying("records", a, calls') => Flying("records", a, calls) \/ a \in Batches
        /\ \A a : Flying("deploy", a, calls') => Flying("deploy", a, calls)
        /\ InFlight({"firstQueue"}) => InFlight({"firstQueue"})'
    <3>1. CASE Send(<<>>)
      BY <3>1, SendNone DEF QueueInv
    <3>2. CASE Send(<<Call("cancelQueued", None)>>)
      BY <3>2, SendOne DEF QueueInv
    <3>3. CASE view.box \in Batches /\ Send(<<Call("records", view.box)>>)
      BY <3>3, SendOne DEF QueueInv
    <3> QED
      BY <2>2, <3>1, <3>2, <3>3
  <2>4. /\ DOMAIN view' = QueueFields /\ view'.loading = view.loading
        /\ view'.box = None /\ view'.triggered = view.triggered
    BY <2>1 DEF QueueInv
  <2> QED
    BY <1>1, <2>1, <2>3, <2>4 DEF QueueInv
<1>5. ASSUME QueueTick PROVE page' = page /\ QueueInv'
  <2>1. page' = page /\ world' = world /\ view' = view /\ Send(<<Call("queue", None)>>)
    BY <1>5 DEF QueueTick, Answer
  <2>2. /\ AreCalls(calls')
        /\ \A o, a : Flying(o, a, calls') => Flying(o, a, calls) \/ o = "queue"
        /\ InFlight({"firstQueue"}) => InFlight({"firstQueue"})'
    BY <2>1, SendOne DEF QueueInv
  <2> QED
    BY <1>1, <2>1, <2>2 DEF QueueInv
<1>6. ASSUME NEW i \in DOMAIN calls, NEW ok \in BOOLEAN, load(i, ok)
      PROVE  page' = page /\ QueueInv'
  <2>1. page' = page /\ world' = world /\ Reply(i, <<>>)
    BY <1>0, <1>6 DEF load
  <2>2. /\ DOMAIN view' = QueueFields /\ view'.loading = FALSE
        /\ view'.box = view.box /\ view'.triggered = view.triggered
    BY <1>0, <1>6 DEF load, QueueInv
  <2>3. AreCalls(calls') /\ \A o, a : Flying(o, a, calls') => Flying(o, a, calls)
    BY <2>1, ReplyNone DEF QueueInv
  <2> QED
    BY <1>1, <2>1, <2>2, <2>3 DEF QueueInv
<1>7. ASSUME NEW i \in DOMAIN calls, NEW ok \in BOOLEAN,
             DetailArrives(i, ok) \/ QueuedCanceled(i, ok)
      PROVE  page' = page /\ QueueInv'
  <2>1. /\ page' = page /\ world' = world /\ calls[i].op # "firstQueue"
        /\ Reply(i, <<>>) \/ Reply(i, <<Call("queue", None)>>)
    BY <1>7 DEF DetailArrives, QueuedCanceled, Answer, Indices
  <2>2. /\ DOMAIN view' = QueueFields /\ view'.loading = view.loading
        /\ view'.box = view.box /\ view'.triggered = view.triggered
    BY <1>7 DEF DetailArrives, QueuedCanceled, QueueInv
  <2>3. /\ AreCalls(calls')
        /\ \A o, a : Flying(o, a, calls') => Flying(o, a, calls) \/ o = "queue"
        /\ InFlight({"firstQueue"}) => InFlight({"firstQueue"})'
    <3>1. CASE Reply(i, <<>>)
      BY <2>1, <3>1, ReplyNone DEF QueueInv
    <3>2. CASE Reply(i, <<Call("queue", None)>>)
      BY <2>1, <3>2, ReplyOne DEF QueueInv
    <3> QED
      BY <2>1, <3>1, <3>2
  <2> QED
    BY <1>1, <2>1, <2>2, <2>3 DEF QueueInv
\* A deployment that ends early: nothing is added to what is reported.
<1>8. ASSUME NEW i \in DOMAIN calls, calls[i].op \in {"records", "deploy"},
             Reply(i, <<>>), view' = view, world' \subseteq world
      PROVE  QueueInv'
  <2>1. \A c : Waiting(c)' \subseteq Waiting(c)
    BY <1>8 DEF Waiting
  <2>2. \A a : Lists(a) => Lists(a)'
    BY <2>1 DEF Lists
  <2>3. /\ AreCalls(calls') /\ \A o, a : Flying(o, a, calls') => Flying(o, a, calls)
        /\ InFlight({"firstQueue"}) => InFlight({"firstQueue"})'
    BY <1>8, ReplyNone DEF QueueInv
  <2>4. \A b \in view'.triggered : Waiting(b)' = {}
    BY <1>8, <2>1 DEF QueueInv
  <2> QED
    BY <1>8, <2>2, <2>3, <2>4 DEF QueueInv
<1>9. ASSUME NEW i \in DOMAIN calls, NEW ok \in BOOLEAN, handleDeployBatch(i, ok)
      PROVE  page' = page /\ QueueInv'
  <2>0. PICK b : b = calls[i].arg
    OBVIOUS
  <2> DEFINE ids == pipelineIds(RecordsOf[b])
  <2>1. page' = page /\ world' = world /\ calls[i].op = "records"
    BY <1>9 DEF handleDeployBatch, Answer, Indices
  <2>2. b \in Batches
    BY <2>0, <2>1 DEF QueueInv, Flying
  <2>3. CASE ok
    <3>1. DeployNext(i, b, ids)
      BY <1>9, <2>0, <2>3 DEF handleDeployBatch
    <3>2. ids \in Seq(Ready) /\ Range(ids) = Range(RecordsOf[b]) \ {None}
      BY <2>2 DEF RecordsListed
    <3>3. None \notin Ready
      BY DEF RecordsListed, Ready
    <3>4. Waiting(b)' \subseteq Range(ids)
      BY <2>1, <3>2, <3>3 DEF Waiting, QueueInv
    <3> QED
      BY <2>1, <2>2, <3>1, <3>2, <3>4, DeployGoesOn
  <2>4. CASE ~ok
    BY <1>8, <1>9, <2>1, <2>4 DEF handleDeployBatch
  <2> QED
    BY <2>3, <2>4
<1>10. ASSUME NEW i \in DOMAIN calls, NEW ok \in BOOLEAN, DeployAnswered(i, ok)
       PROVE  page' = page /\ QueueInv'
  <2>0. PICK d : d = calls[i].arg
    OBVIOUS
  <2>1. page' = page /\ calls[i].op = "deploy"
    BY <1>10 DEF DeployAnswered, Indices
  <2>2. Lists(d)
    BY <2>0, <2>1 DEF QueueInv, Flying
  <2>3. CASE ok
    <3>1. world' = world \ {Head(d.ids)} /\ DeployNext(i, d.batch, Tail(d.ids))
      BY <1>10, <2>0, <2>3 DEF DeployAnswered
    <3>2. /\ Tail(d.ids) \in Seq(Ready)
          /\ Range(d.ids) \subseteq {Head(d.ids)} \cup Range(Tail(d.ids))
      <4>1. /\ d.ids \in Seq(Ready) /\ d.ids # <<>>
            /\ Tail(d.ids) \in Seq(Ready) /\ Len(Tail(d.ids)) = Len(d.ids) - 1
            /\ \A k \in 1..Len(Tail(d.ids)) : Tail(d.ids)[k] = d.ids[k + 1]
        BY <2>2, HeadTailProperties DEF Lists
      <4>2. ASSUME NEW k \in 1..Len(d.ids), k # 1
            PROVE  d.ids[k] \in Range(Tail(d.ids))
        <5>1. k - 1 \in 1..Len(Tail(d.ids)) /\ (k - 1) + 1 = k
          BY <4>1, <4>2
        <5>2. Tail(d.ids)[k - 1] = d.ids[k]
          BY <4>1, <5>1
        <5>3. k - 1 \in DOMAIN Tail(d.ids)
          BY <4>1, <5>1
        <5> QED
          BY <5>2, <5>3 DEF Range
      <4>3. DOMAIN d.ids = 1..Len(d.ids) /\ Head(d.ids) = d.ids[1]
        BY <4>1
      <4> QED
        BY <4>1, <4>2, <4>3 DEF Range
    <3>3. Waiting(d.batch)' \subseteq Range(Tail(d.ids))
      BY <2>2, <3>1, <3>2 DEF Waiting, Lists
    <3> QED
      BY <2>1, <2>2, <3>1, <3>2, <3>3, DeployGoesOn DEF Lists
  <2>4. CASE ~ok
    BY <1>8, <1>10, <2>1, <2>4 DEF DeployAnswered
  <2> QED
    BY <2>3, <2>4
<1>11. CASE UserActs
  BY <1>0, <1>2, <1>3, <1>4, <1>11, OffLists, OffPipeline DEF UserActs
<1>12. CASE Arrivals
  BY <1>0, <1>5, <1>6, <1>7, <1>9, <1>10, <1>12, OffLists, OffPipeline, OffDashboard
     DEF Arrivals
<1> QED
  BY <1>11, <1>12

-----------------------------------------------------------------------------
(* PipelineDetailView and DashboardView *)

PipelineFields == {"loading", "task", "stage", "log", "mixed", "covered", "es", "timer", "calm"}
First == {"firstTask", "firstLogs"}
Logs == {"firstLogs", "logs"}

PipelineInv ==
  /\ AreCalls(calls) /\ DOMAIN view = PipelineFields
  /\ view.loading => InFlight(First)
  /\ view.covered => InFlight(Logs)

LEMMA PipelineStep ==
  ASSUME On("Pipeline"), PipelineInv, UserActs \/ Arrivals, NoneApart
  PROVE  page' = page /\ PipelineInv'
<1> USE DEF PipelineFields
<1>0. page # None /\ ~List /\ ~On("Tasks") /\ ~On("Queue") /\ ~On("Dashboard")
  BY DEF NoneApart, Views, On, List
<1>1. ASSUME NEW s \in Stages, selectStage(s) PROVE page' = page /\ PipelineInv'
  <2>1. /\ page' = page /\ Send(<<Call("logs", s)>>)
        /\ view' = [view EXCEPT !.stage = s, !.covered = TRUE]
    BY <1>1 DEF selectStage, User
  <2>2. /\ AreCalls(calls') /\ InFlight(Logs)'
        /\ InFlight(First) => InFlight(First)'
    BY <2>1, SendOne DEF PipelineInv, Logs
  <2> QED
    BY <2>1, <2>2 DEF PipelineInv
<1>2. ASSUME Poll \/ StreamDone PROVE page' = page /\ PipelineInv'
  <2>1. PICK op : /\ page' = page /\ Send(<<Call(op, world)>>) /\ DOMAIN view' = PipelineFields
                  /\ view'.loading = view.loading /\ view'.covered = view.covered
    BY <1>2 DEF Poll, StreamDone, Answer, PipelineInv
  <2>2. AreCalls(calls') /\ \A ops : InFlight(ops) => InFlight(ops)'
    BY <2>1, SendOne DEF PipelineInv
  <2> QED
    BY <2>1, <2>2 DEF PipelineInv
<1>3. ASSUME LogLine \/ ServerMoves PROVE page' = page /\ PipelineInv'
  <2>1. /\ page' = page /\ calls' = calls /\ DOMAIN view' = PipelineFields
        /\ view'.loading = view.loading /\ view'.covered = view.covered
    BY <1>3 DEF LogLine, ServerMoves, Answer, PipelineInv
  <2> QED
    BY <2>1 DEF PipelineInv, InFlight
<1>4. ASSUME NEW i \in DOMAIN calls, NEW ok \in BOOLEAN, FirstTaskArrives(i, ok)
      PROVE  page' = page /\ PipelineInv'
  <2>1. page' = page /\ calls[i].op = "firstTask" /\ calls[i].op \notin Logs
    BY <1>4 DEF FirstTaskArrives, Answer, Indices, Logs
  <2>2. CASE ok
    <3>1. PICK stage : /\ Reply(i, <<Call("firstLogs", stage)>>)
                       /\ DOMAIN view' = PipelineFields
      BY <1>0, <1>4, <2>2 DEF FirstTaskArrives, PipelineInv
    <3>2. AreCalls(calls') /\ InFlight(First)' /\ InFlight(Logs)'
      BY <3>1, ReplyOne DEF PipelineInv, First, Logs
    <3> QED
      BY <2>1, <3>1, <3>2 DEF PipelineInv
  <2>3. CASE ~ok
    <3>1. Reply(i, <<>>) /\ view' = [view EXCEPT !.loading = FALSE]
      BY <1>0, <1>4, <2>3 DEF FirstTaskArrives
    <3>2. AreCalls(calls') /\ (InFlight(Logs) => InFlight(Logs)')
      BY <2>1, <3>1, ReplyNone DEF PipelineInv
    <3> QED
      BY <2>1, <3>1, <3>2 DEF PipelineInv
  <2> QED
    BY <2>2, <2>3
<1>5. ASSUME NEW i \in DOMAIN calls, NEW ok \in BOOLEAN,
             FirstLogsArrive(i, ok) \/ LogsArrive(i, ok) \/ refreshPipeline(i, ok)
      PROVE  page' = page /\ PipelineInv'
  <2>1. page' = page /\ Reply(i, <<>>) /\ DOMAIN view' = PipelineFields
    <3>1. CASE FirstLogsArrive(i, ok)
      BY <1>0, <3>1 DEF FirstLogsArrive, PipelineInv
    <3>2. CASE LogsArrive(i, ok)
      BY <3>2 DEF LogsArrive, Answer, PipelineInv
    <3>3. CASE refreshPipeline(i, ok)
      BY <3>3 DEF refreshPipeline, Answer, PipelineInv
    <3> QED
      BY <1>5, <3>1, <3>2, <3>3
  <2>2. /\ view'.loading => view.loading /\ calls[i].op \notin First
        /\ view'.covered => view.covered /\ calls[i].op \notin Logs
    <3>1. CASE FirstLogsArrive(i, ok)
      BY <1>0, <3>1 DEF FirstLogsArrive, PipelineInv
    <3>2. CASE LogsArrive(i, ok)
      BY <3>2 DEF LogsArrive, PipelineInv, Indices, First
    <3>3. CASE refreshPipeline(i, ok)
      BY <3>3 DEF refreshPipeline, PipelineInv, First, Logs
    <3> QED
      BY <1>5, <3>1, <3>2, <3>3
  <2>3. AreCalls(calls') /\ \A ops : InFlight(ops) /\ calls[i].op \notin ops => InFlight(ops)'
    BY <2>1, ReplyNone DEF PipelineInv
  <2> QED
    BY <2>1, <2>2, <2>3 DEF PipelineInv
<1>6. CASE UserActs
  BY <1>0, <1>1, <1>6, OffLists, OffQueue DEF UserActs
<1>7. CASE Arrivals
  BY <1>0, <1>2, <1>3, <1>4, <1>5, <1>7, OffLists, OffQueue, OffDashboard DEF Arrivals
<1> QED
  BY <1>6, <1>7

DashboardInv ==
  AreCalls(calls) /\ (view.loading => InFlight({"dashboard"}))

LEMMA DashboardStep ==
  ASSUME On("Dashboard"), DashboardInv, UserActs \/ Arrivals, NoneApart
  PROVE  page' = page /\ DashboardInv'
<1>0. page # None /\ ~List /\ ~On("Tasks") /\ ~On("Queue") /\ ~On("Pipeline")
  BY DEF NoneApart, Views, On, List
<1>1. PICK i \in DOMAIN calls, ok \in BOOLEAN : DashboardArrives(i, ok)
  <2>1. ~UserActs
    BY <1>0, OffLists, OffQueue, OffPipeline DEF UserActs
  <2> QED
    BY <1>0, <2>1, OffLists, OffQueue, OffPipeline DEF Arrivals
<1>2. page' = page /\ view'.loading = FALSE /\ Reply(i, <<>>)
  BY <1>1 DEF DashboardArrives, Answer
<1>3. AreCalls(calls')
  BY <1>2, ReplyNone DEF DashboardInv
<1> QED
  BY <1>2, <1>3 DEF DashboardInv

-----------------------------------------------------------------------------
(* What the refs of the lists and of the queue hold. *)

\* Rows, filter and page number, and what every call for rows asks for.
ListTypes ==
  /\ view.filter \in Filters \cup {None} /\ view.page \in Pages
  /\ view.rows \in ListArgs \cup {None} /\ view.selected \subseteq TaskIds
  /\ view.dialog \in Dialogs \cup {None} /\ view.box \in {"delete", "deploy", None}
  /\ view.loading \in BOOLEAN /\ view.calm \in BOOLEAN
  /\ \A a : Flying("list", a, calls) => a \in ListArgs

LEMMA ListTyped ==
  ASSUME List, ListInv, ListTypes, UserActs \/ Arrivals, NoneApart, 1 \in Pages
  PROVE  ListTypes'
<1> USE DEF ListFields
<1>0. page # None /\ ~On("Queue") /\ ~On("Pipeline") /\ ~On("Dashboard")
  BY DEF NoneApart, Views, On, List
<1>1. AreCalls(calls) /\ DOMAIN view = ListFields
  BY DEF ListInv
\* The rows are asked for.
<1>2. ASSUME NEW filter \in Filters \cup {None}, NEW n \in Pages,
             view' = [view EXCEPT !.filter = filter, !.page = n, !.loading = TRUE],
             \/ Send(<<Call("list", [filter |-> filter, page |-> n])>>)
             \/ \E i \in DOMAIN calls : Reply(i, <<Call("list", [filter |-> filter, page |-> n])>>)
      PROVE  ListTypes'
  <2>1. PICK arg \in ListArgs : arg = [filter |-> filter, page |-> n]
    BY DEF ListArgs
  <2>2. \A a : Flying("list", a, calls') => Flying("list", a, calls) \/ a = arg
    BY <1>1, <1>2, <2>1, SendOne, ReplyOne
  <2>3. /\ view'.filter = filter /\ view'.page = n /\ view'.loading = TRUE
        /\ view'.rows = view.rows /\ view'.selected = view.selected
        /\ view'.dialog = view.dialog /\ view'.box = view.box /\ view'.calm = view.calm
    BY <1>1, <1>2
  <2> QED
    BY <2>2, <2>3 DEF ListTypes
<1>3. ASSUME NEW filter \in Filters \cup {None}, Search(filter) PROVE ListTypes'
  <2>1. PICK n \in Pages : n = IF On("Tasks") \/ filter = None THEN 1 ELSE view.page
    BY DEF ListTypes
  <2>2. /\ view' = [view EXCEPT !.filter = filter, !.page = n, !.loading = TRUE]
        /\ Send(<<Call("list", [filter |-> filter, page |-> n])>>)
    BY <1>1, <1>3, <2>1 DEF Search, Covered, ListCall
  <2> QED
    BY <1>2, <2>2
<1>4. ASSUME NEW n \in Pages, handlePageChange(n) PROVE ListTypes'
  <2>1. /\ view' = [view EXCEPT !.filter = view.filter, !.page = n, !.loading = TRUE]
        /\ Send(<<Call("list", [filter |-> view.filter, page |-> n])>>)
    BY <1>1, <1>4 DEF handlePageChange, Covered, ListCall
  <2> QED
    BY <1>2, <2>1 DEF ListTypes
<1>5. ASSUME NEW i \in DOMAIN calls, SettingsArrive(i) PROVE ListTypes'
  <2>1. /\ view' = [view EXCEPT !.filter = view.filter, !.page = view.page, !.loading = TRUE]
        /\ Reply(i, <<Call("list", [filter |-> view.filter, page |-> view.page])>>)
    BY <1>1, <1>5 DEF SettingsArrive, Covered, ListCall
  <2> QED
    BY <1>2, <2>1 DEF ListTypes
\* The selection or a dialog changes, and no rows are asked for.
<1>6. ASSUME NEW selected \in SUBSET TaskIds, NEW dialog \in Dialogs \cup {None},
             NEW box \in {"delete", "deploy", None},
             view' = [view EXCEPT !.selected = selected, !.dialog = dialog, !.box = box],
             \A a : Flying("list", a, calls') => Flying("list", a, calls)
      PROVE  ListTypes'
  <2>1. /\ view'.filter = view.filter /\ view'.page = view.page
        /\ view'.loading = view.loading /\ view'.calm = view.calm /\ view'.rows = view.rows
        /\ view'.selected = selected /\ view'.dialog = dialog /\ view'.box = box
    BY <1>1, <1>6
  <2> QED
    BY <1>6, <2>1 DEF ListTypes
<1>7. ASSUME NEW t \in TaskIds, handleSelectionChange(t) PROVE ListTypes'
  <2>1. PICK selected \in SUBSET TaskIds :
          selected = IF t \in view.selected THEN view.selected \ {t} ELSE view.selected \cup {t}
    BY DEF ListTypes
  <2>2. calls' = calls /\ view' = [view EXCEPT !.selected = selected, !.dialog = view.dialog,
                                               !.box = view.box]
    BY <1>1, <1>7, <2>1 DEF handleSelectionChange
  <2> QED
    BY <1>6, <2>2 DEF ListTypes
<1>8. CASE \/ handleBatchExecute \/ handleCreate \/ CloseDialog
           \/ \E t \in TaskIds : handleEdit(t) \/ handleExecute(t)
  <2>1. PICK dialog \in Dialogs \cup {None} :
          view' = [view EXCEPT !.dialog = dialog] /\ calls' = calls
    <3>1. CASE CloseDialog
      BY <3>1 DEF CloseDialog
    <3>2. CASE ~CloseDialog
      <4>1. PICK kind \in {"execute", "batch", "create", "edit"}, tasks \in SUBSET TaskIds :
              view' = [view EXCEPT !.dialog = [kind |-> kind, tasks |-> tasks]] /\ calls' = calls
        BY <1>8, <3>2 DEF handleEdit, handleExecute, handleBatchExecute, handleCreate, Dialog,
           ListTypes
      <4> QED
        BY <4>1 DEF Dialogs
    <3> QED
      BY <3>1, <3>2
  <2>2. view' = [view EXCEPT !.selected = view.selected, !.dialog = dialog, !.box = view.box]
    BY <1>1, <2>1
  <2>3. view.selected \in SUBSET TaskIds /\ view.box \in {"delete", "deploy", None}
    BY DEF ListTypes
  <2> QED
    BY <1>6, <2>1, <2>2, <2>3
<1>9. ASSUME NEW op, NEW arg, op # "list", Send(<<Call(op, arg)>>) \/ Send(<<>>)
      PROVE  \A a : Flying("list", a, calls') => Flying("list", a, calls)
  BY <1>1, <1>9, SendOne, SendNone
<1>10. CASE (\E yes \in BOOLEAN : AnswerBox(yes))
            \/ \E kind \in {"delete", "deploy"} : AskAbout(kind)
  <2>1. PICK box \in {"delete", "deploy", None} : view' = [view EXCEPT !.box = box]
    <3>2. CASE \E yes \in BOOLEAN : AnswerBox(yes)
      BY <3>2 DEF AnswerBox
    <3>3. CASE \E kind \in {"delete", "deploy"} : AskAbout(kind)
      BY <3>3 DEF AskAbout
    <3> QED
      BY <1>10, <3>2, <3>3
  <2>2. \A a : Flying("list", a, calls') => Flying("list", a, calls)
    BY <1>9, <1>10 DEF AnswerBox, AskAbout
  <2>3. view' = [view EXCEPT !.selected = view.selected, !.dialog = view.dialog, !.box = box]
    BY <1>1, <2>1
  <2> QED
    BY <1>6, <2>2, <2>3 DEF ListTypes
<1>11. ASSUME NEW i \in DOMAIN calls, NEW ok \in BOOLEAN, loadAll(i, ok) PROVE ListTypes'
  <2>1. calls[i].op = "list" /\ Reply(i, <<>>)
    BY <1>11 DEF loadAll, Indices
  <2>2. calls[i].arg \in ListArgs
    BY <2>1 DEF ListTypes, Flying
  <2>3. PICK rows \in ListArgs \cup {None} : rows = IF ok THEN calls[i].arg ELSE None
    BY <2>2
  <2>4. PICK calm \in BOOLEAN : calm = (view.calm /\ view.dialog = None)
    OBVIOUS
  <2>5. view' = [view EXCEPT !.rows = rows, !.loading = FALSE, !.selected = {}, !.calm = calm]
    BY <1>11, <2>3, <2>4 DEF loadAll
  <2>6. /\ view'.filter = view.filter /\ view'.page = view.page
        /\ view'.loading = FALSE /\ view'.calm = calm /\ view'.rows = rows
        /\ view'.selected = {} /\ view'.dialog = view.dialog /\ view'.box = view.box
    BY <1>1, <2>5
  <2>7. \A a : Flying("list", a, calls') => Flying("list", a, calls)
    BY <1>1, <2>1, ReplyNone
  <2> QED
    BY <2>6, <2>7 DEF ListTypes
<1>12. ASSUME NEW i \in DOMAIN calls, NEW ok \in BOOLEAN, Submitted(i, ok) \/ Touched(i, ok)
       PROVE  ListTypes'
  <2>1. PICK again \in BOOLEAN, dialog \in {None, view.dialog} :
          /\ view' = [view EXCEPT !.dialog = dialog, !.loading = @ \/ again]
          /\ Reply(i, IF again THEN <<ListCall(view)>> ELSE <<>>)
    <3>1. CASE Submitted(i, ok)
      BY <3>1 DEF Submitted
    <3>2. CASE Touched(i, ok)
      BY <1>1, <3>2 DEF Touched
    <3> QED
      BY <1>12, <3>1, <3>2
  <2>2. PICK arg \in ListArgs : arg = [filter |-> view.filter, page |-> view.page]
    BY DEF ListArgs, ListTypes
  <2>3. \A a : Flying("list", a, calls') => Flying("list", a, calls) \/ a = arg
    <3>1. CASE again
      BY <1>1, <2>1, <2>2, <3>1, ReplyOne DEF ListCall
    <3>2. CASE ~again
      BY <1>1, <2>1, <3>2, ReplyNone
    <3> QED
      BY <3>1, <3>2
  <2>4. PICK loading \in BOOLEAN : loading = (view.loading \/ again)
    OBVIOUS
  <2>5. view' = [view EXCEPT !.dialog = dialog, !.loading = loading]
    BY <2>1, <2>4
  <2>6. /\ view'.filter = view.filter /\ view'.page = view.page
        /\ view'.loading = loading /\ view'.calm = view.calm /\ view'.rows = view.rows
        /\ view'.selected = view.selected /\ view'.dialog = dialog /\ view'.box = view.box
    BY <1>1, <2>5
  <2> QED
    BY <2>3, <2>6 DEF ListTypes
<1>13. CASE Submit
  BY <1>9, <1>13 DEF Submit, ListTypes
<1>14. CASE UserActs
  BY <1>0, <1>13, <1>3, <1>4, <1>7, <1>8, <1>10, <1>14, OffQueue, OffPipeline DEF UserActs
<1>15. CASE Arrivals
  BY <1>0, <1>5, <1>11, <1>12, <1>15, OffQueue, OffPipeline, OffDashboard DEF Arrivals
<1> QED
  BY <1>14, <1>15

\* The drawer, its records, the box and what was reported are about waiting batches;
\* the records in the drawer are those of the batch it names.
QueueTypes ==
  /\ view.drawer \in Batches \cup {None} /\ view.records \in Batches \cup {None}
  /\ view.triggered \subseteq Batches
  /\ view.loading \in BOOLEAN /\ view.timer \in BOOLEAN /\ view.shown \in BOOLEAN
  /\ view.drawer # None => view.records \in {None, view.drawer}
  /\ \A a : Flying("detail", a, calls) => a \in Batches

LEMMA QueueTyped ==
  ASSUME On("Queue"), QueueInv, QueueTypes, UserActs \/ Arrivals, NoneApart
  PROVE  QueueTypes'
<1> USE DEF QueueFields
<1>0. page # None /\ ~List /\ ~On("Tasks") /\ ~On("Pipeline") /\ ~On("Dashboard")
  BY DEF NoneApart, Views, On, List
<1>1. AreCalls(calls) /\ DOMAIN view = QueueFields
  BY DEF QueueInv
<1>2. ASSUME NEW op, NEW arg, op # "detail",
             \/ Send(<<Call(op, arg)>>) \/ Send(<<>>)
             \/ \E i \in DOMAIN calls : Reply(i, <<Call(op, arg)>>) \/ Reply(i, <<>>)
      PROVE  \A a : Flying("detail", a, calls') => Flying("detail", a, calls)
  BY <1>1, <1>2, SendOne, SendNone, ReplyOne, ReplyNone
\* The drawer and what was reported stay.
<1>3. ASSUME view'.drawer = view.drawer, view'.records = view.records,
             view'.triggered \in {view.triggered} \cup {view.triggered \cup {b} : b \in Batches},
             view'.loading \in BOOLEAN, view'.timer \in BOOLEAN, view'.shown \in BOOLEAN,
             \A a : Flying("detail", a, calls') => Flying("detail", a, calls)
      PROVE  QueueTypes'
  BY <1>3 DEF QueueTypes
<1>4. CASE CloseDrawer
  <2>1. view' = [view EXCEPT !.drawer = None] /\ calls' = calls
    BY <1>4 DEF CloseDrawer
  <2>2. /\ view'.drawer = None /\ view'.records = view.records
        /\ view'.triggered = view.triggered /\ view'.loading = view.loading
        /\ view'.timer = view.timer /\ view'.shown = view.shown
    BY <1>1, <2>1
  <2> QED
    BY <2>1, <2>2 DEF QueueTypes
<1>5. ASSUME NEW b \in Batches, showBatchDetail(b) PROVE QueueTypes'
  <2>1. view' = [view EXCEPT !.drawer = b, !.records = None] /\ Send(<<Call("detail", b)>>)
    BY <1>5 DEF showBatchDetail
  <2>2. /\ view'.drawer = b /\ view'.records = None
        /\ view'.triggered = view.triggered /\ view'.loading = view.loading
        /\ view'.timer = view.timer /\ view'.shown = view.shown
    BY <1>1, <2>1
  <2>3. \A a : Flying("detail", a, calls') => Flying("detail", a, calls) \/ a = b
    BY <1>1, <2>1, SendOne
  <2> QED
    BY <2>2, <2>3 DEF QueueTypes
<1>6. CASE (\E what \in Batches \cup {"cancel"} : AskQueue(what)) \/ QueueTick
  <2>1. /\ view'.drawer = view.drawer /\ view'.records = view.records
        /\ view'.triggered = view.triggered /\ view'.loading = view.loading
        /\ view'.timer = view.timer /\ view'.shown = view.shown
    BY <1>1, <1>6 DEF AskQueue, QueueTick
  <2>2. \A a : Flying("detail", a, calls') => Flying("detail", a, calls)
    BY <1>2, <1>6 DEF AskQueue, QueueTick
  <2> QED
    BY <1>3, <2>1, <2>2 DEF QueueTypes
<1>7. ASSUME NEW yes \in BOOLEAN, AnswerQueue(yes) PROVE QueueTypes'
  <2>1. /\ view'.drawer = view.drawer /\ view'.records = view.records
        /\ view'.triggered = view.triggered /\ view'.loading = view.loading
        /\ view'.timer = view.timer /\ view'.shown = view.shown
    BY <1>1, <1>7 DEF AnswerQueue
  <2>2. Send(<<>>) \/ Send(<<Call("cancelQueued", None)>>) \/ Send(<<Call("records", view.box)>>)
    BY <1>7 DEF AnswerQueue
  <2> QED
    BY <1>2, <1>3, <2>1, <2>2 DEF QueueTypes
<1>8. ASSUME NEW i \in DOMAIN calls, NEW ok \in BOOLEAN, load(i, ok) PROVE QueueTypes'
  <2>1. PICK timer \in BOOLEAN : timer = (view.timer \/ calls[i].op = "firstQueue")
    OBVIOUS
  <2>2. view' = [view EXCEPT !.shown = ok, !.loading = FALSE, !.timer = timer]
        /\ Reply(i, <<>>)
    BY <1>0, <1>8, <2>1 DEF load
  <2>3. /\ view'.drawer = view.drawer /\ view'.records = view.records
        /\ view'.triggered = view.triggered /\ view'.loading = FALSE
        /\ view'.timer = timer /\ view'.shown = ok
    BY <1>1, <2>2
  <2>4. \A a : Flying("detail", a, calls') => Flying("detail", a, calls)
    BY <1>1, <2>2, ReplyNone
  <2> QED
    BY <1>3, <2>3, <2>4
<1>9. ASSUME NEW i \in DOMAIN calls, NEW ok \in BOOLEAN, DetailArrives(i, ok)
      PROVE  QueueTypes'
  <2>1. calls[i].op = "detail" /\ Reply(i, <<>>)
    BY <1>9 DEF DetailArrives, Indices
  <2>2. PICK b \in Batches : b = calls[i].arg
    BY <2>1 DEF QueueTypes, Flying
  <2>3. \A a : Flying("detail", a, calls') => Flying("detail", a, calls)
    BY <1>1, <2>1, ReplyNone
  <2>4. CASE ok
    <3>1. view' = [view EXCEPT !.records = b, !.drawer = IF @ = None THEN None ELSE b]
      BY <1>9, <2>2, <2>4 DEF DetailArrives
    <3>2. /\ view'.drawer = (IF view.drawer = None THEN None ELSE b) /\ view'.records = b
          /\ view'.triggered = view.triggered /\ view'.loading = view.loading
          /\ view'.timer = view.timer /\ view'.shown = view.shown
      BY <1>1, <3>1
    <3> QED
      BY <2>3, <3>2 DEF QueueTypes
  <2>5. CASE ~ok
    BY <1>9, <2>3, <2>5 DEF DetailArrives, QueueTypes
  <2> QED
    BY <2>4, <2>5
<1>10. ASSUME NEW i \in DOMAIN calls, NEW ok \in BOOLEAN, QueuedCanceled(i, ok)
       PROVE  QueueTypes'
  <2>1. view' = view /\ (Reply(i, <<>>) \/ Reply(i, <<Call("queue", None)>>))
    BY <1>10 DEF QueuedCanceled
  <2> QED
    BY <1>2, <1>3, <2>1 DEF QueueTypes
<1>11. ASSUME NEW i \in DOMAIN calls, NEW b \in Batches, NEW rest,
              (Reply(i, <<>>) /\ view' = view) \/ DeployNext(i, b, rest)
       PROVE  QueueTypes'
  <2>1. /\ view'.drawer = view.drawer /\ view'.records = view.records
        /\ view'.triggered \in {view.triggered, view.triggered \cup {b}}
        /\ view'.loading = view.loading
        /\ view'.timer = view.timer /\ view'.shown = view.shown
    BY <1>1, <1>11 DEF DeployNext
  <2>2. \A a : Flying("detail", a, calls') => Flying("detail", a, calls)
    BY <1>2, <1>11 DEF DeployNext
  <2> QED
    BY <1>3, <2>1, <2>2 DEF QueueTypes
<1>12. ASSUME NEW i \in DOMAIN calls, NEW ok \in BOOLEAN,
              handleDeployBatch(i, ok) \/ DeployAnswered(i, ok)
       PROVE  QueueTypes'
  <2>1. CASE handleDeployBatch(i, ok)
    <3>1. PICK b \in Batches : b = calls[i].arg
      BY <2>1 DEF handleDeployBatch, Indices, QueueInv, Flying
    <3>2. (Reply(i, <<>>) /\ view' = view) \/ DeployNext(i, b, pipelineIds(RecordsOf[b]))
      BY <2>1, <3>1 DEF handleDeployBatch
    <3> QED
      BY <1>11, <3>2
  <2>2. CASE DeployAnswered(i, ok)
    <3>1. PICK d : d = calls[i].arg /\ Lists(d)
      BY <2>2 DEF DeployAnswered, Indices, QueueInv, Flying
    <3>2. (Reply(i, <<>>) /\ view' = view) \/ DeployNext(i, d.batch, Tail(d.ids))
      BY <2>2, <3>1 DEF DeployAnswered
    <3> QED
      BY <1>11, <3>1, <3>2 DEF Lists
  <2> QED
    BY <1>12, <2>1, <2>2
<1>13. CASE UserActs
  BY <1>0, <1>4, <1>5, <1>6, <1>7, <1>13, OffLists, OffPipeline DEF UserActs
<1>14. CASE Arrivals
  BY <1>0, <1>6, <1>8, <1>9, <1>10, <1>12, <1>14, OffLists, OffPipeline, OffDashboard
     DEF Arrivals
<1> QED
  BY <1>13, <1>14

-----------------------------------------------------------------------------
(* What the page of a pipeline shows, and how it follows the pipeline. *)

Statuses == {"PENDING", "RUNNING", "ended"}

\* No status runs backwards: one that was read as ended has ended.
Read(op) == \A a : Flying(op, a, calls) => a \in Statuses /\ (a = "ended" => world = "ended")

PipelineTypes ==
  /\ view.stage \in Stages \cup {None} /\ view.log \in Stages \cup {None}
  /\ view.task \in Statuses \cup {None} /\ world \in Statuses
  /\ view.es \in {"none", "open", "done"}
  /\ view.loading \in BOOLEAN /\ view.mixed \in BOOLEAN /\ view.covered \in BOOLEAN
  /\ view.timer \in BOOLEAN /\ view.calm \in BOOLEAN

\* The page is loaded once, and its log is that of the stage selected whenever the
\* last call for it was answered.
PipelineShows ==
  /\ Lone(First, calls)
  /\ \A a : Flying("firstTask", a, calls) => view.loading /\ view.task = None
  /\ \A a : Flying("firstLogs", a, calls) => view.loading /\ a = view.stage /\ a \in Stages
  /\ \A a : Flying("logs", a, calls) => ~view.loading /\ a \in Stages
  /\ Asks("logs", view.stage, calls)
  /\ view.calm /\ ~view.covered => view.log \in {view.stage, None}

\* The poll stops only when the pipeline has ended, and the final refresh is sent then.
PipelineFollowed ==
  /\ Read("firstTask") /\ Read("task") /\ Read("poll")
  /\ \A a : Flying("poll", a, calls) => view.es # "none"
  /\ \A a : Flying("task", a, calls) => view.es = "done"
  /\ view.es = "done" => world = "ended"
  /\ view.es = "open" => view.timer \/ world = "ended"
  /\ view.es = "none" => ~view.timer
  /\ view.loading => view.es = "none"
  /\ view.task = "ended" => world = "ended"
  /\ view.calm /\ ~view.loading /\ view.task = "RUNNING" => view.timer \/ InFlight({"task"})

PipelineWatch == PipelineTypes /\ PipelineShows /\ PipelineFollowed

LEMMA StageSelected ==
  ASSUME PipelineInv, PipelineWatch, NEW s \in Stages, selectStage(s) PROVE PipelineWatch'
<1>1. /\ Send(<<Call("logs", s)>>) /\ ~view.loading /\ world' = world
      /\ view' = [view EXCEPT !.stage = s, !.covered = TRUE]
  BY DEF selectStage, User
<1>2. /\ view'.stage = s /\ view'.covered = TRUE /\ view'.log = view.log
      /\ view'.task = view.task /\ view'.es = view.es /\ view'.loading = view.loading
      /\ view'.mixed = view.mixed /\ view'.timer = view.timer /\ view'.calm = view.calm
  BY <1>1 DEF PipelineInv, PipelineFields
<1>3. /\ AreCalls(calls')
      /\ \A o, a : Flying(o, a, calls') <=> Flying(o, a, calls) \/ (o = "logs" /\ a = s)
      /\ \A ops : InFlight(ops) => InFlight(ops)'
  BY <1>1, SendOne DEF PipelineInv
<1>4. Lone(First, calls')
  BY <1>1, LoneSend DEF PipelineInv, PipelineWatch, PipelineShows, First
<1>5. Asks("logs", s, calls')
  BY <1>1, SendAsks DEF PipelineInv
<1>6. PipelineTypes'
  BY <1>1, <1>2 DEF PipelineWatch, PipelineTypes
<1>7. PipelineShows'
  BY <1>1, <1>2, <1>3, <1>4, <1>5 DEF PipelineWatch, PipelineShows
<1>8. PipelineFollowed'
  BY <1>1, <1>2, <1>3 DEF PipelineWatch, PipelineFollowed, Read
<1> QED
  BY <1>6, <1>7, <1>8 DEF PipelineWatch

LEMMA PipelineGoesOn ==
  ASSUME PipelineInv, PipelineWatch, LogLine \/ ServerMoves \/ StreamDone \/ Poll
  PROVE  PipelineWatch'
<1>1. CASE LogLine
  <2>1. view' = [view EXCEPT !.mixed = TRUE] /\ calls' = calls /\ world' = world
    BY <1>1 DEF LogLine, Answer
  <2>2. /\ view'.stage = view.stage /\ view'.covered = view.covered /\ view'.log = view.log
        /\ view'.task = view.task /\ view'.es = view.es /\ view'.loading = view.loading
        /\ view'.mixed = TRUE /\ view'.timer = view.timer /\ view'.calm = view.calm
    BY <2>1 DEF PipelineInv, PipelineFields
  <2> QED
    BY <2>1, <2>2 DEF PipelineWatch, PipelineTypes, PipelineShows, PipelineFollowed, Read, InFlight
<1>2. CASE ServerMoves
  <2>1. view' = view /\ calls' = calls /\ world # "ended" /\ world' \in Statuses
    BY <1>2 DEF ServerMoves, Statuses
  <2>2. PipelineTypes' /\ PipelineShows'
    BY <2>1 DEF PipelineWatch, PipelineTypes, PipelineShows
  <2>3. PipelineFollowed'
    BY <2>1 DEF PipelineWatch, PipelineFollowed, Read, InFlight
  <2> QED
    BY <2>2, <2>3 DEF PipelineWatch
<1>3. CASE StreamDone
  <2>1. /\ view' = [view EXCEPT !.es = "done", !.timer = FALSE] /\ world' = world
        /\ Send(<<Call("task", world)>>) /\ world = "ended" /\ view.es = "open"
    BY <1>3 DEF StreamDone, Answer
  <2>2. /\ view'.stage = view.stage /\ view'.covered = view.covered /\ view'.log = view.log
        /\ view'.task = view.task /\ view'.es = "done" /\ view'.loading = view.loading
        /\ view'.mixed = view.mixed /\ view'.timer = FALSE /\ view'.calm = view.calm
    BY <2>1 DEF PipelineInv, PipelineFields
  <2>3. /\ \A o, a : Flying(o, a, calls') <=> Flying(o, a, calls) \/ (o = "task" /\ a = world)
        /\ InFlight({"task"})'
    BY <2>1, SendOne DEF PipelineInv
  <2>4. Lone(First, calls') /\ Asks("logs", view.stage, calls')
    BY <2>1, LoneSend, SendAsks DEF PipelineInv, PipelineWatch, PipelineShows, First
  <2>5. PipelineTypes' /\ PipelineShows'
    BY <2>1, <2>2, <2>3, <2>4 DEF PipelineWatch, PipelineTypes, PipelineShows
  <2>6. PipelineFollowed'
    BY <2>1, <2>2, <2>3 DEF PipelineWatch, PipelineFollowed, Read, Statuses
  <2> QED
    BY <2>5, <2>6 DEF PipelineWatch
<1>4. CASE Poll
  <2>1. view' = view /\ world' = world /\ Send(<<Call("poll", world)>>) /\ view.timer
    BY <1>4 DEF Poll, Answer
  <2>2. /\ \A o, a : Flying(o, a, calls') <=> Flying(o, a, calls) \/ (o = "poll" /\ a = world)
        /\ \A ops : InFlight(ops) => InFlight(ops)'
    BY <2>1, SendOne DEF PipelineInv
  <2>3. Lone(First, calls') /\ Asks("logs", view.stage, calls')
    BY <2>1, LoneSend, SendAsks DEF PipelineInv, PipelineWatch, PipelineShows, First
  <2>4. PipelineTypes' /\ PipelineShows'
    BY <2>1, <2>2, <2>3 DEF PipelineWatch, PipelineTypes, PipelineShows
  <2>5. PipelineFollowed'
    BY <2>1, <2>2 DEF PipelineWatch, PipelineTypes, PipelineFollowed, Read
  <2> QED
    BY <2>4, <2>5 DEF PipelineWatch
<1> QED
  BY <1>1, <1>2, <1>3, <1>4

LEMMA PipelineLoads ==
  ASSUME On("Pipeline"), PipelineInv, PipelineWatch, page # None, NoneApart,
         NEW i \in DOMAIN calls, NEW ok \in BOOLEAN, FirstTaskArrives(i, ok)
  PROVE  PipelineWatch'
<1>1. calls[i].op = "firstTask" /\ world' = world
  BY DEF FirstTaskArrives, Answer, Indices
<1>2. \A o \in First : \A a : Flying(o, a, calls) => o = "firstTask" /\ a = calls[i].arg
  BY <1>1 DEF PipelineWatch, PipelineShows, Lone, Flying, First
<1>3. Flying("firstTask", calls[i].arg, calls)
  BY <1>1 DEF Flying
<1>4. CASE ok
  <2>1. PICK s \in {calls[i].arg, world}, stage \in Stages :
          /\ view' = [view EXCEPT !.task = s, !.stage = stage, !.covered = TRUE]
          /\ Reply(i, <<Call("firstLogs", stage)>>)
    BY <1>4 DEF FirstTaskArrives
  <2>2. /\ view'.stage = stage /\ view'.covered = TRUE /\ view'.log = view.log
        /\ view'.task = s /\ view'.es = view.es /\ view'.loading = view.loading
        /\ view'.mixed = view.mixed /\ view'.timer = view.timer /\ view'.calm = view.calm
    BY <2>1 DEF PipelineInv, PipelineFields
  <2>3. /\ \A o, a : Flying(o, a, calls') => Flying(o, a, calls) \/ (o = "firstLogs" /\ a = stage)
        /\ InFlight({"firstLogs"})'
    BY <2>1, ReplyOne DEF PipelineInv
  <2>4. Lone(First, calls')
    BY <1>1, <2>1, LoneReply DEF PipelineInv, PipelineWatch, PipelineShows, First
  <2>5. \A a : ~Flying("firstTask", a, calls')
    BY <2>3, <2>4 DEF Lone, Flying, First, InFlight
  <2>6. view.loading /\ \A a : ~Flying("logs", a, calls')
    BY <1>3, <2>3 DEF PipelineWatch, PipelineShows
  <2>7. Asks("logs", stage, calls')
    BY <2>6 DEF Asks, Flying
  <2>8. s \in Statuses /\ (s = "ended" => world = "ended")
    BY <1>3 DEF PipelineWatch, PipelineTypes, PipelineFollowed, Read
  <2>9. PipelineTypes'
    BY <1>1, <2>2, <2>8 DEF PipelineWatch, PipelineTypes
  <2>10. PipelineShows'
    BY <1>2, <2>2, <2>3, <2>4, <2>5, <2>6, <2>7 DEF PipelineWatch, PipelineShows, First
  <2>11. PipelineFollowed'
    BY <1>1, <2>2, <2>3, <2>6, <2>8 DEF PipelineWatch, PipelineFollowed, Read
  <2> QED
    BY <2>9, <2>10, <2>11 DEF PipelineWatch
<1>5. CASE ~ok
  <2>1. view' = [view EXCEPT !.loading = FALSE] /\ Reply(i, <<>>)
    BY <1>5 DEF FirstTaskArrives
  <2>2. /\ view'.stage = view.stage /\ view'.covered = view.covered /\ view'.log = view.log
        /\ view'.task = view.task /\ view'.es = view.es /\ view'.loading = FALSE
        /\ view'.mixed = view.mixed /\ view'.timer = view.timer /\ view'.calm = view.calm
    BY <2>1 DEF PipelineInv, PipelineFields
  <2>3. \A o, a : Flying(o, a, calls') => Flying(o, a, calls)
    BY <2>1, ReplyNone DEF PipelineInv
  <2>4. Lone(First, calls') /\ \A o \in First : \A a : ~Flying(o, a, calls')
    BY <1>1, <2>1, LoneReplyNone DEF PipelineInv, PipelineWatch, PipelineShows, First,
       InFlight, Flying
  <2>5. Asks("logs", view.stage, calls')
    BY <2>1, ReplyAsksNone DEF PipelineInv, PipelineWatch, PipelineShows
  <2>6. view.task = None /\ None # "RUNNING"
    BY <1>3 DEF PipelineWatch, PipelineShows, NoneApart
  <2>7. PipelineTypes'
    BY <1>1, <2>2 DEF PipelineWatch, PipelineTypes
  <2>8. PipelineShows'
    BY <2>2, <2>3, <2>4, <2>5 DEF PipelineWatch, PipelineShows, First
  <2>9. PipelineFollowed'
    BY <1>1, <2>2, <2>3, <2>6 DEF PipelineWatch, PipelineFollowed, Read
  <2> QED
    BY <2>7, <2>8, <2>9 DEF PipelineWatch
<1> QED
  BY <1>4, <1>5

LEMMA FirstLogsShown ==
  ASSUME On("Pipeline"), PipelineInv, PipelineWatch, page # None,
         NEW i \in DOMAIN calls, NEW ok \in BOOLEAN, FirstLogsArrive(i, ok)
  PROVE  PipelineWatch'
<1>1. calls[i].op = "firstLogs" /\ world' = world /\ Reply(i, <<>>)
  BY DEF FirstLogsArrive, Indices
<1>2. calls[i].arg = view.stage /\ view.stage \in Stages /\ view.loading
  BY <1>1 DEF PipelineWatch, PipelineShows, Flying
<1>3. PICK log \in Stages \cup {None} : log = IF ok THEN view.stage ELSE None
  BY <1>2
<1>4. PICK runs \in BOOLEAN : runs = (view.task = "RUNNING")
  OBVIOUS
<1>5. PICK es \in {"none", "open", "done"} : es = IF runs THEN "open" ELSE view.es
  BY DEF PipelineWatch, PipelineTypes
<1>6. view' = [view EXCEPT !.log = log, !.covered = FALSE, !.loading = FALSE,
                           !.es = es, !.timer = runs]
  BY <1>2, <1>3, <1>4, <1>5 DEF FirstLogsArrive
<1>7. /\ view'.stage = view.stage /\ view'.covered = FALSE /\ view'.log = log
      /\ view'.task = view.task /\ view'.es = es /\ view'.loading = FALSE
      /\ view'.mixed = view.mixed /\ view'.timer = runs /\ view'.calm = view.calm
  BY <1>6 DEF PipelineInv, PipelineFields
<1>8. \A o, a : Flying(o, a, calls') => Flying(o, a, calls)
  BY <1>1, ReplyNone DEF PipelineInv
<1>9. Lone(First, calls') /\ \A o \in First : \A a : ~Flying(o, a, calls')
  BY <1>1, LoneReplyNone DEF PipelineInv, PipelineWatch, PipelineShows, First,
     InFlight, Flying
<1>10. Asks("logs", view.stage, calls')
  BY <1>1, ReplyAsksNone DEF PipelineInv, PipelineWatch, PipelineShows
<1>11. PipelineTypes'
  BY <1>1, <1>7 DEF PipelineWatch, PipelineTypes
<1>12. PipelineShows'
  BY <1>3, <1>7, <1>8, <1>9, <1>10 DEF PipelineWatch, PipelineShows, First
<1>13. PipelineFollowed'
  \* The stream was not opened before, and nothing was polled.
  <2>1. view.es = "none" /\ \A a : ~Flying("poll", a, calls) /\ ~Flying("task", a, calls)
    BY <1>2 DEF PipelineWatch, PipelineFollowed
  <2>2. /\ es = "open" => runs
        /\ es = "none" => ~runs
        /\ es # "done" /\ (view.task = "RUNNING" => runs)
    BY <1>4, <1>5, <2>1
  <2>3. Read("firstTask")' /\ Read("task")' /\ Read("poll")'
    BY <1>1, <1>8 DEF PipelineWatch, PipelineFollowed, Read
  <2> QED
    BY <1>1, <1>7, <1>8, <2>1, <2>2, <2>3 DEF PipelineWatch, PipelineFollowed
<1> QED
  BY <1>11, <1>12, <1>13 DEF PipelineWatch

LEMMA LogsShown ==
  ASSUME PipelineInv, PipelineWatch, NEW i \in DOMAIN calls, NEW ok \in BOOLEAN, LogsArrive(i, ok)
  PROVE  PipelineWatch'
<1>1. calls[i].op = "logs" /\ world' = world /\ Reply(i, <<>>)
  BY DEF LogsArrive, Answer, Indices
<1>2. calls[i].arg \in Stages
  BY <1>1 DEF PipelineWatch, PipelineShows, Flying
<1>3. PICK log \in Stages \cup {None} : log = IF ok THEN calls[i].arg ELSE None
  BY <1>2
<1>4. PICK calm \in BOOLEAN : calm = (view.calm /\ calls[i].last)
  OBVIOUS
<1>5. view' = [view EXCEPT !.log = log, !.mixed = FALSE, !.covered = FALSE, !.calm = calm]
  BY <1>3, <1>4 DEF LogsArrive
<1>6. /\ view'.stage = view.stage /\ view'.covered = FALSE /\ view'.log = log
      /\ view'.task = view.task /\ view'.es = view.es /\ view'.loading = view.loading
      /\ view'.mixed = FALSE /\ view'.timer = view.timer /\ view'.calm = calm
  BY <1>5 DEF PipelineInv, PipelineFields
<1>7. /\ \A o, a : Flying(o, a, calls') => Flying(o, a, calls)
      /\ InFlight({"task"}) => InFlight({"task"})'
  BY <1>1, ReplyNone DEF PipelineInv
<1>8. Lone(First, calls') /\ Asks("logs", view.stage, calls')
  BY <1>1, LoneReplyNone, ReplyAsksNone DEF PipelineInv, PipelineWatch, PipelineShows
\* The answer applied last is that of the last call.
<1>9. calm => log \in {view.stage, None} /\ view.calm
  BY <1>1, <1>3, <1>4, AsksAlike DEF PipelineWatch, PipelineShows
<1>10. PipelineTypes'
  BY <1>1, <1>6 DEF PipelineWatch, PipelineTypes
<1>11. PipelineShows'
  BY <1>6, <1>7, <1>8, <1>9 DEF PipelineWatch, PipelineShows
<1>12. PipelineFollowed'
  BY <1>1, <1>6, <1>7, <1>9 DEF PipelineWatch, PipelineFollowed, Read
<1> QED
  BY <1>10, <1>11, <1>12 DEF PipelineWatch

LEMMA StatusShown ==
  ASSUME PipelineInv, PipelineWatch, NoneApart, NEW i \in DOMAIN calls, NEW ok \in BOOLEAN,
         refreshPipeline(i, ok)
  PROVE  PipelineWatch'
<1>1. calls[i].op \in {"task", "poll"} /\ world' = world /\ Reply(i, <<>>)
  BY DEF refreshPipeline, Answer
<1>2. PICK s \in {calls[i].arg, world} :
        LET shown == IF ok THEN s ELSE view.task
        IN  view' = [view EXCEPT !.task = shown,
                       !.timer = @ /\ (calls[i].op = "poll" => shown # "ended"),
                       !.calm = @ /\ s = world /\ (ok \/ calls[i].op = "poll")]
  BY DEF refreshPipeline
<1>3. s \in Statuses /\ (s = "ended" => world = "ended")
  BY <1>1 DEF PipelineWatch, PipelineTypes, PipelineFollowed, Read, Flying
<1>4. PICK shown \in Statuses \cup {None} : shown = IF ok THEN s ELSE view.task
  BY <1>3 DEF PipelineWatch, PipelineTypes
<1>5. PICK timer \in BOOLEAN : timer = (view.timer /\ (calls[i].op = "poll" => shown # "ended"))
  OBVIOUS
<1>6. PICK calm \in BOOLEAN :
        calm = (view.calm /\ s = world /\ (ok \/ calls[i].op = "poll"))
  OBVIOUS
<1>7. view' = [view EXCEPT !.task = shown, !.timer = timer, !.calm = calm]
  BY <1>2, <1>4, <1>5, <1>6
<1>8. /\ view'.stage = view.stage /\ view'.covered = view.covered /\ view'.log = view.log
      /\ view'.task = shown /\ view'.es = view.es /\ view'.loading = view.loading
      /\ view'.mixed = view.mixed /\ view'.timer = timer /\ view'.calm = calm
  BY <1>7 DEF PipelineInv, PipelineFields
<1>9. /\ \A o, a : Flying(o, a, calls') => Flying(o, a, calls)
      /\ calls[i].op = "poll" /\ InFlight({"task"}) => InFlight({"task"})'
  BY <1>1, ReplyNone DEF PipelineInv
<1>10. Lone(First, calls') /\ Asks("logs", view.stage, calls')
  BY <1>1, LoneReplyNone, ReplyAsksNone DEF PipelineInv, PipelineWatch, PipelineShows
<1>11. PipelineTypes'
  BY <1>1, <1>8 DEF PipelineWatch, PipelineTypes
<1>12. PipelineShows'
  <2>1. calm => view.calm
    BY <1>6
  <2>2. \A a : ~Flying("firstTask", a, calls)
    \* By now the stream was opened, so the page is loaded.
    <3>1. view.es # "none"
      BY <1>1 DEF PipelineWatch, PipelineFollowed, Flying
    <3> QED
      BY <3>1 DEF PipelineWatch, PipelineShows, PipelineFollowed
  <2> QED
    BY <1>8, <1>9, <1>10, <2>1, <2>2 DEF PipelineWatch, PipelineShows
<1>13. PipelineFollowed'
  <2>1. view.es # "none" /\ ~view.loading /\ (calls[i].op = "task" => view.es = "done")
    BY <1>1 DEF PipelineWatch, PipelineFollowed, Flying
  <2>2. shown = "ended" => world = "ended"
    BY <1>3, <1>4 DEF PipelineWatch, PipelineFollowed
  <2>3. view.es = "open" => timer \/ world = "ended"
    BY <1>5, <2>1, <2>2 DEF PipelineWatch, PipelineFollowed
  <2>4. ASSUME calm, shown = "RUNNING" PROVE timer \/ InFlight({"task"})'
    <3>1. view.calm /\ s = world /\ (ok \/ calls[i].op = "poll")
      BY <1>6, <2>4
    <3>2. CASE ok
      BY <1>4, <2>1, <2>3, <2>4, <3>1, <3>2 DEF PipelineWatch, PipelineTypes, PipelineFollowed
    <3>3. CASE ~ok
      <4>1. calls[i].op = "poll" /\ view.task = "RUNNING"
        BY <1>4, <2>4, <3>1, <3>3
      <4>2. shown # "ended"
        BY <2>4
      <4>3. view.timer => timer
        BY <1>5, <4>2, Zenon
      <4> QED
        BY <1>9, <2>1, <3>1, <4>1, <4>3 DEF PipelineWatch, PipelineFollowed
    <3> QED
      BY <3>2, <3>3
  <2>5. Read("firstTask")' /\ Read("task")' /\ Read("poll")'
    BY <1>1, <1>9 DEF PipelineWatch, PipelineFollowed, Read
  <2> QED
    BY <1>1, <1>8, <1>9, <2>1, <2>2, <2>3, <2>4, <2>5 DEF PipelineWatch, PipelineFollowed
<1> QED
  BY <1>11, <1>12, <1>13 DEF PipelineWatch

LEMMA PipelineWatched ==
  ASSUME On("Pipeline"), PipelineInv, PipelineWatch, UserActs \/ Arrivals, NoneApart
  PROVE  PipelineWatch'
<1>0. page # None /\ ~List /\ ~On("Tasks") /\ ~On("Queue") /\ ~On("Dashboard")
  BY DEF NoneApart, Views, On, List
<1>1. CASE UserActs
  BY <1>0, <1>1, StageSelected, OffLists, OffQueue DEF UserActs
<1>2. CASE Arrivals
  BY <1>0, <1>2, PipelineGoesOn, PipelineLoads, FirstLogsShown, LogsShown, StatusShown,
     OffLists, OffQueue, OffDashboard DEF Arrivals
<1> QED
  BY <1>1, <1>2

-----------------------------------------------------------------------------
(* Visits *)

DashboardTypes == view \in [loading : BOOLEAN, stats : BOOLEAN]

PagesInv ==
  /\ List => ListInv /\ ListTypes
  /\ On("Queue") => QueueInv /\ QueueTypes
  /\ On("Pipeline") => PipelineInv /\ PipelineWatch
  /\ On("Dashboard") => DashboardInv /\ DashboardTypes

LEMMA EnterList ==
  ASSUME NEW p \in {"Tasks", "Releases"}, NEW filter \in Filters \cup {None}, 1 \in Pages,
         NEW op \in {"list", "settings"}, NEW arg, op = "list" => arg = [filter |-> filter, page |-> 1],
         Mount(p, [loading |-> TRUE, filter |-> filter, page |-> 1, rows |-> None,
                   selected |-> {}, dialog |-> None, box |-> None, calm |-> TRUE],
               None, <<Call(op, arg)>>)
  PROVE  PagesInv'
<1>1. /\ page' = p /\ DOMAIN view' = ListFields /\ view'.dialog = None
      /\ view'.loading = TRUE /\ view'.filter = filter /\ view'.page = 1 /\ view'.rows = None
      /\ view'.selected = {} /\ view'.box = None /\ view'.calm = TRUE
  BY DEF Mount, ListFields
<1>2. /\ AreCalls(calls') /\ InFlight({"list", "settings"})'
      /\ \A o, a : Flying(o, a, calls') <=> o = op /\ a = arg
  BY MountOne
<1>3. [filter |-> filter, page |-> 1] \in ListArgs
  BY DEF ListArgs
<1>4. ListInv'
  BY <1>1, <1>2 DEF ListInv
<1>5. ListTypes'
  BY <1>1, <1>2, <1>3 DEF ListTypes
<1> QED
  BY <1>1, <1>4, <1>5 DEF PagesInv, List, On

LEMMA EnterPages ==
  ASSUME Enter, NoneApart, 1 \in Pages PROVE PagesInv'
<1>1. CASE EnterTasks
  <2>1. PICK op, arg :
          /\ op \in {"list", "settings"}
          /\ op = "list" => arg = [filter |-> None, page |-> 1]
          /\ Mount("Tasks",
                   [loading |-> TRUE, filter |-> None, page |-> 1, rows |-> None,
                    selected |-> {}, dialog |-> None, box |-> None, calm |-> TRUE],
                   None, <<Call(op, arg)>>)
    BY <1>1 DEF EnterTasks
  <2> QED
    BY <2>1, EnterList
<1>2. CASE EnterReleases
  BY <1>2, EnterList DEF EnterReleases
<1>3. CASE EnterQueue
  <2>1. /\ page' = "Queue" /\ DOMAIN view' = QueueFields /\ world' = Ready
        /\ view'.box = None /\ view'.triggered = {} /\ view'.drawer = None
        /\ view'.records = None /\ view'.loading = TRUE /\ view'.timer = FALSE
        /\ view'.shown = FALSE
    BY <1>3 DEF EnterQueue, Mount, QueueFields
  <2>2. /\ AreCalls(calls') /\ InFlight({"firstQueue"})'
        /\ \A o, a : Flying(o, a, calls') => o = "firstQueue"
    BY <1>3, MountOne DEF EnterQueue
  <2>3. QueueInv' /\ QueueTypes'
    BY <2>1, <2>2 DEF QueueInv, QueueTypes
  <2> QED
    BY <2>1, <2>3 DEF PagesInv, List, On
<1>4. CASE EnterPipeline
  <2>1. PICK s \in Statuses :
          Mount("Pipeline",
                [loading |-> TRUE, task |-> None, stage |-> None, log |-> None,
                 mixed |-> FALSE, covered |-> FALSE, es |-> "none", timer |-> FALSE,
                 calm |-> TRUE],
                s, <<Call("firstTask", s)>>)
    BY <1>4 DEF EnterPipeline, Statuses
  <2>2. /\ page' = "Pipeline" /\ world' = s /\ DOMAIN view' = PipelineFields
        /\ view'.covered = FALSE /\ view'.loading = TRUE /\ view'.task = None
        /\ view'.stage = None /\ view'.log = None /\ view'.mixed = FALSE
        /\ view'.es = "none" /\ view'.timer = FALSE /\ view'.calm = TRUE
    BY <2>1 DEF Mount, PipelineFields
  <2>3. /\ AreCalls(calls') /\ InFlight(First)'
        /\ \A o, a : Flying(o, a, calls') <=> o = "firstTask" /\ a = s
    BY <2>1, MountOne DEF First
  <2>4. Lone(First, calls') /\ Asks("logs", None, calls')
    BY <2>1, MountLone
  <2>5. PipelineInv'
    BY <2>2, <2>3 DEF PipelineInv
  <2>6. PipelineTypes' /\ PipelineShows'
    BY <2>2, <2>3, <2>4 DEF PipelineTypes, PipelineShows
  <2>7. None \notin Statuses
    BY DEF NoneApart, Statuses
  <2>8. PipelineFollowed'
    BY <2>2, <2>3, <2>7 DEF PipelineFollowed, Read, Statuses
  <2> QED
    BY <2>2, <2>5, <2>6, <2>8 DEF PagesInv, PipelineWatch, List, On
<1>5. CASE EnterDashboard
  <2>1. page' = "Dashboard" /\ view' = [loading |-> TRUE, stats |-> FALSE]
    BY <1>5 DEF EnterDashboard, Mount
  <2>2. AreCalls(calls') /\ InFlight({"dashboard"})'
    BY <1>5, MountOne DEF EnterDashboard
  <2>3. DashboardTypes'
    BY <2>1 DEF DashboardTypes
  <2> QED
    BY <2>1, <2>2, <2>3 DEF PagesInv, DashboardInv, List, On
<1> QED
  BY <1>1, <1>2, <1>3, <1>4, <1>5 DEF Enter

LEMMA DashboardTyped ==
  ASSUME On("Dashboard"), DashboardTypes, UserActs \/ Arrivals, NoneApart
  PROVE  DashboardTypes'
<1>0. page # None /\ ~List /\ ~On("Tasks") /\ ~On("Queue") /\ ~On("Pipeline")
  BY DEF NoneApart, Views, On, List
<1>1. PICK i \in DOMAIN calls, ok \in BOOLEAN : DashboardArrives(i, ok)
  <2>1. ~UserActs
    BY <1>0, OffLists, OffQueue, OffPipeline DEF UserActs
  <2> QED
    BY <1>0, <2>1, OffLists, OffQueue, OffPipeline DEF Arrivals
<1> QED
  BY <1>1 DEF DashboardArrives, DashboardTypes

LEMMA OutsideBuilds ==
  ASSUME page' \notin Views PROVE PagesInv'
  BY DEF PagesInv, Views, List, On

LEMMA BlankPage ==
  ASSUME page' = None, NoneApart PROVE PagesInv'
  BY OutsideBuilds DEF NoneApart

LEMMA VisitStep ==
  ASSUME PagesInv, [Enter \/ Leave \/ Next]_console, NoneApart, RecordsAreLists, 1 \in Pages
  PROVE  PagesInv'
<1>0. RecordsListed
  BY ListsAreListed
<1>1. CASE Enter
  BY <1>1, EnterPages
<1>2. CASE Leave
  <2>1. page' = None
    BY <1>2 DEF Leave, LeaveQueue, LeavePipeline, LeaveWith
  <2> QED
    BY <2>1, BlankPage
<1>3. CASE Next
  <2>1. (UserActs \/ Arrivals) /\ page \in Views \cup {None}
    BY <1>3 DEF Next
  <2>2. CASE List
    BY <2>1, <2>2, ListStep, ListTyped DEF PagesInv, List, On
  <2>3. CASE On("Queue")
    BY <1>0, <2>1, <2>3, QueueStep, QueueTyped DEF PagesInv, List, On
  <2>4. CASE On("Pipeline")
    BY <2>1, <2>4, PipelineStep, PipelineWatched DEF PagesInv, List, On
  <2>5. CASE On("Dashboard")
    BY <2>1, <2>5, DashboardStep, DashboardTyped DEF PagesInv, List, On
  <2>6. CASE page = None
    <3>1. Arrivals /\ ~List /\ ~On("Tasks") /\ ~On("Queue") /\ ~On("Pipeline")
          /\ ~On("Dashboard")
      BY <1>3, <2>6 DEF Next, NoneApart, Views, List, On
    <3>2. PICK i \in DOMAIN calls, ok \in BOOLEAN :
            load(i, ok) \/ FirstTaskArrives(i, ok) \/ FirstLogsArrive(i, ok)
      BY <3>1, OffLists, OffQueue, OffPipeline, OffDashboard DEF Arrivals
    <3>3. page' = page
      BY <3>2 DEF load, FirstTaskArrives, FirstLogsArrive, Answer
    <3> QED
      BY <2>6, <3>3, BlankPage
  <2> QED
    BY <2>1, <2>2, <2>3, <2>4, <2>5, <2>6 DEF Views, List, On
<1>4. CASE UNCHANGED console
  <2>1. page' = page /\ view' = view /\ calls' = calls /\ world' = world
    BY <1>4 DEF console
  <2>2. /\ List => ListInv'
        /\ On("Pipeline") => PipelineInv'
        /\ On("Dashboard") => DashboardInv'
    BY <2>1 DEF PagesInv, ListInv, PipelineInv, DashboardInv, InFlight
  <2>3. On("Queue") => QueueInv'
    BY <2>1 DEF PagesInv, QueueInv, InFlight, Lists, Waiting
  <2>4. /\ List => ListTypes'
        /\ On("Queue") => QueueTypes'
        /\ On("Dashboard") => DashboardTypes'
    BY <2>1 DEF PagesInv, ListTypes, QueueTypes, DashboardTypes
  <2>5. On("Pipeline") => PipelineWatch'
    BY <2>1 DEF PagesInv, PipelineWatch, PipelineTypes, PipelineShows, PipelineFollowed, Read,
       InFlight
  <2> QED
    BY <2>1, <2>2, <2>3, <2>4, <2>5 DEF PagesInv, List, On
<1> QED
  BY <1>1, <1>2, <1>3, <1>4

LEMMA VisitsInvariant ==
  ASSUME NoneApart, RecordsAreLists, 1 \in Pages PROVE Visits => []PagesInv
<1>1. Init => PagesInv
  BY DEF Init, PagesInv, NoneApart, Views, List, On
<1>2. PagesInv /\ [Enter \/ Leave \/ Next]_console => PagesInv'
  BY VisitStep
<1> QED
  BY <1>1, <1>2, PTL DEF Visits

\* What the pages promise, of their parts.
LEMMA PagesPromises ==
  ASSUME PagesInv
  PROVE  TypeOK /\ BusyEnds /\ WritesOwnSubject /\ DrawerMatches /\ ReportedIsDeployed
         /\ FollowsPipeline
<1>1. BusyEnds
  BY DEF PagesInv, ListInv, QueueInv, PipelineInv, DashboardInv, BusyEnds, First, Logs
<1>2. WritesOwnSubject
  BY DEF PagesInv, ListInv, List, On, WritesOwnSubject, Flying, Indices
<1>3. ReportedIsDeployed
  BY DEF PagesInv, QueueInv, ReportedIsDeployed, Waiting
<1>4. DrawerMatches
  BY DEF PagesInv, QueueTypes, DrawerMatches
<1>5. TypeOK
  <2>1. List => [filter |-> view.filter, page |-> view.page] \in ListArgs
    BY DEF PagesInv, ListTypes, ListArgs
  <2>2. /\ List => {view.loading, view.calm} \subseteq BOOLEAN
        /\ On("Queue") => {view.loading, view.timer, view.shown} \subseteq BOOLEAN
        /\ On("Pipeline") =>
             {view.loading, view.mixed, view.covered, view.timer, view.calm} \subseteq BOOLEAN
    BY DEF PagesInv, ListTypes, QueueTypes, PipelineWatch, PipelineTypes
  <2>3. /\ On("Queue") => {view.drawer, view.records} \subseteq Batches \cup {None}
        /\ On("Pipeline") => {view.stage, view.log} \subseteq Stages \cup {None}
        /\ On("Pipeline") => {view.task, world} \subseteq {"PENDING", "RUNNING", "ended", None}
    BY DEF PagesInv, QueueTypes, PipelineWatch, PipelineTypes, Statuses
  <2> QED
    BY <2>1, <2>2, <2>3 DEF TypeOK, PagesInv, ListTypes, QueueInv, QueueTypes, PipelineWatch,
       PipelineTypes, DashboardTypes
<1>6. FollowsPipeline
  BY DEF PagesInv, PipelineWatch, PipelineShows, PipelineFollowed, FollowsPipeline
<1> QED
  BY <1>1, <1>2, <1>3, <1>4, <1>5, <1>6

\* No order of answers, failures and clicks leaves an overlay up with nothing in
\* flight that ends it.
THEOREM BuildPagesNeverStuck ==
  ASSUME NoneApart, RecordsAreLists, 1 \in Pages PROVE Visits => []BusyEnds
  BY PagesPromises, VisitsInvariant, PTL

\* A batch execution runs the tasks that were selected as its dialog opened, unless
\* the rows were loaded again under it.
THEOREM BatchRunsItsTasks ==
  ASSUME NoneApart, RecordsAreLists, 1 \in Pages PROVE Visits => []WritesOwnSubject
  BY PagesPromises, VisitsInvariant, PTL

\* The queue reports a batch as triggered only when each of its pipelines was
\* deployed, whatever calls failed and whichever run deployed it.
THEOREM ReportedBatchesDeployed ==
  ASSUME NoneApart, RecordsAreLists, 1 \in Pages PROVE Visits => []ReportedIsDeployed
  BY PagesPromises, VisitsInvariant, PTL

\* The page of a pipeline polls as long as it shows it as running, or its last
\* refresh is in flight, and its log is that of the stage selected: unless a call
\* failed or an answer was late.
THEOREM PipelineIsFollowed ==
  ASSUME NoneApart, RecordsAreLists, 1 \in Pages PROVE Visits => []FollowsPipeline
  BY PagesPromises, VisitsInvariant, PTL

-----------------------------------------------------------------------------
(* The artifact views *)

CONSTANTS ArtifactClicks, Jobs, Listings, NameRank, Versions, DirOf, FilesOf

A == INSTANCE ArtifactPages WITH MaxClicks <- ArtifactClicks, Rank <- NameRank

LEMMA ArtifactsConsole ==
  /\ \A new : A!Send(new) <=> Send(new)
  /\ \A i, new : A!Reply(i, new) <=> Reply(i, new)
  /\ \A op, arg : A!Call(op, arg) = Call(op, arg)
  /\ \A op, i : i \in A!Indices(op) <=> i \in DOMAIN calls /\ calls[i].op = op
  /\ \A ops : A!InFlight(ops) <=> InFlight(ops)
  /\ \A s, i : A!Without(s, i) = Without(s, i)
  BY Zenon DEF A!Send, Send, A!Reply, Reply, A!Sent, Sent, A!Outdates, Outdates, A!Without,
     Without, A!Call, Call, A!Indices, A!InFlight, InFlight

LEMMA ArtifactsMount ==
  ASSUME NEW p, NEW refs, NEW servers, NEW new PROVE
  A!Mount(p, refs, servers, new) <=> Mount(p, refs, servers, new)
  BY Zenon DEF A!Mount, Mount, A!Sent, Sent, A!Outdates, Outdates

\* A step keeps the view mounted, and a view that was left has no more to leave.
LEMMA ArtifactsStay ==
  ASSUME A!Next, A!NoneApart
  PROVE  page \in A!Views \cup {None} /\ Stays
<1> USE DEF A!NoneApart, A!Views
<1>1. A!loadRemoteDir \/ A!handleRemoteDownload \/ A!uploadEntries
      \/ A!handleLatestChange \/ A!loadBatches => page' = page
  BY DEF A!loadRemoteDir, A!User, A!handleRemoteDownload, A!uploadEntries,
     A!handleLatestChange, A!LoadList, A!loadBatches
<1>2. A!loadDetail \/ A!loadDeployBatch \/ A!handleRollback \/ A!loadVersions
      \/ A!resetSelection => page' = page
  BY DEF A!loadDetail, A!User, A!loadDeployBatch, A!handleRollback, A!loadVersions,
     A!resetSelection
<1>3. A!executeDeploy => page' = page
  BY DEF A!executeDeploy, A!User
<1>4. \A x : A!SwitchMode(x) \/ A!handlePageChange(x) \/ A!handleSizeChange(x)
             \/ A!handleRedownloadItem(x) \/ A!handleReplaceItem(x) => page' = page
  BY DEF A!SwitchMode, A!User, A!handlePageChange, A!LoadList, A!handleSizeChange,
     A!handleRedownloadItem, A!Operate, A!handleReplaceItem
<1>5. \A x : A!handleDeleteItem(x) \/ A!handleReplaceInput(x) \/ A!AnswerBox(x)
             \/ A!selectVersion(x) \/ A!ChooseFiles(x) => page' = page
  BY DEF A!handleDeleteItem, A!User, A!handleReplaceInput, A!Operate, A!AnswerBox,
     A!selectVersion, A!ChooseFiles
<1>6. A!TimerFires \/ A!JobEnds \/ A!Deployed => Stays
  BY DEF A!TimerFires, A!Fires, A!Answer, A!JobEnds, A!Deployed, A!On, A!Views, Stays
<1>7. \A i : A!UploadFails(i) \/ A!VersionsArrive(i) \/ A!SettingsArrive(i)
             \/ A!ExecuteFails(i) \/ A!LooseTimerFires(i) => Stays
  BY DEF A!UploadFails, A!Answer, A!VersionsArrive, A!SettingsArrive,
     A!ExecuteFails, A!LooseTimerFires, A!Fires, A!On, Stays
<1>8. \A i, ok : A!loadSettingsAndRemoteRoot(i, ok)
                 \/ A!restoreActiveDownloadJob(i, ok) \/ A!DirArrives(i, ok)
                 \/ A!DownloadStarted(i, ok) \/ A!ListArrives(i, ok) => Stays
  BY DEF A!loadSettingsAndRemoteRoot, A!Answer, A!restoreActiveDownloadJob,
     A!DirArrives, A!DownloadStarted, A!ListArrives, A!On, A!Views, Stays
<1>9. \A i, ok : A!DetailArrives(i, ok) \/ A!BatchArrives(i, ok)
                 \/ A!applyVersionResult(i, ok) \/ A!RolledBack(i, ok)
                 \/ A!ReadyArrive(i, ok) => Stays
  BY DEF A!DetailArrives, A!Answer, A!BatchArrives, A!applyVersionResult,
     A!RolledBack, A!ReadyArrive, A!On, Stays
<1>10. \A i, ok : A!loadVersionDetail(i, ok) => Stays
  BY DEF A!loadVersionDetail, A!Answer, A!On, Stays
<1>11. \A i, ok : A!ProgressArrives(i, ok) => Stays
  BY DEF A!ProgressArrives, A!On, A!Residue, A!Views, Stays
<1> QED
  BY <1>1, <1>2, <1>3, <1>4, <1>5, <1>6, <1>7, <1>8, <1>9, <1>10, <1>11 DEF
     A!Next, A!UserActs, A!Arrivals, A!Views, Stays

\* What the controls of the list ask for.
ListWanted == [latest |-> view.latest, page |-> view.page,
               size |-> IF view.latest THEN 500 ELSE view.size]

ArtifactFields == {"loading", "latest", "page", "size", "rows", "calm"}

\* As long as nothing was out of turn, what was asked for last is what the
\* controls say, and is shown or still to be answered.
ArtifactsInv ==
  /\ DOMAIN view = ArtifactFields /\ AreCalls(calls)
  /\ view.loading \in BOOLEAN /\ view.calm \in BOOLEAN
  /\ view.latest \in BOOLEAN /\ view.page \in 1 .. 2 /\ view.size \in {20, 50}
  /\ view.rows \in A!ListArgs \cup {None}
  /\ \A a : Flying("artifacts", a, calls) => a \in A!ListArgs
  /\ view.loading => InFlight({"artifacts"})
  /\ view.calm => /\ Asks("artifacts", ListWanted, calls)
                  /\ view.rows = ListWanted \/ Latest("artifacts", calls)

LEMMA ListLoads ==
  ASSUME ArtifactsInv, NEW refs, A!LoadList(refs), DOMAIN refs = ArtifactFields,
         refs.latest \in BOOLEAN, refs.page \in 1 .. 2, refs.size \in {20, 50},
         refs.rows = view.rows, refs.calm = view.calm
  PROVE  ArtifactsInv'
<1> USE ArtifactsConsole
<1> DEFINE want == [latest |-> refs.latest, page |-> refs.page,
                    size |-> IF refs.latest THEN 500 ELSE refs.size]
<1>1. view' = [refs EXCEPT !.loading = TRUE] /\ Send(<<Call("artifacts", want)>>)
  BY DEF A!LoadList, A!ListCall
<1>2. /\ DOMAIN view' = ArtifactFields /\ view'.loading = TRUE
      /\ view'.latest = refs.latest /\ view'.page = refs.page /\ view'.size = refs.size
      /\ view'.rows = view.rows /\ view'.calm = view.calm
  BY <1>1 DEF ArtifactFields
<1>3. ListWanted' = want
  BY <1>2 DEF ListWanted
<1>4. want \in A!ListArgs
  BY DEF A!ListArgs
<1> HIDE DEF want
<1>5. /\ AreCalls(calls') /\ InFlight({"artifacts"})'
      /\ \A o, a : Flying(o, a, calls') <=> Flying(o, a, calls) \/ (o = "artifacts" /\ a = want)
  BY <1>1, SendOne DEF ArtifactsInv
<1>6. Asks("artifacts", want, calls') /\ Latest("artifacts", calls')
  BY <1>1, SendAsks, SendLatest DEF ArtifactsInv
<1>7. \A a : Flying("artifacts", a, calls') => a \in A!ListArgs
  BY <1>4, <1>5 DEF ArtifactsInv
<1>8. /\ view'.rows \in A!ListArgs \cup {None} /\ view'.calm \in BOOLEAN
      /\ view'.latest \in BOOLEAN /\ view'.page \in 1 .. 2 /\ view'.size \in {20, 50}
  BY <1>2 DEF ArtifactsInv
<1> QED
  BY <1>2, <1>3, <1>5, <1>6, <1>7, <1>8 DEF ArtifactsInv

LEMMA ListArrived ==
  ASSUME ArtifactsInv, NEW i \in DOMAIN calls, NEW ok \in BOOLEAN, A!ListArrives(i, ok)
  PROVE  ArtifactsInv'
<1> USE ArtifactsConsole
<1>1. calls[i].op = "artifacts" /\ Reply(i, <<>>)
  BY DEF A!ListArrives
<1>2. calls[i].arg \in A!ListArgs
  BY <1>1 DEF ArtifactsInv, Flying
<1>3. PICK calm \in BOOLEAN : calm = (view.calm /\ ok /\ calls[i].last)
  OBVIOUS
<1>4. PICK rows \in A!ListArgs \cup {None} : rows = IF ok THEN calls[i].arg ELSE None
  BY <1>2
<1>5. view' = [view EXCEPT !.rows = rows, !.loading = FALSE, !.calm = calm]
  BY <1>3, <1>4 DEF A!ListArrives, A!Calmly
<1>6. /\ DOMAIN view' = ArtifactFields /\ view'.loading = FALSE
      /\ view'.latest = view.latest /\ view'.page = view.page /\ view'.size = view.size
      /\ view'.rows = rows /\ view'.calm = calm
  BY <1>5 DEF ArtifactsInv, ArtifactFields
<1>7. /\ AreCalls(calls') /\ \A o, a : Flying(o, a, calls') => Flying(o, a, calls)
      /\ \A o, a : Asks(o, a, calls) => Asks(o, a, calls')
  BY <1>1, ReplyNone, ReplyAsksNone DEF ArtifactsInv
<1>8. ListWanted' = ListWanted
  BY <1>6 DEF ListWanted
<1>9. ASSUME calm PROVE rows = ListWanted
  <2>1. Asks("artifacts", ListWanted, calls)
    BY <1>3, <1>9 DEF ArtifactsInv
  <2> QED
    BY <1>1, <1>3, <1>4, <1>9, <2>1 DEF Asks
<1>10. calm => Asks("artifacts", ListWanted, calls)
  BY <1>3 DEF ArtifactsInv
<1> QED
  BY <1>6, <1>7, <1>8, <1>9, <1>10 DEF ArtifactsInv

LEMMA ArtifactsStep ==
  ASSUME ArtifactsInv, page = "Artifacts", page # None, A!Next
  PROVE  ArtifactsInv'
<1> USE ArtifactsConsole
<1>0. /\ ~A!On("Collect") /\ ~A!On("Versions") /\ ~A!On("Version") /\ ~A!On("Batch")
      /\ page # None /\ page \notin {"Collect", None}
  BY DEF A!On
<1>1. ASSUME A!handleLatestChange PROVE ArtifactsInv'
  <2> DEFINE refs == [view EXCEPT !.latest = ~view.latest, !.page = 1]
  <2>1. PICK b \in BOOLEAN : b = ~view.latest
    OBVIOUS
  <2>2. refs = [view EXCEPT !.latest = b, !.page = 1] /\ A!LoadList(refs)
    BY <1>1, <2>1 DEF A!handleLatestChange
  <2> HIDE DEF refs
  <2>3. /\ DOMAIN refs = ArtifactFields /\ refs.latest = b /\ refs.page = 1
        /\ refs.size = view.size /\ refs.rows = view.rows /\ refs.calm = view.calm
    BY <2>2 DEF ArtifactsInv, ArtifactFields
  <2>4. refs.size \in {20, 50} /\ refs.page \in 1 .. 2
    BY <2>3 DEF ArtifactsInv
  <2> QED
    BY <2>2, <2>3, <2>4, ListLoads
<1>2. ASSUME NEW n \in 1 .. 2, A!handlePageChange(n) PROVE ArtifactsInv'
  <2> DEFINE refs == [view EXCEPT !.page = n]
  <2>1. A!LoadList(refs)
    BY <1>2 DEF A!handlePageChange
  <2>2. /\ DOMAIN refs = ArtifactFields /\ refs.latest = view.latest /\ refs.page = n
        /\ refs.size = view.size /\ refs.rows = view.rows /\ refs.calm = view.calm
    BY DEF ArtifactsInv, ArtifactFields
  <2> HIDE DEF refs
  <2>3. refs.size \in {20, 50} /\ refs.latest \in BOOLEAN
    BY <2>2 DEF ArtifactsInv
  <2> QED
    BY <2>1, <2>2, <2>3, ListLoads
<1>3. ASSUME NEW n \in {20, 50}, A!handleSizeChange(n) PROVE ArtifactsInv'
  <2> DEFINE refs == [view EXCEPT !.size = n, !.page = 1]
  <2>1. A!LoadList(refs)
    BY <1>3 DEF A!handleSizeChange
  <2>2. /\ DOMAIN refs = ArtifactFields /\ refs.latest = view.latest /\ refs.page = 1
        /\ refs.size = n /\ refs.rows = view.rows /\ refs.calm = view.calm
    BY DEF ArtifactsInv, ArtifactFields
  <2> HIDE DEF refs
  <2>3. refs.page \in 1 .. 2 /\ refs.latest \in BOOLEAN
    BY <2>2 DEF ArtifactsInv
  <2> QED
    BY <2>1, <2>2, <2>3, ListLoads
<1>4. ASSUME A!UserActs PROVE ArtifactsInv'
  <2>1. /\ ~A!loadRemoteDir /\ ~A!handleRemoteDownload /\ ~A!uploadEntries /\ ~A!loadBatches
        /\ ~A!loadDetail /\ ~A!loadDeployBatch /\ ~A!handleRollback
        /\ ~A!loadVersions /\ ~A!resetSelection /\ ~A!executeDeploy
    BY <1>0 DEF A!loadRemoteDir, A!handleRemoteDownload, A!uploadEntries, A!loadBatches,
       A!loadDetail, A!loadDeployBatch, A!handleRollback, A!loadVersions, A!resetSelection,
       A!executeDeploy, A!Free
  <2>2. \A x : /\ ~A!SwitchMode(x) /\ ~A!handleRedownloadItem(x) /\ ~A!handleReplaceItem(x)
               /\ ~A!handleDeleteItem(x) /\ ~A!handleReplaceInput(x) /\ ~A!AnswerBox(x)
               /\ ~A!selectVersion(x) /\ ~A!ChooseFiles(x)
    BY <1>0 DEF A!SwitchMode, A!handleRedownloadItem, A!handleReplaceItem, A!handleDeleteItem,
       A!handleReplaceInput, A!AnswerBox, A!selectVersion, A!ChooseFiles, A!Row, A!Free
  <2> QED
    BY <1>1, <1>2, <1>3, <1>4, <2>1, <2>2 DEF A!UserActs
<1>5. ASSUME A!Arrivals PROVE ArtifactsInv'
  <2>1. \A i : /\ ~A!UploadFails(i) /\ ~A!VersionsArrive(i) /\ ~A!SettingsArrive(i)
               /\ ~A!ExecuteFails(i)
    BY <1>0 DEF A!UploadFails, A!VersionsArrive, A!SettingsArrive, A!ExecuteFails
  <2>2. \A i, ok : /\ ~A!loadSettingsAndRemoteRoot(i, ok) /\ ~A!restoreActiveDownloadJob(i, ok)
                   /\ ~A!DirArrives(i, ok) /\ ~A!DownloadStarted(i, ok)
                   /\ ~A!ProgressArrives(i, ok)
    BY <1>0 DEF A!loadSettingsAndRemoteRoot, A!restoreActiveDownloadJob, A!DirArrives,
       A!DownloadStarted, A!ProgressArrives
  <2>3. \A i, ok : /\ ~A!DetailArrives(i, ok) /\ ~A!BatchArrives(i, ok)
                   /\ ~A!applyVersionResult(i, ok) /\ ~A!RolledBack(i, ok)
                   /\ ~A!ReadyArrive(i, ok) /\ ~A!loadVersionDetail(i, ok)
    BY <1>0 DEF A!DetailArrives, A!BatchArrives, A!applyVersionResult, A!RolledBack,
       A!ReadyArrive, A!loadVersionDetail
  <2>4. ~A!TimerFires /\ ~A!JobEnds /\ ~A!Deployed
    BY <1>0 DEF A!TimerFires, A!JobEnds, A!Deployed
  <2> QED
    BY <1>0, <1>5, <2>1, <2>2, <2>3, <2>4, ListArrived DEF A!Arrivals
<1> QED
  BY <1>4, <1>5 DEF A!Next

VersionsInv ==
  /\ DOMAIN view = {"loading"} /\ AreCalls(calls)
  /\ view.loading => InFlight({"versions"})

LEMMA VersionsStep ==
  ASSUME VersionsInv, page = "Versions", page # None, A!Next
  PROVE  VersionsInv'
<1> USE ArtifactsConsole
<1>0. /\ ~A!On("Collect") /\ ~A!On("Artifacts") /\ ~A!On("Version") /\ ~A!On("Batch")
      /\ page # None /\ page \notin {"Collect", None}
  BY DEF A!On
<1>1. ASSUME A!loadBatches PROVE VersionsInv'
  <2>1. view' = [loading |-> TRUE] /\ Send(<<Call("versions", None)>>)
    BY <1>1 DEF A!loadBatches
  <2>2. AreCalls(calls') /\ InFlight({"versions"})'
    BY <2>1, SendOne DEF VersionsInv
  <2> QED
    BY <2>1, <2>2 DEF VersionsInv
<1>2. ASSUME NEW i \in DOMAIN calls, A!VersionsArrive(i) PROVE VersionsInv'
  <2>1. view' = [loading |-> FALSE] /\ Reply(i, <<>>)
    BY <1>2 DEF A!VersionsArrive
  <2>2. AreCalls(calls')
    BY <2>1, ReplyNone DEF VersionsInv
  <2> QED
    BY <2>1, <2>2 DEF VersionsInv
<1>3. ASSUME A!UserActs PROVE VersionsInv'
  <2>1. /\ ~A!loadRemoteDir /\ ~A!handleRemoteDownload /\ ~A!uploadEntries
        /\ ~A!handleLatestChange
        /\ ~A!loadDetail /\ ~A!loadDeployBatch /\ ~A!handleRollback
        /\ ~A!loadVersions /\ ~A!resetSelection /\ ~A!executeDeploy
    BY <1>0 DEF A!loadRemoteDir, A!handleRemoteDownload, A!uploadEntries, A!handleLatestChange,
       A!LoadList, A!loadDetail, A!loadDeployBatch, A!handleRollback, A!loadVersions,
       A!resetSelection, A!executeDeploy, A!Free
  <2>2. \A x : /\ ~A!SwitchMode(x) /\ ~A!handleRedownloadItem(x) /\ ~A!handleReplaceItem(x)
               /\ ~A!handleDeleteItem(x) /\ ~A!handleReplaceInput(x) /\ ~A!AnswerBox(x)
               /\ ~A!selectVersion(x) /\ ~A!ChooseFiles(x)
               /\ ~A!handlePageChange(x) /\ ~A!handleSizeChange(x)
    BY <1>0 DEF A!SwitchMode, A!handleRedownloadItem, A!handleReplaceItem, A!handleDeleteItem,
       A!handleReplaceInput, A!AnswerBox, A!selectVersion, A!ChooseFiles, A!Row, A!Free,
       A!handlePageChange, A!handleSizeChange
  <2> QED
    BY <1>1, <1>3, <2>1, <2>2 DEF A!UserActs
<1>4. ASSUME A!Arrivals PROVE VersionsInv'
  <2>1. \A i : /\ ~A!UploadFails(i) /\ ~A!SettingsArrive(i) /\ ~A!ExecuteFails(i)
    BY <1>0 DEF A!UploadFails, A!SettingsArrive, A!ExecuteFails
  <2>2. \A i, ok : /\ ~A!loadSettingsAndRemoteRoot(i, ok) /\ ~A!restoreActiveDownloadJob(i, ok)
                   /\ ~A!DirArrives(i, ok) /\ ~A!DownloadStarted(i, ok)
                   /\ ~A!ProgressArrives(i, ok) /\ ~A!ListArrives(i, ok)
    BY <1>0 DEF A!loadSettingsAndRemoteRoot, A!restoreActiveDownloadJob, A!DirArrives,
       A!DownloadStarted, A!ProgressArrives, A!ListArrives
  <2>3. \A i, ok : /\ ~A!DetailArrives(i, ok) /\ ~A!BatchArrives(i, ok)
                   /\ ~A!applyVersionResult(i, ok) /\ ~A!RolledBack(i, ok)
                   /\ ~A!ReadyArrive(i, ok) /\ ~A!loadVersionDetail(i, ok)
    BY <1>0 DEF A!DetailArrives, A!BatchArrives, A!applyVersionResult, A!RolledBack,
       A!ReadyArrive, A!loadVersionDetail
  <2>4. ~A!TimerFires /\ ~A!JobEnds /\ ~A!Deployed
    BY <1>0 DEF A!TimerFires, A!JobEnds, A!Deployed
  <2> QED
    BY <1>0, <1>2, <1>4, <2>1, <2>2, <2>3, <2>4 DEF A!Arrivals
<1> QED
  BY <1>3, <1>4 DEF A!Next

\* A job shown as running is asked for, or is about to be; every job that is
\* followed was started.
CollectFields == {"mode", "configured", "listed", "loading", "uploading", "job", "runs",
                  "timer", "loose", "started", "calm"}

CollectInv ==
  /\ DOMAIN view = CollectFields /\ AreCalls(calls)
  /\ view.mode \in {"upload", "download"}
  /\ view.configured \in BOOLEAN /\ view.listed \in BOOLEAN /\ view.loading \in BOOLEAN
  /\ view.uploading \in BOOLEAN /\ view.runs \in BOOLEAN
  /\ view.job \in Jobs \cup {None} /\ view.timer \in Jobs \cup {None}
  /\ view.loose \in Seq(Jobs)
  /\ world \subseteq view.started /\ view.started \subseteq Jobs
  /\ \A a : Flying("poll", a, calls) => a.job \in Jobs /\ a.runs \in BOOLEAN
  /\ view.loading => InFlight({"dir", "firstDir"})
  /\ view.uploading => InFlight({"upload"})
  /\ view.calm /\ view.runs => view.timer # None \/ view.loose # <<>> \/ InFlight({"poll"})

\* The refs the calls of the page change but for a download.
SameDownload ==
  /\ view'.job = view.job /\ view'.runs = view.runs /\ view'.timer = view.timer
  /\ view'.loose = view.loose /\ view'.started = view.started /\ view'.calm = view.calm
  /\ world' = world

\* A call is made, other than for the progress of a job.
LEMMA CollectAsks ==
  ASSUME CollectInv, SameDownload, NEW op, NEW arg, op # "poll", Send(<<Call(op, arg)>>),
         DOMAIN view' = CollectFields,
         view'.mode \in {"upload", "download"}, view'.configured = view.configured,
         view'.listed = view.listed, view'.loading \in BOOLEAN, view'.uploading \in BOOLEAN,
         view'.loading => view.loading \/ op = "dir",
         view'.uploading => view.uploading \/ op = "upload"
  PROVE  CollectInv'
<1>1. /\ AreCalls(calls')
      /\ \A o, a : Flying(o, a, calls') <=> Flying(o, a, calls) \/ (o = op /\ a = arg)
      /\ \A ops : InFlight(ops) \/ op \in ops => InFlight(ops)'
  BY SendOne DEF CollectInv
<1> QED
  BY <1>1 DEF CollectInv, SameDownload

\* A call is answered, other than for the progress of a job, and none is made or one.
LEMMA CollectAnswers ==
  ASSUME CollectInv, SameDownload, NEW i \in DOMAIN calls, NEW again \in BOOLEAN,
         NEW op, NEW arg, op # "poll", calls[i].op # "poll",
         Reply(i, IF again THEN <<Call(op, arg)>> ELSE <<>>),
         DOMAIN view' = CollectFields, view'.mode = view.mode,
         view'.configured \in BOOLEAN, view'.listed \in BOOLEAN, view'.loading \in BOOLEAN,
         view'.uploading \in BOOLEAN,
         view'.loading => \/ view.loading /\ calls[i].op \notin {"dir", "firstDir"}
                          \/ again /\ op \in {"dir", "firstDir"},
         view'.uploading => view.uploading /\ calls[i].op # "upload"
  PROVE  CollectInv'
<1>1. CASE again
  <2>1. /\ AreCalls(calls')
        /\ \A o, a : Flying(o, a, calls') => Flying(o, a, calls) \/ (o = op /\ a = arg)
        /\ \A ops : (InFlight(ops) /\ calls[i].op \notin ops) \/ op \in ops => InFlight(ops)'
    BY <1>1, ReplyOne DEF CollectInv
  <2> QED
    BY <2>1 DEF CollectInv, SameDownload
<1>2. CASE ~again
  <2>0. Reply(i, <<>>)
    BY <1>2
  <2>1. /\ AreCalls(calls')
        /\ \A o, a : Flying(o, a, calls') => Flying(o, a, calls)
        /\ \A ops : InFlight(ops) /\ calls[i].op \notin ops => InFlight(ops)'
    BY <2>0, ReplyNone DEF CollectInv
  <2> QED
    BY <1>2, <2>1 DEF CollectInv, SameDownload
<1> QED
  BY <1>1, <1>2

\* A job is followed from its start, or from the arrival of the view.
LEMMA CollectFollows ==
  ASSUME CollectInv, NEW i \in DOMAIN calls, calls[i].op \in {"active", "start"},
         NEW j \in Jobs, NEW new, AreCalls(new), Reply(i, new),
         Flying("poll", [job |-> j, runs |-> TRUE], new),
         \A o, a : Flying(o, a, new) =>
           (o = "poll" /\ a = [job |-> j, runs |-> TRUE]) \/ (o = "dir" /\ a = None),
         DOMAIN view' = CollectFields, view'.mode \in {"upload", "download"},
         view'.configured = view.configured, view'.listed = view.listed,
         view'.loading \in BOOLEAN, view'.loading => view.loading \/ Flying("dir", None, new),
         view'.uploading = view.uploading, view'.job = j, view'.runs = TRUE,
         view'.timer = None, view'.loose = view.loose, view'.calm = view.calm,
         world' \subseteq view'.started, view'.started \subseteq Jobs
  PROVE  CollectInv'
<1>1. /\ AreCalls(calls')
      /\ \A o, a : Flying(o, a, new) => Flying(o, a, calls')
      /\ \A o, a : Flying(o, a, calls') => Flying(o, a, calls) \/ Flying(o, a, new)
      /\ \A ops : InFlight(ops) /\ calls[i].op \notin ops => InFlight(ops)'
  BY ReplyTakes DEF CollectInv
<1>2. InFlight({"poll"})'
  <2>1. Flying("poll", [job |-> j, runs |-> TRUE], calls')
    BY <1>1
  <2> QED
    BY <2>1 DEF Flying, InFlight
<1>3. Flying("dir", None, new) => InFlight({"dir", "firstDir"})'
  <2>1. Flying("dir", None, calls') => InFlight({"dir", "firstDir"})'
    BY DEF Flying, InFlight
  <2> QED
    BY <1>1, <2>1
<1>4. view'.loading => InFlight({"dir", "firstDir"})'
  BY <1>1, <1>3 DEF CollectInv
<1>5. view'.uploading => InFlight({"upload"})'
  BY <1>1 DEF CollectInv
<1>6. \A a : Flying("poll", a, calls') => a.job \in Jobs /\ a.runs \in BOOLEAN
  <2> SUFFICES ASSUME NEW a, Flying("poll", a, calls') PROVE a.job \in Jobs /\ a.runs \in BOOLEAN
    OBVIOUS
  <2>1. CASE Flying("poll", a, calls)
    BY <2>1 DEF CollectInv
  <2>2. CASE a = [job |-> j, runs |-> TRUE]
    BY <2>2
  <2> QED
    BY <1>1, <2>1, <2>2
<1>7. /\ view'.configured \in BOOLEAN /\ view'.listed \in BOOLEAN /\ view'.uploading \in BOOLEAN
      /\ view'.runs \in BOOLEAN /\ view'.job \in Jobs /\ view'.timer \in Jobs \cup {None}
      /\ view'.loose \in Seq(Jobs)
  BY DEF CollectInv
<1> QED
  BY <1>1, <1>2, <1>4, <1>5, <1>6, <1>7 DEF CollectInv

LEMMA Restored ==
  ASSUME CollectInv, page = "Collect", page # None, NEW i \in DOMAIN calls, NEW ok \in BOOLEAN,
         A!restoreActiveDownloadJob(i, ok)
  PROVE  CollectInv'
<1> USE ArtifactsConsole
<1>1. calls[i].op = "active" /\ world' = world
  BY DEF A!restoreActiveDownloadJob, A!Answer
<1>2. CASE Reply(i, <<>>) /\ view' = view
  <2>1. Reply(i, IF FALSE THEN <<Call("dir", None)>> ELSE <<>>)
    BY <1>2
  <2> QED
    BY <1>1, <1>2, <2>1, CollectAnswers DEF CollectInv, SameDownload
<1>3. ASSUME NEW j \in world, NEW lists \in BOOLEAN,
             lists = (view.mode = "upload" /\ view.configured /\ ~view.listed),
             view' = [A!pollDownload(view) EXCEPT !.job = j, !.runs = TRUE, !.mode = "download",
                                                  !.loading = @ \/ lists],
             Reply(i, IF lists THEN <<A!Poll(j, TRUE), Call("dir", None)>>
                      ELSE <<A!Poll(j, TRUE)>>)
      PROVE  CollectInv'
  <2>1. PICK loading \in BOOLEAN : loading = (view.loading \/ lists)
    OBVIOUS
  <2>2. view' = [view EXCEPT !.timer = None, !.job = j, !.runs = TRUE, !.mode = "download",
                             !.loading = loading]
    BY <1>3, <2>1 DEF A!pollDownload, CollectInv, CollectFields
  <2>3. /\ DOMAIN view' = CollectFields /\ view'.timer = None /\ view'.job = j
        /\ view'.runs = TRUE /\ view'.mode = "download" /\ view'.loading = loading
        /\ view'.configured = view.configured /\ view'.listed = view.listed
        /\ view'.uploading = view.uploading /\ view'.loose = view.loose
        /\ view'.calm = view.calm /\ view'.started = view.started
    BY <2>2 DEF CollectInv, CollectFields
  <2>4. j \in Jobs /\ world' \subseteq view'.started /\ view'.started \subseteq Jobs
    BY <1>1, <2>3 DEF CollectInv
  <2> DEFINE p == [job |-> j, runs |-> TRUE]
             one == <<Call("poll", p)>>
             two == <<Call("poll", p), Call("dir", None)>>
  <2>5. AreCalls(one) /\ \A o, a : Flying(o, a, one) <=> o = "poll" /\ a = p
    <3> HIDE DEF p
    <3> QED
      BY OneCall
  <2>7. /\ AreCalls(two)
        /\ \A o, a : Flying(o, a, two) <=> (o = "poll" /\ a = p) \/ (o = "dir" /\ a = None)
    <3> HIDE DEF p
    <3> QED
      BY TwoCalls
  <2>6. A!Poll(j, TRUE) = Call("poll", p)
    BY DEF A!Poll
  <2>8. CASE lists
    <3>1. Reply(i, two)
      BY <1>3, <2>6, <2>8
    <3> HIDE DEF two
    <3>2. /\ AreCalls(two) /\ Flying("poll", p, two) /\ Flying("dir", None, two)
          /\ \A o, a : Flying(o, a, two) => (o = "poll" /\ a = p) \/ (o = "dir" /\ a = None)
      BY <2>7
    <3>3. view'.mode \in {"upload", "download"} /\ view'.loading \in BOOLEAN
      BY <2>3
    <3> QED
      BY <1>1, <2>3, <2>4, <3>1, <3>2, <3>3, CollectFollows
  <2>9. CASE ~lists
    <3>1. Reply(i, one)
      BY <1>3, <2>6, <2>9
    <3> HIDE DEF one
    <3>2. /\ Flying("poll", p, one) /\ view'.loading = view.loading
          /\ view'.mode \in {"upload", "download"} /\ view'.loading \in BOOLEAN
      BY <2>1, <2>3, <2>5, <2>9 DEF CollectInv
    <3> QED
      BY <1>1, <2>3, <2>4, <2>5, <3>1, <3>2, CollectFollows
  <2> QED
    BY <2>8, <2>9
<1>4. PICK lists \in BOOLEAN : lists = (view.mode = "upload" /\ view.configured /\ ~view.listed)
  OBVIOUS
<1>5. \/ Reply(i, <<>>) /\ view' = view
      \/ \E j \in world :
           /\ view' = [A!pollDownload(view) EXCEPT !.job = j, !.runs = TRUE, !.mode = "download",
                                                   !.loading = @ \/ lists]
           /\ Reply(i, IF lists THEN <<A!Poll(j, TRUE), Call("dir", None)>>
                       ELSE <<A!Poll(j, TRUE)>>)
  BY <1>4 DEF A!restoreActiveDownloadJob, A!On
<1> QED
  BY <1>2, <1>3, <1>4, <1>5

LEMMA Started ==
  ASSUME CollectInv, page = "Collect", page # None, NEW i \in DOMAIN calls, NEW ok \in BOOLEAN,
         A!DownloadStarted(i, ok)
  PROVE  CollectInv'
<1> USE ArtifactsConsole
<1>1. calls[i].op = "start"
  BY DEF A!DownloadStarted
<1>2. CASE Reply(i, <<>>) /\ view' = view /\ world' = world
  <2>1. Reply(i, IF FALSE THEN <<Call("dir", None)>> ELSE <<>>)
    BY <1>2
  <2> QED
    BY <1>1, <1>2, <2>1, CollectAnswers DEF CollectInv, SameDownload
<1>3. ASSUME NEW j \in Jobs, world' = world \cup {j}, Reply(i, <<A!Poll(j, TRUE)>>),
             view' = [A!pollDownload(view) EXCEPT !.job = j, !.runs = TRUE,
                                                  !.started = @ \cup {j}]
      PROVE  CollectInv'
  <2>1. PICK started : started = view.started \cup {j}
    OBVIOUS
  <2>2. view' = [view EXCEPT !.timer = None, !.job = j, !.runs = TRUE, !.started = started]
    BY <1>3, <2>1 DEF A!pollDownload, CollectInv, CollectFields
  <2>3. /\ DOMAIN view' = CollectFields /\ view'.timer = None /\ view'.job = j
        /\ view'.runs = TRUE /\ view'.mode = view.mode /\ view'.loading = view.loading
        /\ view'.configured = view.configured /\ view'.listed = view.listed
        /\ view'.uploading = view.uploading /\ view'.loose = view.loose
        /\ view'.calm = view.calm /\ view'.started = started
    BY <2>2 DEF CollectInv, CollectFields
  <2>4. world' \subseteq view'.started /\ view'.started \subseteq Jobs
    BY <1>3, <2>1, <2>3 DEF CollectInv
  <2>5. view'.mode \in {"upload", "download"} /\ view'.loading \in BOOLEAN
    BY <2>3 DEF CollectInv
  <2> DEFINE p == [job |-> j, runs |-> TRUE]
             one == <<Call("poll", p)>>
  <2>6. AreCalls(one) /\ \A o, a : Flying(o, a, one) <=> o = "poll" /\ a = p
    <3> HIDE DEF p
    <3> QED
      BY OneCall
  <2>7. Reply(i, one)
    BY <1>3 DEF A!Poll
  <2> HIDE DEF one
  <2>8. /\ Flying("poll", p, one)
        /\ \A o, a : Flying(o, a, one) => (o = "poll" /\ a = p) \/ (o = "dir" /\ a = None)
    BY <2>6
  <2> QED
    BY <1>1, <2>3, <2>4, <2>5, <2>6, <2>7, <2>8, CollectFollows
<1> QED
  BY <1>2, <1>3 DEF A!DownloadStarted

LEMMA Progressed ==
  ASSUME CollectInv, page = "Collect", page # None, None \notin Jobs,
         NEW i \in DOMAIN calls, NEW ok \in BOOLEAN, A!ProgressArrives(i, ok)
  PROVE  CollectInv'
<1> USE ArtifactsConsole
<1>1. calls[i].op = "poll" /\ world' = world /\ Reply(i, <<>>)
  BY DEF A!ProgressArrives, A!On
<1>2. calls[i].arg.job \in Jobs /\ calls[i].arg.runs \in BOOLEAN
  BY <1>1 DEF CollectInv, Flying
<1>3. /\ AreCalls(calls') /\ \A o, a : Flying(o, a, calls') => Flying(o, a, calls)
      /\ \A ops : InFlight(ops) /\ calls[i].op \notin ops => InFlight(ops)'
  BY <1>1, ReplyNone DEF CollectInv
<1>4. CASE view' = [view EXCEPT !.calm = FALSE]
  <2>1. /\ DOMAIN view' = CollectFields /\ view'.timer = view.timer /\ view'.job = view.job
        /\ view'.runs = view.runs /\ view'.mode = view.mode /\ view'.loading = view.loading
        /\ view'.configured = view.configured /\ view'.listed = view.listed
        /\ view'.uploading = view.uploading /\ view'.loose = view.loose
        /\ view'.calm = FALSE /\ view'.started = view.started
    BY <1>4 DEF CollectInv, CollectFields
  <2> QED
    BY <1>1, <1>3, <2>1 DEF CollectInv
<1>5. ASSUME NEW runs \in BOOLEAN, NEW j \in Jobs,
             view' = IF runs THEN A!Arm([view EXCEPT !.job = j, !.runs = runs], j)
                     ELSE [view EXCEPT !.job = j, !.runs = runs]
      PROVE  CollectInv'
  <2>1. CASE ~runs
    <3>1. /\ DOMAIN view' = CollectFields /\ view'.timer = view.timer /\ view'.job = j
          /\ view'.runs = FALSE /\ view'.mode = view.mode /\ view'.loading = view.loading
          /\ view'.configured = view.configured /\ view'.listed = view.listed
          /\ view'.uploading = view.uploading /\ view'.loose = view.loose
          /\ view'.calm = view.calm /\ view'.started = view.started
      BY <1>5, <2>1 DEF CollectInv, CollectFields
    <3> QED
      BY <1>1, <1>3, <3>1 DEF CollectInv
  <2>2. CASE runs
    <3> DEFINE loose == IF view.timer = None THEN view.loose ELSE Append(view.loose, view.timer)
    <3>1. view' = [view EXCEPT !.job = j, !.runs = TRUE, !.timer = j, !.loose = loose]
      BY <1>5, <2>2 DEF A!Arm, CollectInv, CollectFields
    <3>2. loose \in Seq(Jobs)
      BY DEF CollectInv
    <3> HIDE DEF loose
    <3>3. /\ DOMAIN view' = CollectFields /\ view'.timer = j /\ view'.job = j
          /\ view'.runs = TRUE /\ view'.mode = view.mode /\ view'.loading = view.loading
          /\ view'.configured = view.configured /\ view'.listed = view.listed
          /\ view'.uploading = view.uploading /\ view'.loose = loose
          /\ view'.calm = view.calm /\ view'.started = view.started
      BY <3>1 DEF CollectInv, CollectFields
    <3> QED
      BY <1>1, <1>3, <3>2, <3>3 DEF CollectInv
  <2> QED
    BY <2>1, <2>2
<1>6. PICK b \in BOOLEAN : b = (calls[i].arg.job \in world)
  BY MemberOrNot
<1>7. \/ view' = [view EXCEPT !.calm = FALSE]
      \/ \E runs \in {calls[i].arg.runs, b} :
           view' = IF runs THEN A!Arm([view EXCEPT !.job = calls[i].arg.job, !.runs = runs],
                                      calls[i].arg.job)
                   ELSE [view EXCEPT !.job = calls[i].arg.job, !.runs = runs]
  BY <1>6 DEF A!ProgressArrives, A!On
<1>8. \A runs \in {calls[i].arg.runs, b} : runs \in BOOLEAN
  BY <1>2, <1>6
<1> QED
  BY <1>2, <1>4, <1>5, <1>7, <1>8

\* A timer fires: what it asks is in flight, and the others stay armed.
LEMMA TimersFire ==
  ASSUME CollectInv, NEW j \in Jobs, NEW rest \in Seq(Jobs), A!Fires(j, rest)
  PROVE  CollectInv'
<1> USE ArtifactsConsole
<1>1. PICK b \in BOOLEAN : b = (j \in world)
  BY MemberOrNot
<1> DEFINE p == [job |-> j, runs |-> b]
<1>2. Send(<<Call("poll", p)>>) /\ world' = world
  BY <1>1 DEF A!Fires, A!Poll, A!Answer
<1>3. view' = [view EXCEPT !.loose = rest, !.timer = None]
  BY DEF A!Fires, A!pollDownload, CollectInv, CollectFields
<1>4. /\ DOMAIN view' = CollectFields /\ view'.timer = None /\ view'.job = view.job
      /\ view'.runs = view.runs /\ view'.mode = view.mode /\ view'.loading = view.loading
      /\ view'.configured = view.configured /\ view'.listed = view.listed
      /\ view'.uploading = view.uploading /\ view'.loose = rest
      /\ view'.calm = view.calm /\ view'.started = view.started
  BY <1>3 DEF CollectInv, CollectFields
<1>5. p.job \in Jobs /\ p.runs \in BOOLEAN
  OBVIOUS
<1> HIDE DEF p
<1>6. /\ AreCalls(calls')
      /\ \A o, a : Flying(o, a, calls') <=> Flying(o, a, calls) \/ (o = "poll" /\ a = p)
      /\ \A ops : InFlight(ops) \/ "poll" \in ops => InFlight(ops)'
  BY <1>2, SendOne DEF CollectInv
<1>7. \A a : Flying("poll", a, calls') => a.job \in Jobs /\ a.runs \in BOOLEAN
  BY <1>5, <1>6 DEF CollectInv
<1>8. InFlight({"poll"})'
  BY <1>6
<1> QED
  BY <1>2, <1>4, <1>6, <1>7, <1>8 DEF CollectInv

LEMMA CollectUser ==
  ASSUME CollectInv, page = "Collect", page # None, None \notin Jobs, A!UserActs
  PROVE  CollectInv'
<1> USE ArtifactsConsole
<1>0. /\ ~A!On("Artifacts") /\ ~A!On("Versions") /\ ~A!On("Version") /\ ~A!On("Batch")
      /\ page # None
  BY DEF A!On
<1>1. ASSUME NEW mode \in {"upload", "download"}, A!SwitchMode(mode) PROVE CollectInv'
  <2>1. PICK lists \in BOOLEAN :
          lists = (mode = "download" /\ view.configured /\ ~view.listed)
    OBVIOUS
  <2>2. PICK loading \in BOOLEAN : loading = (view.loading \/ lists)
    OBVIOUS
  <2>3. /\ view' = [view EXCEPT !.mode = mode, !.loading = loading]
        /\ Send(IF lists THEN <<Call("dir", None)>> ELSE <<>>) /\ world' = world
    BY <1>1, <2>1, <2>2 DEF A!SwitchMode, A!User
  <2>4. /\ DOMAIN view' = CollectFields /\ view'.timer = view.timer /\ view'.job = view.job
        /\ view'.runs = view.runs /\ view'.mode = mode /\ view'.loading = loading
        /\ view'.configured = view.configured /\ view'.listed = view.listed
        /\ view'.uploading = view.uploading /\ view'.loose = view.loose
        /\ view'.calm = view.calm /\ view'.started = view.started
    BY <2>3 DEF CollectInv, CollectFields
  <2>5. SameDownload /\ view'.uploading \in BOOLEAN
    BY <2>3, <2>4 DEF SameDownload, CollectInv
  <2>6. CASE lists
    <3>1. Send(<<Call("dir", None)>>)
      BY <2>3, <2>6
    <3> QED
      BY <2>4, <2>5, <3>1, CollectAsks
  <2>7. CASE ~lists
    <3>1. Send(<<>>)
      BY <2>3, <2>7
    <3>2. /\ AreCalls(calls') /\ \A o, a : Flying(o, a, calls') <=> Flying(o, a, calls)
          /\ \A ops : InFlight(ops) => InFlight(ops)'
      BY <3>1, SendNone DEF CollectInv
    <3> QED
      BY <2>2, <2>3, <2>4, <2>7, <3>2 DEF CollectInv
  <2> QED
    BY <2>6, <2>7
<1>2. ASSUME A!loadRemoteDir PROVE CollectInv'
  <2>1. /\ view' = [view EXCEPT !.loading = TRUE] /\ world' = world
        /\ Send(<<Call("dir", None)>>)
    BY <1>2 DEF A!loadRemoteDir, A!User
  <2>2. /\ DOMAIN view' = CollectFields /\ view'.mode = view.mode /\ view'.loading = TRUE
        /\ view'.configured = view.configured /\ view'.listed = view.listed
        /\ view'.uploading = view.uploading
    BY <2>1 DEF CollectInv, CollectFields
  <2>3. SameDownload
    BY <2>1 DEF SameDownload, CollectInv, CollectFields
  <2>4. view'.mode \in {"upload", "download"} /\ view'.uploading \in BOOLEAN
    BY <2>2 DEF CollectInv
  <2> QED
    BY <2>1, <2>2, <2>3, <2>4, CollectAsks
<1>3. ASSUME A!handleRemoteDownload PROVE CollectInv'
  <2>1. view' = view /\ world' = world /\ Send(<<Call("start", None)>>)
    BY <1>3 DEF A!handleRemoteDownload, A!User
  <2>2. SameDownload
    BY <2>1 DEF SameDownload
  <2> QED
    BY <2>1, <2>2, CollectAsks DEF CollectInv
<1>4. ASSUME A!uploadEntries PROVE CollectInv'
  <2>1. /\ view' = [view EXCEPT !.uploading = TRUE] /\ world' = world
        /\ Send(<<Call("upload", None)>>)
    BY <1>4 DEF A!uploadEntries, A!User
  <2>2. /\ DOMAIN view' = CollectFields /\ view'.mode = view.mode /\ view'.uploading = TRUE
        /\ view'.configured = view.configured /\ view'.listed = view.listed
        /\ view'.loading = view.loading
    BY <2>1 DEF CollectInv, CollectFields
  <2>3. SameDownload
    BY <2>1 DEF SameDownload, CollectInv, CollectFields
  <2>4. view'.mode \in {"upload", "download"} /\ view'.loading \in BOOLEAN
    BY <2>2 DEF CollectInv
  <2> QED
    BY <2>1, <2>2, <2>3, <2>4, CollectAsks
<1>5. /\ ~A!handleLatestChange /\ ~A!loadBatches /\ ~A!loadDetail /\ ~A!loadDeployBatch
      /\ ~A!handleRollback /\ ~A!loadVersions /\ ~A!resetSelection /\ ~A!executeDeploy
  BY <1>0 DEF A!handleLatestChange, A!LoadList, A!loadBatches, A!loadDetail,
     A!loadDeployBatch, A!handleRollback, A!loadVersions, A!resetSelection, A!executeDeploy,
     A!Free
<1>6. \A x : /\ ~A!handleRedownloadItem(x) /\ ~A!handleReplaceItem(x)
             /\ ~A!handleDeleteItem(x) /\ ~A!handleReplaceInput(x) /\ ~A!AnswerBox(x)
             /\ ~A!selectVersion(x) /\ ~A!ChooseFiles(x)
             /\ ~A!handlePageChange(x) /\ ~A!handleSizeChange(x)
  BY <1>0 DEF A!handleRedownloadItem, A!handleReplaceItem, A!handleDeleteItem,
     A!handleReplaceInput, A!AnswerBox, A!selectVersion, A!ChooseFiles, A!Row, A!Free,
     A!handlePageChange, A!handleSizeChange
<1> QED
  BY <1>1, <1>2, <1>3, <1>4, <1>5, <1>6 DEF A!UserActs

LEMMA CollectArrival ==
  ASSUME CollectInv, page = "Collect", page # None, None \notin Jobs, A!Arrivals
  PROVE  CollectInv'
<1> USE ArtifactsConsole
<1>0. /\ ~A!On("Artifacts") /\ ~A!On("Versions") /\ ~A!On("Version") /\ ~A!On("Batch")
      /\ A!On("Collect") /\ page # None
  BY DEF A!On
<1>1. ASSUME NEW i \in DOMAIN calls, NEW ok \in BOOLEAN, A!loadSettingsAndRemoteRoot(i, ok)
      PROVE  CollectInv'
  <2>1. calls[i].op = "settings" /\ world' = world
    BY <1>1 DEF A!loadSettingsAndRemoteRoot, A!Answer
  <2>2. CASE ~ok
    <3>1. Reply(i, IF TRUE THEN <<Call("active", None)>> ELSE <<>>) /\ view' = view
      BY <1>1, <2>2 DEF A!loadSettingsAndRemoteRoot
    <3>2. SameDownload
      BY <2>1, <3>1 DEF SameDownload
    <3> QED
      BY <2>1, <3>1, <3>2, CollectAnswers DEF CollectInv
  <2>3. CASE ok
    <3>1. PICK down \in BOOLEAN : down = (view.mode = "download")
      OBVIOUS
    <3>2. PICK loading \in BOOLEAN : loading = (view.loading \/ down)
      OBVIOUS
    <3>3. /\ view' = [view EXCEPT !.configured = TRUE, !.loading = loading]
          /\ Reply(i, IF down THEN <<Call("firstDir", None)>> ELSE <<Call("active", None)>>)
      BY <1>0, <1>1, <2>3, <3>1, <3>2 DEF A!loadSettingsAndRemoteRoot
    <3>4. /\ DOMAIN view' = CollectFields /\ view'.mode = view.mode /\ view'.configured = TRUE
          /\ view'.uploading = view.uploading /\ view'.listed = view.listed
          /\ view'.loading = loading
      BY <3>3 DEF CollectInv, CollectFields
    <3>5. SameDownload
      BY <2>1, <3>3 DEF SameDownload, CollectInv, CollectFields
    <3>6. /\ view'.listed \in BOOLEAN /\ view'.uploading \in BOOLEAN
      BY <3>4 DEF CollectInv
    <3>7. CASE down
      <4>1. Reply(i, IF TRUE THEN <<Call("firstDir", None)>> ELSE <<>>)
        BY <3>3, <3>7
      <4> QED
        BY <2>1, <3>4, <3>5, <3>6, <4>1, CollectAnswers
    <3>8. CASE ~down
      <4>1. Reply(i, IF TRUE THEN <<Call("active", None)>> ELSE <<>>)
        BY <3>3, <3>8
      <4> QED
        BY <2>1, <3>2, <3>4, <3>5, <3>6, <3>8, <4>1, CollectAnswers
    <3> QED
      BY <3>7, <3>8
  <2> QED
    BY <2>2, <2>3
<1>2. ASSUME NEW i \in DOMAIN calls, NEW ok \in BOOLEAN, A!DirArrives(i, ok) PROVE CollectInv'
  <2>1. calls[i].op \in {"dir", "firstDir"} /\ world' = world
    BY <1>2 DEF A!DirArrives, A!Answer
  <2>2. PICK some \in BOOLEAN : view' = [view EXCEPT !.listed = some, !.loading = FALSE]
    BY <1>0, <1>2 DEF A!DirArrives, CollectInv
  <2>3. PICK again \in BOOLEAN : again = (calls[i].op = "firstDir")
    OBVIOUS
  <2>4. Reply(i, IF again THEN <<Call("active", None)>> ELSE <<>>)
    BY <1>2, <2>3 DEF A!DirArrives
  <2>5. /\ DOMAIN view' = CollectFields /\ view'.mode = view.mode /\ view'.listed = some
        /\ view'.uploading = view.uploading /\ view'.configured = view.configured
        /\ view'.loading = FALSE
    BY <2>2 DEF CollectInv, CollectFields
  <2>6. SameDownload
    BY <2>1, <2>2 DEF SameDownload, CollectInv, CollectFields
  <2>7. view'.configured \in BOOLEAN /\ view'.uploading \in BOOLEAN
    BY <2>5 DEF CollectInv
  <2> QED
    BY <2>1, <2>4, <2>5, <2>6, <2>7, CollectAnswers
<1>3. ASSUME NEW i \in DOMAIN calls, A!UploadFails(i) PROVE CollectInv'
  <2>1. /\ calls[i].op = "upload" /\ world' = world
        /\ Reply(i, IF FALSE THEN <<Call("active", None)>> ELSE <<>>)
        /\ view' = [view EXCEPT !.uploading = FALSE]
    BY <1>3 DEF A!UploadFails, A!Answer
  <2>2. /\ DOMAIN view' = CollectFields /\ view'.mode = view.mode /\ view'.listed = view.listed
        /\ view'.uploading = FALSE /\ view'.configured = view.configured
        /\ view'.loading = view.loading
    BY <2>1 DEF CollectInv, CollectFields
  <2>3. SameDownload
    BY <2>1 DEF SameDownload, CollectInv, CollectFields
  <2>4. view'.configured \in BOOLEAN /\ view'.listed \in BOOLEAN /\ view'.loading \in BOOLEAN
    BY <2>2 DEF CollectInv
  <2> QED
    BY <2>1, <2>2, <2>3, <2>4, CollectAnswers
<1>4. ASSUME A!TimerFires PROVE CollectInv'
  <2>1. A!Fires(view.timer, view.loose) /\ view.timer \in Jobs /\ view.loose \in Seq(Jobs)
    BY <1>4 DEF A!TimerFires, CollectInv
  <2> QED
    BY <2>1, TimersFire
<1>5. ASSUME NEW k, A!LooseTimerFires(k) PROVE CollectInv'
  <2>1. A!Fires(view.loose[k], Without(view.loose, k)) /\ k \in DOMAIN view.loose
    BY <1>5 DEF A!LooseTimerFires
  <2>2. view.loose \in Seq(Jobs)
    BY DEF CollectInv
  <2>3. view.loose[k] \in Jobs
    BY <2>1, <2>2
  <2>4. Without(view.loose, k) \in Seq(Jobs)
    BY <2>1, <2>2, WithoutIn
  <2> QED
    BY <2>1, <2>3, <2>4, TimersFire
<1>6. ASSUME A!JobEnds PROVE CollectInv'
  <2>1. world' \subseteq world /\ view' = view /\ calls' = calls
    BY <1>6 DEF A!JobEnds
  <2>2. \A ops : InFlight(ops)' <=> InFlight(ops)
    BY <2>1 DEF InFlight
  <2> QED
    BY <2>1, <2>2 DEF CollectInv
<1>7. \A i : ~A!VersionsArrive(i) /\ ~A!SettingsArrive(i) /\ ~A!ExecuteFails(i)
  BY <1>0 DEF A!VersionsArrive, A!SettingsArrive, A!ExecuteFails
<1>8. \A i, ok : /\ ~A!DetailArrives(i, ok) /\ ~A!BatchArrives(i, ok)
                 /\ ~A!applyVersionResult(i, ok) /\ ~A!RolledBack(i, ok)
                 /\ ~A!ReadyArrive(i, ok) /\ ~A!loadVersionDetail(i, ok)
                 /\ ~A!ListArrives(i, ok)
  BY <1>0 DEF A!DetailArrives, A!BatchArrives, A!applyVersionResult, A!RolledBack,
     A!ReadyArrive, A!loadVersionDetail, A!ListArrives
<1>9. ~A!Deployed
  BY <1>0 DEF A!Deployed
<1>10. ASSUME NEW i \in DOMAIN calls, NEW ok \in BOOLEAN,
              \/ A!restoreActiveDownloadJob(i, ok) \/ A!DownloadStarted(i, ok)
              \/ A!ProgressArrives(i, ok)
       PROVE  CollectInv'
  BY <1>10, Restored, Started, Progressed
<1> QED
  BY <1>1, <1>2, <1>3, <1>4, <1>5, <1>6, <1>7, <1>8, <1>9, <1>10 DEF A!Arrivals

\* An item is operated on as asked: while a chooser or a box was opened for sure,
\* nothing that would show a deployment is under way.
VersionFields == {"loading", "covered", "items", "records", "batch", "known", "operating",
                  "replacing", "chooser", "box", "rolling"}

ItemFiles == {r.file : r \in A!AllRows} \cup {None}

Settled ==
  ~view.batch /\ \A o, a : Flying(o, a, calls) => o \notin {"detail", "batch", "rollback"}

VersionTypes ==
  /\ DOMAIN view = VersionFields /\ AreCalls(calls) /\ world \in BOOLEAN
  /\ view.items \in Listings \cup {{}} /\ view.records \in Listings \cup {{}}
  /\ view.loading \in BOOLEAN /\ view.covered \in BOOLEAN /\ view.batch \in BOOLEAN
  /\ view.known \in BOOLEAN /\ view.rolling \in BOOLEAN
  /\ view.operating \in ItemFiles /\ view.replacing \in ItemFiles
  /\ view.chooser \in A!Asks \cup {None} /\ view.box \in A!Asks \cup {None}
  /\ \A a : Flying("batch", a, calls) => a \in BOOLEAN

VersionBusy ==
  /\ view.loading => InFlight({"detail"})
  /\ view.covered => InFlight({"batch"})
  /\ view.rolling => InFlight({"rollback"})
  /\ view.operating # None => \E a : Flying("operate", a, calls) /\ a.file = view.operating

VersionAsks ==
  /\ \A a : Flying("operate", a, calls) => a.file = a.of /\ (a.sure => ~a.deployed)
  /\ view.chooser = None \/ view.box = None
  /\ view.chooser # None => /\ view.replacing \in {None, view.chooser.file}
                            /\ view.chooser.sure => Settled
  /\ view.box # None /\ view.box.kind = "delete" /\ view.box.sure => Settled

VersionInv == VersionTypes /\ VersionBusy /\ VersionAsks

\* A call is made, and nothing is left open.
LEMMA VersionSends ==
  ASSUME VersionInv, NEW op \in {"detail", "batch", "operate", "rollback"}, NEW arg,
         Send(<<Call(op, arg)>>),
         op = "batch" => arg \in BOOLEAN,
         op = "operate" => arg.file = arg.of /\ (arg.sure => ~arg.deployed),
         DOMAIN view' = VersionFields, view'.items = view.items, view'.records = view.records,
         view'.batch = view.batch, view'.known = view.known, view'.replacing = view.replacing,
         view'.chooser = None, view'.box = None, world' = world,
         view'.loading \in BOOLEAN, view'.loading => view.loading \/ op = "detail",
         view'.covered \in BOOLEAN, view'.covered => view.covered \/ op = "batch",
         view'.rolling \in BOOLEAN, view'.rolling => view.rolling \/ op = "rollback",
         view'.operating \in ItemFiles,
         view'.operating = view.operating \/ (op = "operate" /\ arg.file = view'.operating)
  PROVE  VersionInv'
<1>1. /\ AreCalls(calls')
      /\ \A o, a : Flying(o, a, calls') <=> Flying(o, a, calls) \/ (o = op /\ a = arg)
      /\ \A ops : InFlight(ops) \/ op \in ops => InFlight(ops)'
  BY SendOne DEF VersionInv, VersionTypes
<1>2. VersionTypes'
  BY <1>1 DEF VersionInv, VersionTypes
<1>3. VersionBusy'
  <2>1. \/ view'.operating = view.operating
        \/ Flying("operate", arg, calls') /\ arg.file = view'.operating
    BY <1>1
  <2>2. view'.operating # None => \E a : Flying("operate", a, calls') /\ a.file = view'.operating
    BY <1>1, <2>1 DEF VersionInv, VersionBusy
  <2> QED
    BY <1>1, <2>2 DEF VersionInv, VersionBusy
<1>4. VersionAsks'
  BY <1>1 DEF VersionInv, VersionAsks
<1> QED
  BY <1>2, <1>3, <1>4 DEF VersionInv

\* A chooser or a box opens or closes; no call is made or answered.
LEMMA VersionOpens ==
  ASSUME VersionInv, calls' = calls, world' = world,
         DOMAIN view' = VersionFields, view'.items = view.items, view'.records = view.records,
         view'.batch = view.batch, view'.known = view.known, view'.operating = view.operating,
         view'.loading = view.loading, view'.covered = view.covered,
         view'.rolling = view.rolling,
         view'.replacing \in ItemFiles,
         view'.chooser \in A!Asks \cup {None}, view'.box \in A!Asks \cup {None},
         view'.chooser = None \/ view'.box = None,
         view'.chooser # None => /\ view'.replacing = view'.chooser.file
                                 /\ view'.chooser.sure => Settled,
         view'.box # None /\ view'.box.kind = "delete" /\ view'.box.sure => Settled
  PROVE  VersionInv'
<1>1. Settled => Settled'
  BY DEF Settled
<1>2. VersionTypes'
  BY DEF VersionInv, VersionTypes
<1>3. VersionBusy'
  BY DEF VersionInv, VersionBusy, InFlight
<1>4. VersionAsks'
  BY <1>1 DEF VersionInv, VersionAsks
<1> QED
  BY <1>2, <1>3, <1>4 DEF VersionInv

\* A call is answered, and perhaps the deployment asked for.
LEMMA VersionAnswers ==
  ASSUME VersionInv, NEW i \in DOMAIN calls, NEW again \in BOOLEAN,
         Reply(i, IF again THEN <<Call("batch", world)>> ELSE <<>>),
         again => calls[i].op = "detail",
         calls[i].op \in {"detail", "batch", "rollback", "operate"},
         DOMAIN view' = VersionFields, world' = world,
         view'.items \in Listings \cup {{}}, view'.records \in Listings \cup {{}},
         view'.batch \in BOOLEAN, view'.known \in BOOLEAN,
         calls[i].op \in {"detail", "operate"} => view'.batch = view.batch,
         view'.chooser = view.chooser, view'.box = view.box,
         view'.replacing \in {None, view.replacing},
         view'.loading \in BOOLEAN, view'.loading => view.loading /\ calls[i].op # "detail",
         view'.covered \in BOOLEAN,
         view'.covered => again \/ (view.covered /\ calls[i].op # "batch"),
         view'.rolling \in BOOLEAN, view'.rolling => view.rolling /\ calls[i].op # "rollback",
         view'.operating = IF calls[i].op = "operate" THEN None ELSE view.operating
  PROVE  VersionInv'
<1>1. Flying(calls[i].op, calls[i].arg, calls)
  BY DEF Flying
<1>2. /\ AreCalls(calls')
      /\ \A o, a : Flying(o, a, calls') => Flying(o, a, calls) \/ (again /\ o = "batch" /\ a = world)
      /\ \A o, a : Flying(o, a, calls) /\ calls[i].op # o => Flying(o, a, calls')
      /\ \A ops : (InFlight(ops) /\ calls[i].op \notin ops) \/ (again /\ "batch" \in ops)
                    => InFlight(ops)'
  <2>1. CASE again
    <3>1. Reply(i, <<Call("batch", world)>>) /\ AreCalls(<<Call("batch", world)>>)
      BY <2>1, OneCall
    <3>2. \A o, a : Flying(o, a, calls) /\ calls[i].op # o => Flying(o, a, calls')
      BY <3>1, ReplyKeeps DEF VersionInv, VersionTypes
    <3> QED
      BY <2>1, <3>1, <3>2, ReplyOne DEF VersionInv, VersionTypes
  <2>2. CASE ~again
    <3>1. Reply(i, <<>>) /\ AreCalls(<<>>)
      BY <2>2, NoCall
    <3>2. \A o, a : Flying(o, a, calls) /\ calls[i].op # o => Flying(o, a, calls')
      BY <3>1, ReplyKeeps DEF VersionInv, VersionTypes
    <3> QED
      BY <2>2, <3>1, <3>2, ReplyNone DEF VersionInv, VersionTypes
  <2> QED
    BY <2>1, <2>2
<1>3. VersionTypes'
  <2>1. view'.operating \in ItemFiles /\ view'.replacing \in ItemFiles
    BY DEF VersionInv, VersionTypes, ItemFiles
  <2> QED
    BY <1>2, <2>1 DEF VersionInv, VersionTypes
<1>4. VersionBusy'
  <2>1. view'.operating # None => \E a : Flying("operate", a, calls') /\ a.file = view'.operating
    BY <1>2 DEF VersionInv, VersionBusy
  <2> QED
    BY <1>2, <2>1 DEF VersionInv, VersionBusy
<1>5. Settled => Settled'
  BY <1>1, <1>2 DEF Settled
<1>6. VersionAsks'
  <2>1. \A a : Flying("operate", a, calls') => a.file = a.of /\ (a.sure => ~a.deployed)
    BY <1>2 DEF VersionInv, VersionAsks
  <2> QED
    BY <1>5, <2>1 DEF VersionInv, VersionAsks
<1> QED
  BY <1>3, <1>4, <1>6 DEF VersionInv

LEMMA OpenedSurely ==
  ASSUME VersionInv, NEW kind \in {"delete", "replace"}, NEW r \in A!AllRows, A!Row(r)
  PROVE  /\ A!Asked(kind, r) \in A!Asks /\ A!Asked(kind, r).file = r.file
         /\ A!Asked(kind, r).kind = kind /\ A!Asked(kind, r).sure \in BOOLEAN
         /\ A!Asked(kind, r).sure => Settled
         /\ r.file \in ItemFiles /\ view.batch = FALSE /\ view.chooser = None /\ view.box = None
<1> USE ArtifactsConsole
<1>1. PICK b \in BOOLEAN : b = (view.known /\ ~InFlight({"detail", "batch", "rollback"}))
  OBVIOUS
<1>2. A!Asked(kind, r) = [kind |-> kind, file |-> r.file, sure |-> b]
  BY <1>1 DEF A!Asked
<1>3. view.batch = FALSE /\ view.chooser = None /\ view.box = None
  BY DEF A!Row, A!Free, VersionInv, VersionTypes
<1>4. b => Settled
  <2>1. b => ~InFlight({"detail", "batch", "rollback"})
    BY <1>1
  <2> QED
    BY <1>3, <2>1, FlyingIsInFlight DEF Settled
<1> QED
  BY <1>2, <1>3, <1>4 DEF A!Asks, ItemFiles

LEMMA VersionUser ==
  ASSUME VersionInv, page = "Version", page # None, A!UserActs
  PROVE  VersionInv'
<1> USE ArtifactsConsole
<1>0. /\ ~A!On("Collect") /\ ~A!On("Artifacts") /\ ~A!On("Versions") /\ ~A!On("Batch")
      /\ page # None
  BY DEF A!On
<1>1. ASSUME A!loadDetail PROVE VersionInv'
  <2>1. /\ view' = [view EXCEPT !.loading = TRUE] /\ world' = world
        /\ Send(<<Call("detail", None)>>) /\ view.chooser = None /\ view.box = None
    BY <1>1 DEF A!loadDetail, A!User, A!Free
  <2>2. /\ DOMAIN view' = VersionFields /\ view'.items = view.items
        /\ view'.records = view.records /\ view'.batch = view.batch
        /\ view'.known = view.known /\ view'.replacing = view.replacing
        /\ view'.chooser = None /\ view'.box = None /\ view'.loading = TRUE
        /\ view'.covered = view.covered /\ view'.rolling = view.rolling
        /\ view'.operating = view.operating
    BY <2>1 DEF VersionInv, VersionTypes, VersionFields
  <2>3. /\ view'.covered \in BOOLEAN /\ view'.rolling \in BOOLEAN /\ view'.operating \in ItemFiles
    BY <2>2 DEF VersionInv, VersionTypes
  <2> QED
    BY <2>1, <2>2, <2>3, VersionSends
<1>2. ASSUME A!loadDeployBatch PROVE VersionInv'
  <2>1. /\ view' = [view EXCEPT !.covered = TRUE] /\ world' = world
        /\ Send(<<Call("batch", world)>>) /\ view.chooser = None /\ view.box = None
    BY <1>2 DEF A!loadDeployBatch, A!User, A!Free
  <2>2. /\ DOMAIN view' = VersionFields /\ view'.items = view.items
        /\ view'.records = view.records /\ view'.batch = view.batch
        /\ view'.known = view.known /\ view'.replacing = view.replacing
        /\ view'.chooser = None /\ view'.box = None /\ view'.loading = view.loading
        /\ view'.covered = TRUE /\ view'.rolling = view.rolling
        /\ view'.operating = view.operating
    BY <2>1 DEF VersionInv, VersionTypes, VersionFields
  <2>3. /\ view'.loading \in BOOLEAN /\ view'.rolling \in BOOLEAN /\ view'.operating \in ItemFiles
        /\ world \in BOOLEAN
    BY <2>2 DEF VersionInv, VersionTypes
  <2> QED
    BY <2>1, <2>2, <2>3, VersionSends
<1>3. ASSUME NEW ask \in A!Asks, NEW view1, A!Operate(ask, ask.file), world' = world,
             ask.sure => Settled, view' = [view1 EXCEPT !.operating = ask.file],
             DOMAIN view1 = VersionFields, view1.items = view.items,
             view1.records = view.records, view1.batch = view.batch, view1.known = view.known,
             view1.replacing = view.replacing, view1.chooser = None, view1.box = None,
             view1.loading = view.loading, view1.covered = view.covered,
             view1.rolling = view.rolling
      PROVE  VersionInv'
  <2> DEFINE arg == [kind |-> ask.kind, file |-> ask.file, of |-> ask.file,
                     sure |-> ask.sure, deployed |-> view.batch]
  <2>1. Send(<<Call("operate", arg)>>)
    BY <1>3 DEF A!Operate
  <2>2. /\ DOMAIN view' = VersionFields /\ view'.items = view.items
        /\ view'.records = view.records /\ view'.batch = view.batch
        /\ view'.known = view.known /\ view'.replacing = view.replacing
        /\ view'.chooser = None /\ view'.box = None /\ view'.loading = view.loading
        /\ view'.covered = view.covered /\ view'.rolling = view.rolling
        /\ view'.operating = ask.file
    BY <1>3 DEF VersionFields
  <2>3. /\ view'.loading \in BOOLEAN /\ view'.rolling \in BOOLEAN /\ view'.covered \in BOOLEAN
        /\ view'.operating \in ItemFiles
    BY <2>2 DEF VersionInv, VersionTypes, A!Asks, ItemFiles
  <2>4. /\ arg.file = arg.of /\ (arg.sure => ~arg.deployed) /\ arg.file = view'.operating
    BY <1>3, <2>2 DEF Settled
  <2> HIDE DEF arg
  <2> QED
    BY <1>3, <2>1, <2>2, <2>3, <2>4, VersionSends
<1>4. ASSUME NEW r \in A!AllRows, A!handleReplaceItem(r) PROVE VersionInv'
  <2> DEFINE ask == A!Asked("replace", r)
  <2>1. A!Row(r) /\ view' = [view EXCEPT !.replacing = r.file, !.chooser = ask]
        /\ calls' = calls /\ world' = world
    BY <1>4 DEF A!handleReplaceItem, A!User
  <2>2. /\ ask \in A!Asks /\ ask.file = r.file /\ (ask.sure => Settled) /\ r.file \in ItemFiles
        /\ view.box = None
    BY <2>1, OpenedSurely
  <2> HIDE DEF ask
  <2>3. /\ DOMAIN view' = VersionFields /\ view'.items = view.items
        /\ view'.records = view.records /\ view'.batch = view.batch
        /\ view'.known = view.known /\ view'.replacing = r.file
        /\ view'.chooser = ask /\ view'.box = None /\ view'.loading = view.loading
        /\ view'.covered = view.covered /\ view'.rolling = view.rolling
        /\ view'.operating = view.operating
    BY <2>1, <2>2 DEF VersionInv, VersionTypes, VersionFields
  <2> QED
    BY <2>1, <2>2, <2>3, VersionOpens
<1>5. ASSUME NEW b, b \in A!Asks, b.kind = "delete" /\ b.sure => Settled, view.chooser = None,
             view' = [view EXCEPT !.box = b], calls' = calls, world' = world
      PROVE  VersionInv'
  <2>1. /\ DOMAIN view' = VersionFields /\ view'.items = view.items
        /\ view'.records = view.records /\ view'.batch = view.batch
        /\ view'.known = view.known /\ view'.replacing = view.replacing
        /\ view'.chooser = None /\ view'.box = b /\ view'.loading = view.loading
        /\ view'.covered = view.covered /\ view'.rolling = view.rolling
        /\ view'.operating = view.operating
    BY <1>5 DEF VersionInv, VersionTypes, VersionFields
  <2>2. view'.replacing \in ItemFiles
    BY <2>1 DEF VersionInv, VersionTypes
  <2> QED
    BY <1>5, <2>1, <2>2, VersionOpens
<1>6. ASSUME NEW r \in A!AllRows, A!handleDeleteItem(r) PROVE VersionInv'
  <2> DEFINE ask == A!Asked("delete", r)
  <2>1. A!Row(r) /\ view' = [view EXCEPT !.box = ask] /\ calls' = calls /\ world' = world
    BY <1>6 DEF A!handleDeleteItem, A!User
  <2>2. ask \in A!Asks /\ (ask.sure => Settled) /\ view.chooser = None
    BY <2>1, OpenedSurely
  <2> HIDE DEF ask
  <2> QED
    BY <1>5, <2>1, <2>2
<1>7. ASSUME A!handleRollback PROVE VersionInv'
  <2> DEFINE b == [kind |-> "rollback", file |-> None, sure |-> TRUE]
  <2>1. /\ view' = [view EXCEPT !.box = b] /\ calls' = calls /\ world' = world
        /\ view.chooser = None
    BY <1>7 DEF A!handleRollback, A!User, A!Free
  <2>2. b \in A!Asks /\ b.kind # "delete"
    BY DEF A!Asks
  <2> HIDE DEF b
  <2> QED
    BY <1>5, <2>1, <2>2
<1>8. ASSUME NEW r \in A!AllRows, A!handleRedownloadItem(r) PROVE VersionInv'
  <2>1. /\ A!Row(r) /\ view' = [view EXCEPT !.operating = r.file] /\ world' = world
        /\ A!Operate(A!Asked("redownload", r), r.file)
    BY <1>8 DEF A!handleRedownloadItem, A!User
  <2> DEFINE ask == A!Asked("delete", r)
             arg == [kind |-> "redownload", file |-> r.file, of |-> r.file,
                     sure |-> ask.sure, deployed |-> view.batch]
  <2>2. /\ ask.file = r.file /\ (ask.sure => Settled) /\ r.file \in ItemFiles
        /\ view.box = None /\ view.chooser = None
    BY <2>1, OpenedSurely
  <2>3. Send(<<Call("operate", arg)>>)
    BY <2>1 DEF A!Operate, A!Asked
  <2>4. /\ DOMAIN view' = VersionFields /\ view'.items = view.items
        /\ view'.records = view.records /\ view'.batch = view.batch
        /\ view'.known = view.known /\ view'.replacing = view.replacing
        /\ view'.chooser = None /\ view'.box = None /\ view'.loading = view.loading
        /\ view'.covered = view.covered /\ view'.rolling = view.rolling
        /\ view'.operating = r.file
    BY <2>1, <2>2 DEF VersionInv, VersionTypes, VersionFields
  <2>5. /\ view'.loading \in BOOLEAN /\ view'.rolling \in BOOLEAN /\ view'.covered \in BOOLEAN
        /\ view'.operating \in ItemFiles
    BY <2>2, <2>4 DEF VersionInv, VersionTypes
  <2> HIDE DEF ask
  <2>6. /\ arg.file = arg.of /\ (arg.sure => ~arg.deployed) /\ arg.file = view'.operating
    BY <2>2, <2>4 DEF Settled
  <2> HIDE DEF arg
  <2> QED
    BY <2>1, <2>3, <2>4, <2>5, <2>6, VersionSends
<1>9. ASSUME NEW chosen \in BOOLEAN, A!handleReplaceInput(chosen) PROVE VersionInv'
  <2>1. /\ view.chooser # None /\ view.chooser \in A!Asks /\ view.box = None /\ world' = world
        /\ view.replacing \in {None, view.chooser.file} /\ (view.chooser.sure => Settled)
    BY <1>9 DEF A!handleReplaceInput, A!User, VersionInv, VersionTypes, VersionAsks
  <2>2. CASE chosen /\ view.replacing # None
    <3> DEFINE view1 == [view EXCEPT !.chooser = None]
    <3>1. /\ view.replacing = view.chooser.file
          /\ view' = [view EXCEPT !.chooser = None, !.operating = view.chooser.file]
          /\ A!Operate(view.chooser, view.chooser.file)
      BY <1>9, <2>1, <2>2 DEF A!handleReplaceInput
    <3>2. view' = [view1 EXCEPT !.operating = view.chooser.file]
      BY <3>1 DEF VersionInv, VersionTypes, VersionFields
    <3>3. /\ DOMAIN view1 = VersionFields /\ view1.items = view.items
          /\ view1.records = view.records /\ view1.batch = view.batch
          /\ view1.known = view.known /\ view1.replacing = view.replacing
          /\ view1.chooser = None /\ view1.box = None /\ view1.loading = view.loading
          /\ view1.covered = view.covered /\ view1.rolling = view.rolling
      BY <2>1 DEF VersionInv, VersionTypes, VersionFields
    <3> HIDE DEF view1
    <3> QED
      BY <1>3, <2>1, <3>1, <3>2, <3>3
  <2>3. CASE ~(chosen /\ view.replacing # None)
    <3>1. view' = [view EXCEPT !.chooser = None] /\ calls' = calls
      BY <1>9, <2>3 DEF A!handleReplaceInput, VersionInv, VersionTypes, VersionFields
    <3>2. /\ DOMAIN view' = VersionFields /\ view'.items = view.items
          /\ view'.records = view.records /\ view'.batch = view.batch
          /\ view'.known = view.known /\ view'.replacing = view.replacing
          /\ view'.chooser = None /\ view'.box = None /\ view'.loading = view.loading
          /\ view'.covered = view.covered /\ view'.rolling = view.rolling
          /\ view'.operating = view.operating
      BY <2>1, <3>1 DEF VersionInv, VersionTypes, VersionFields
    <3>3. view'.replacing \in ItemFiles
      BY <3>2 DEF VersionInv, VersionTypes
    <3> QED
      BY <2>1, <3>1, <3>2, <3>3, VersionOpens
  <2> QED
    BY <2>2, <2>3
<1>10. ASSUME NEW yes \in BOOLEAN, A!AnswerBox(yes) PROVE VersionInv'
  <2>1. /\ view.box # None /\ view.box \in A!Asks /\ view.chooser = None /\ world' = world
        /\ view.box.kind = "delete" /\ view.box.sure => Settled
    BY <1>10 DEF A!AnswerBox, A!User, VersionInv, VersionTypes, VersionAsks
  <2>2. CASE yes /\ view.box.kind = "delete"
    <3> DEFINE view1 == [view EXCEPT !.box = None]
    <3>0. view' = [view EXCEPT !.box = None, !.rolling = @ \/ FALSE, !.operating = view.box.file]
          /\ A!Operate(view.box, view.box.file)
      BY <1>10, <2>2 DEF A!AnswerBox
    <3>1. view' = [view EXCEPT !.box = None, !.operating = view.box.file]
      BY <3>0 DEF VersionInv, VersionTypes, VersionFields
    <3>2. view' = [view1 EXCEPT !.operating = view.box.file]
      BY <3>1 DEF VersionInv, VersionTypes, VersionFields
    <3>3. /\ DOMAIN view1 = VersionFields /\ view1.items = view.items
          /\ view1.records = view.records /\ view1.batch = view.batch
          /\ view1.known = view.known /\ view1.replacing = view.replacing
          /\ view1.chooser = None /\ view1.box = None /\ view1.loading = view.loading
          /\ view1.covered = view.covered /\ view1.rolling = view.rolling
      BY <2>1 DEF VersionInv, VersionTypes, VersionFields
    <3> HIDE DEF view1
    <3> QED
      BY <1>3, <2>1, <2>2, <3>0, <3>2, <3>3
  <2>3. CASE yes /\ view.box.kind = "rollback" /\ view.batch
    <3>1. view' = [view EXCEPT !.box = None, !.rolling = TRUE]
          /\ Send(<<Call("rollback", None)>>)
      BY <1>10, <2>3 DEF A!AnswerBox, VersionInv, VersionTypes, VersionFields
    <3>2. /\ DOMAIN view' = VersionFields /\ view'.items = view.items
          /\ view'.records = view.records /\ view'.batch = view.batch
          /\ view'.known = view.known /\ view'.replacing = view.replacing
          /\ view'.chooser = None /\ view'.box = None /\ view'.loading = view.loading
          /\ view'.covered = view.covered /\ view'.rolling = TRUE
          /\ view'.operating = view.operating
      BY <2>1, <3>1 DEF VersionInv, VersionTypes, VersionFields
    <3>3. view'.covered \in BOOLEAN /\ view'.loading \in BOOLEAN /\ view'.operating \in ItemFiles
      BY <3>2 DEF VersionInv, VersionTypes
    <3> QED
      BY <2>1, <3>1, <3>2, <3>3, VersionSends
  <2>4. CASE ~(yes /\ view.box.kind = "delete") /\ ~(yes /\ view.box.kind = "rollback" /\ view.batch)
    <3>1. view' = [view EXCEPT !.box = None] /\ calls' = calls
      BY <1>10, <2>4 DEF A!AnswerBox, VersionInv, VersionTypes, VersionFields
    <3>2. /\ DOMAIN view' = VersionFields /\ view'.items = view.items
          /\ view'.records = view.records /\ view'.batch = view.batch
          /\ view'.known = view.known /\ view'.replacing = view.replacing
          /\ view'.chooser = None /\ view'.box = None /\ view'.loading = view.loading
          /\ view'.covered = view.covered /\ view'.rolling = view.rolling
          /\ view'.operating = view.operating
      BY <2>1, <3>1 DEF VersionInv, VersionTypes, VersionFields
    <3>3. view'.replacing \in ItemFiles
      BY <3>2 DEF VersionInv, VersionTypes
    <3> QED
      BY <2>1, <3>1, <3>2, <3>3, VersionOpens
  <2> QED
    BY <2>2, <2>3, <2>4
<1>11. /\ ~A!loadRemoteDir /\ ~A!handleRemoteDownload /\ ~A!uploadEntries
       /\ ~A!handleLatestChange /\ ~A!loadBatches
       /\ ~A!loadVersions /\ ~A!resetSelection /\ ~A!executeDeploy
  BY <1>0 DEF A!loadRemoteDir, A!handleRemoteDownload, A!uploadEntries, A!handleLatestChange,
     A!LoadList, A!loadBatches, A!loadVersions, A!resetSelection, A!executeDeploy
<1>12. \A x : /\ ~A!SwitchMode(x) /\ ~A!selectVersion(x) /\ ~A!ChooseFiles(x)
              /\ ~A!handlePageChange(x) /\ ~A!handleSizeChange(x)
  BY <1>0 DEF A!SwitchMode, A!selectVersion, A!ChooseFiles, A!handlePageChange,
     A!handleSizeChange
<1> QED
  BY <1>1, <1>2, <1>4, <1>6, <1>7, <1>8, <1>9, <1>10, <1>11, <1>12 DEF A!UserActs

LEMMA VersionArrival ==
  ASSUME VersionInv, page = "Version", page # None, A!Arrivals
  PROVE  VersionInv'
<1> USE ArtifactsConsole
<1>0. /\ ~A!On("Collect") /\ ~A!On("Artifacts") /\ ~A!On("Versions") /\ ~A!On("Batch")
      /\ page # None /\ page \notin {"Collect", None}
  BY DEF A!On
<1>1. ASSUME NEW i \in DOMAIN calls, NEW ok \in BOOLEAN, A!DetailArrives(i, ok)
      PROVE  VersionInv'
  <2>1. /\ calls[i].op = "detail" /\ world' = world
        /\ Reply(i, IF ok THEN <<Call("batch", world)>> ELSE <<>>)
    BY <1>1 DEF A!DetailArrives, A!Answer
  <2>2. PICK rows \in IF ok THEN Listings ELSE {view.items} :
          view' = [view EXCEPT !.items = rows, !.loading = FALSE, !.covered = @ \/ ok]
    BY <1>1 DEF A!DetailArrives
  <2>3. rows \in Listings \cup {{}}
    BY <2>2 DEF VersionInv, VersionTypes
  <2>4. PICK covered \in BOOLEAN : covered = (view.covered \/ ok)
    OBVIOUS
  <2>5. view' = [view EXCEPT !.items = rows, !.loading = FALSE, !.covered = covered]
    BY <2>2, <2>4
  <2>6. /\ DOMAIN view' = VersionFields /\ view'.items = rows
        /\ view'.records = view.records /\ view'.batch = view.batch
        /\ view'.known = view.known /\ view'.replacing = view.replacing
        /\ view'.chooser = view.chooser /\ view'.box = view.box /\ view'.loading = FALSE
        /\ view'.covered = covered /\ view'.rolling = view.rolling
        /\ view'.operating = view.operating
    BY <2>5 DEF VersionInv, VersionTypes, VersionFields
  <2>7. /\ view'.records \in Listings \cup {{}} /\ view'.batch \in BOOLEAN
        /\ view'.known \in BOOLEAN /\ view'.rolling \in BOOLEAN
    BY <2>6 DEF VersionInv, VersionTypes
  <2> QED
    BY <2>1, <2>3, <2>4, <2>6, <2>7, VersionAnswers
<1>2. ASSUME NEW i \in DOMAIN calls, NEW ok \in BOOLEAN, A!BatchArrives(i, ok)
      PROVE  VersionInv'
  <2>1. /\ calls[i].op = "batch" /\ world' = world /\ Reply(i, <<>>)
    BY <1>2 DEF A!BatchArrives, A!Answer
  <2>2. calls[i].arg \in BOOLEAN /\ world \in BOOLEAN
    BY <2>1 DEF VersionInv, VersionTypes, Flying
  <2>3. PICK deployed \in {calls[i].arg, world}, rows \in IF ok THEN Listings ELSE {{}} :
          view' = [view EXCEPT !.batch = ok /\ deployed, !.records = rows,
                               !.covered = FALSE, !.known = ok]
    BY <1>2 DEF A!BatchArrives
  <2>4. PICK batch \in BOOLEAN : batch = (ok /\ deployed)
    OBVIOUS
  <2>5. view' = [view EXCEPT !.batch = batch, !.records = rows,
                             !.covered = FALSE, !.known = ok]
    BY <2>3, <2>4
  <2>6. /\ DOMAIN view' = VersionFields /\ view'.items = view.items
        /\ view'.records = rows /\ view'.batch = batch
        /\ view'.known = ok /\ view'.replacing = view.replacing
        /\ view'.chooser = view.chooser /\ view'.box = view.box
        /\ view'.loading = view.loading
        /\ view'.covered = FALSE /\ view'.rolling = view.rolling
        /\ view'.operating = view.operating
    BY <2>5 DEF VersionInv, VersionTypes, VersionFields
  <2>7. /\ view'.items \in Listings \cup {{}} /\ rows \in Listings \cup {{}}
        /\ view'.loading \in BOOLEAN /\ view'.rolling \in BOOLEAN
    BY <2>3, <2>6 DEF VersionInv, VersionTypes
  <2>8. Reply(i, IF FALSE THEN <<Call("batch", world)>> ELSE <<>>)
    BY <2>1
  <2> QED
    BY <2>1, <2>6, <2>7, <2>8, VersionAnswers
<1>3. ASSUME NEW i \in DOMAIN calls, NEW ok \in BOOLEAN, A!applyVersionResult(i, ok)
      PROVE  VersionInv'
  <2>1. /\ calls[i].op = "operate" /\ world' = world
        /\ Reply(i, IF FALSE THEN <<Call("batch", world)>> ELSE <<>>)
    BY <1>3 DEF A!applyVersionResult, A!Answer
  <2>2. PICK rows \in IF ok THEN Listings ELSE {view.items} :
          view' = [view EXCEPT !.items = rows, !.operating = None,
                     !.replacing = IF calls[i].arg.kind = "replace" THEN None ELSE @]
    BY <1>3 DEF A!applyVersionResult
  <2>3. rows \in Listings \cup {{}}
    BY <2>2 DEF VersionInv, VersionTypes
  <2>4. PICK rep : rep = IF calls[i].arg.kind = "replace" THEN None ELSE view.replacing
    OBVIOUS
  <2>5. view' = [view EXCEPT !.items = rows, !.operating = None, !.replacing = rep]
    BY <2>2, <2>4
  <2>6. /\ DOMAIN view' = VersionFields /\ view'.items = rows
        /\ view'.records = view.records /\ view'.batch = view.batch
        /\ view'.known = view.known /\ view'.replacing = rep
        /\ view'.chooser = view.chooser /\ view'.box = view.box
        /\ view'.loading = view.loading
        /\ view'.covered = view.covered /\ view'.rolling = view.rolling
        /\ view'.operating = None
    BY <2>5 DEF VersionInv, VersionTypes, VersionFields
  <2>7. /\ view'.records \in Listings \cup {{}} /\ view'.batch \in BOOLEAN
        /\ view'.known \in BOOLEAN /\ view'.rolling \in BOOLEAN
        /\ view'.covered \in BOOLEAN /\ view'.loading \in BOOLEAN
        /\ view'.replacing \in {None, view.replacing}
    BY <2>4, <2>6 DEF VersionInv, VersionTypes
  <2> QED
    BY <2>1, <2>3, <2>6, <2>7, VersionAnswers
<1>4. ASSUME NEW i \in DOMAIN calls, NEW ok \in BOOLEAN, A!RolledBack(i, ok)
      PROVE  VersionInv'
  <2>1. /\ calls[i].op = "rollback" /\ world' = world
        /\ Reply(i, IF FALSE THEN <<Call("batch", world)>> ELSE <<>>)
    BY <1>4 DEF A!RolledBack, A!Answer
  <2>2. PICK rows \in IF ok THEN Listings ELSE {view.records} :
          view' = [view EXCEPT !.batch = @ \/ ok, !.records = rows, !.rolling = FALSE]
    BY <1>4 DEF A!RolledBack
  <2>3. rows \in Listings \cup {{}}
    BY <2>2 DEF VersionInv, VersionTypes
  <2>4. PICK batch \in BOOLEAN : batch = (view.batch \/ ok)
    OBVIOUS
  <2>5. view' = [view EXCEPT !.batch = batch, !.records = rows, !.rolling = FALSE]
    BY <2>2, <2>4
  <2>6. /\ DOMAIN view' = VersionFields /\ view'.items = view.items
        /\ view'.records = rows /\ view'.batch = batch
        /\ view'.known = view.known /\ view'.replacing = view.replacing
        /\ view'.chooser = view.chooser /\ view'.box = view.box
        /\ view'.loading = view.loading
        /\ view'.covered = view.covered /\ view'.rolling = FALSE
        /\ view'.operating = view.operating
    BY <2>5 DEF VersionInv, VersionTypes, VersionFields
  <2>7. /\ view'.items \in Listings \cup {{}} /\ view'.known \in BOOLEAN
        /\ view'.covered \in BOOLEAN /\ view'.loading \in BOOLEAN
    BY <2>6 DEF VersionInv, VersionTypes
  <2> QED
    BY <2>1, <2>3, <2>6, <2>7, VersionAnswers
<1>5. ASSUME A!Deployed PROVE VersionInv'
  <2>1. world' = TRUE /\ view' = view /\ calls' = calls
    BY <1>5 DEF A!Deployed
  <2>2. \A ops : InFlight(ops)' <=> InFlight(ops)
    BY <2>1 DEF InFlight
  <2>3. VersionTypes' /\ VersionBusy' /\ VersionAsks'
    BY <2>1, <2>2 DEF VersionInv, VersionTypes, VersionBusy, VersionAsks, Settled
  <2> QED
    BY <2>3 DEF VersionInv
<1>6. \A i : /\ ~A!VersionsArrive(i) /\ ~A!SettingsArrive(i) /\ ~A!ExecuteFails(i)
             /\ ~A!UploadFails(i)
  BY <1>0 DEF A!VersionsArrive, A!SettingsArrive, A!ExecuteFails, A!UploadFails
<1>7. \A i, ok : /\ ~A!loadSettingsAndRemoteRoot(i, ok) /\ ~A!restoreActiveDownloadJob(i, ok)
                 /\ ~A!DirArrives(i, ok) /\ ~A!DownloadStarted(i, ok)
                 /\ ~A!ProgressArrives(i, ok) /\ ~A!ListArrives(i, ok)
                 /\ ~A!ReadyArrive(i, ok) /\ ~A!loadVersionDetail(i, ok)
  BY <1>0 DEF A!loadSettingsAndRemoteRoot, A!restoreActiveDownloadJob, A!DirArrives,
     A!DownloadStarted, A!ProgressArrives, A!ListArrives, A!ReadyArrive, A!loadVersionDetail
<1>8. ~A!TimerFires /\ ~A!JobEnds
  BY <1>0 DEF A!TimerFires, A!JobEnds
<1> QED
  BY <1>0, <1>1, <1>2, <1>3, <1>4, <1>5, <1>6, <1>7, <1>8 DEF A!Arrivals

LEMMA VersionStep ==
  ASSUME VersionInv, page = "Version", page # None, A!Next PROVE VersionInv'
  BY VersionUser, VersionArrival DEF A!Next

LEMMA CollectStep ==
  ASSUME CollectInv, page = "Collect", page # None, None \notin Jobs, A!Next PROVE CollectInv'
  BY CollectUser, CollectArrival DEF A!Next

\* A batch that is sent names the version its rows are of and its directory,
\* since the rows of another version replace both.
BatchFields == {"loading", "listed", "batch", "dir", "rows", "chosen", "executing"}

Fits(batch, dir, rows) == batch = rows /\ DirOf[batch] \in {dir, None}

BatchInv ==
  /\ DOMAIN view = BatchFields /\ AreCalls(calls)
  /\ view.loading \in BOOLEAN /\ view.listed \in BOOLEAN /\ view.executing \in BOOLEAN
  /\ view.batch \in Versions \cup {None} /\ view.rows \in Versions \cup {None}
  /\ \A a : Flying("settings", a, calls) => a \in Versions \cup {None}
  /\ \A a : Flying("pick", a, calls) => a \in Versions
  /\ view.rows = None => view.chosen = {}
  /\ view.rows # None => /\ Fits(view.batch, view.dir, view.rows)
                         /\ view.chosen \subseteq FilesOf[view.rows]
  /\ \A e : Flying("execute", e, calls) => Fits(e.batch, e.dir, e.rows)
  /\ view.loading => InFlight({"ready", "firstReady", "pick"})
  /\ view.executing => InFlight({"execute"})

\* The choice of the view keeps to one version.
Chosen ==
  /\ DOMAIN view' = BatchFields
  /\ view'.listed \in BOOLEAN /\ view'.loading \in BOOLEAN /\ view'.executing \in BOOLEAN
  /\ view'.batch \in Versions \cup {None} /\ view'.rows \in Versions \cup {None}
  /\ view'.rows = None => view'.chosen = {}
  /\ view'.rows # None => /\ Fits(view'.batch, view'.dir, view'.rows)
                          /\ view'.chosen \subseteq FilesOf[view'.rows]

LEMMA BatchSends ==
  ASSUME BatchInv, Chosen, NEW op \in {"ready", "pick", "execute"}, NEW arg,
         Send(<<Call(op, arg)>>),
         op = "pick" => arg \in Versions,
         op = "execute" => Fits(arg.batch, arg.dir, arg.rows),
         view'.loading => view.loading \/ op \in {"ready", "pick"},
         view'.executing => view.executing \/ op = "execute"
  PROVE  BatchInv'
<1>1. /\ AreCalls(calls')
      /\ \A o, a : Flying(o, a, calls') <=> Flying(o, a, calls) \/ (o = op /\ a = arg)
      /\ \A ops : InFlight(ops) \/ op \in ops => InFlight(ops)'
  BY SendOne DEF BatchInv
<1>2. /\ \A a : Flying("settings", a, calls') => a \in Versions \cup {None}
      /\ \A a : Flying("pick", a, calls') => a \in Versions
      /\ \A e : Flying("execute", e, calls') => Fits(e.batch, e.dir, e.rows)
  BY <1>1 DEF BatchInv
<1>3. /\ view'.loading => InFlight({"ready", "firstReady", "pick"})'
      /\ view'.executing => InFlight({"execute"})'
  BY <1>1 DEF BatchInv
<1> QED
  BY <1>1, <1>2, <1>3 DEF BatchInv, Chosen

LEMMA BatchChooses ==
  ASSUME BatchInv, Chosen, calls' = calls, view'.loading = view.loading,
         view'.executing = view.executing
  PROVE  BatchInv'
<1>1. \A ops : InFlight(ops)' <=> InFlight(ops)
  BY DEF InFlight
<1> QED
  BY <1>1 DEF BatchInv, Chosen

LEMMA BatchAnswers ==
  ASSUME BatchInv, Chosen, NEW i \in DOMAIN calls, NEW again \in BOOLEAN,
         NEW op \in {"firstReady", "pick"}, NEW arg,
         Reply(i, IF again THEN <<Call(op, arg)>> ELSE <<>>),
         again /\ op = "pick" => arg \in Versions,
         view'.loading => again,
         view'.executing => view.executing /\ calls[i].op # "execute"
  PROVE  BatchInv'
<1>1. /\ AreCalls(calls')
      /\ \A o, a : Flying(o, a, calls') => Flying(o, a, calls) \/ (again /\ o = op /\ a = arg)
      /\ \A ops : (InFlight(ops) /\ calls[i].op \notin ops) \/ (again /\ op \in ops)
                    => InFlight(ops)'
  <2>1. CASE again
    <3>1. Reply(i, <<Call(op, arg)>>) /\ AreCalls(<<Call(op, arg)>>)
      BY <2>1, OneCall
    <3> QED
      BY <2>1, <3>1, ReplyOne DEF BatchInv
  <2>2. CASE ~again
    <3>1. Reply(i, <<>>)
      BY <2>2
    <3> QED
      BY <2>2, <3>1, ReplyNone DEF BatchInv
  <2> QED
    BY <2>1, <2>2
<1>2. /\ \A a : Flying("settings", a, calls') => a \in Versions \cup {None}
      /\ \A a : Flying("pick", a, calls') => a \in Versions
      /\ \A e : Flying("execute", e, calls') => Fits(e.batch, e.dir, e.rows)
  BY <1>1 DEF BatchInv
<1>3. /\ view'.loading => InFlight({"ready", "firstReady", "pick"})'
      /\ view'.executing => InFlight({"execute"})'
  BY <1>1 DEF BatchInv
<1> QED
  BY <1>1, <1>2, <1>3 DEF BatchInv, Chosen

LEMMA BatchUser ==
  ASSUME BatchInv, page = "Batch", page # None, None \notin Versions, A!UserActs
  PROVE  BatchInv'
<1> USE ArtifactsConsole
<1>0. /\ ~A!On("Collect") /\ ~A!On("Artifacts") /\ ~A!On("Versions") /\ ~A!On("Version")
      /\ page # None
  BY DEF A!On
<1>1. ASSUME A!loadVersions PROVE BatchInv'
  <2>1. view' = [view EXCEPT !.loading = TRUE] /\ Send(<<Call("ready", None)>>)
    BY <1>1 DEF A!loadVersions
  <2>2. /\ DOMAIN view' = BatchFields /\ view'.loading = TRUE /\ view'.listed = view.listed
        /\ view'.executing = view.executing /\ view'.batch = view.batch
        /\ view'.dir = view.dir /\ view'.rows = view.rows /\ view'.chosen = view.chosen
    BY <2>1 DEF BatchInv, BatchFields
  <2>3. Chosen
    BY <2>2 DEF BatchInv, Chosen
  <2> QED
    BY <2>1, <2>2, <2>3, BatchSends
<1>2. ASSUME NEW v \in Versions, A!selectVersion(v) PROVE BatchInv'
  <2>1. /\ view' = [view EXCEPT !.batch = v, !.dir = DirOf[v], !.loading = TRUE]
        /\ Send(<<Call("pick", v)>>) /\ view.batch = None
    BY <1>2 DEF A!selectVersion
  <2>2. /\ DOMAIN view' = BatchFields /\ view'.loading = TRUE /\ view'.listed = view.listed
        /\ view'.executing = view.executing /\ view'.batch = v
        /\ view'.rows = view.rows /\ view'.chosen = view.chosen
    BY <2>1 DEF BatchInv, BatchFields
  <2>3. view.rows = None
    BY <2>1 DEF BatchInv, Fits
  <2>4. Chosen
    BY <2>2, <2>3 DEF BatchInv, Chosen
  <2> QED
    BY <2>1, <2>2, <2>4, BatchSends
<1>3. ASSUME A!resetSelection PROVE BatchInv'
  <2>1. /\ view' = [view EXCEPT !.batch = None, !.dir = None, !.rows = None, !.chosen = {}]
        /\ calls' = calls
    BY <1>3 DEF A!resetSelection
  <2>2. /\ DOMAIN view' = BatchFields /\ view'.loading = view.loading
        /\ view'.listed = view.listed
        /\ view'.executing = view.executing /\ view'.batch = None
        /\ view'.rows = None /\ view'.chosen = {}
    BY <2>1 DEF BatchInv, BatchFields
  <2>3. Chosen
    BY <2>2 DEF BatchInv, Chosen
  <2> QED
    BY <2>1, <2>2, <2>3, BatchChooses
<1>4. ASSUME NEW files, A!ChooseFiles(files) PROVE BatchInv'
  <2>1. /\ view' = [view EXCEPT !.chosen = files] /\ calls' = calls
        /\ view.rows # None /\ files \subseteq FilesOf[view.rows]
    BY <1>4 DEF A!ChooseFiles
  <2>2. /\ DOMAIN view' = BatchFields /\ view'.loading = view.loading
        /\ view'.listed = view.listed
        /\ view'.executing = view.executing /\ view'.batch = view.batch
        /\ view'.dir = view.dir /\ view'.rows = view.rows /\ view'.chosen = files
    BY <2>1 DEF BatchInv, BatchFields
  <2>3. Chosen
    BY <2>1, <2>2 DEF BatchInv, Chosen
  <2> QED
    BY <2>1, <2>2, <2>3, BatchChooses
<1>5. ASSUME A!executeDeploy PROVE BatchInv'
  <2> DEFINE arg == [batch |-> view.batch, dir |-> view.dir, rows |-> view.rows]
  <2>1. /\ view' = [view EXCEPT !.executing = TRUE] /\ Send(<<Call("execute", arg)>>)
        /\ view.chosen # {}
    BY <1>5 DEF A!executeDeploy
  <2>2. /\ DOMAIN view' = BatchFields /\ view'.loading = view.loading
        /\ view'.listed = view.listed
        /\ view'.executing = TRUE /\ view'.batch = view.batch
        /\ view'.dir = view.dir /\ view'.rows = view.rows /\ view'.chosen = view.chosen
    BY <2>1 DEF BatchInv, BatchFields
  <2>3. Chosen
    BY <2>2 DEF BatchInv, Chosen
  <2>4. Fits(arg.batch, arg.dir, arg.rows)
    BY <2>1 DEF BatchInv
  <2> HIDE DEF arg
  <2> QED
    BY <2>1, <2>2, <2>3, <2>4, BatchSends
<1>6. /\ ~A!loadRemoteDir /\ ~A!handleRemoteDownload /\ ~A!uploadEntries
      /\ ~A!handleLatestChange /\ ~A!loadBatches
      /\ ~A!loadDetail /\ ~A!loadDeployBatch /\ ~A!handleRollback
  BY <1>0 DEF A!loadRemoteDir, A!handleRemoteDownload, A!uploadEntries, A!handleLatestChange,
     A!LoadList, A!loadBatches, A!loadDetail, A!loadDeployBatch, A!handleRollback, A!Free
<1>7. \A x : /\ ~A!SwitchMode(x) /\ ~A!handleRedownloadItem(x) /\ ~A!handleReplaceItem(x)
             /\ ~A!handleDeleteItem(x) /\ ~A!handleReplaceInput(x) /\ ~A!AnswerBox(x)
             /\ ~A!handlePageChange(x) /\ ~A!handleSizeChange(x)
  BY <1>0 DEF A!SwitchMode, A!handleRedownloadItem, A!handleReplaceItem, A!handleDeleteItem,
     A!handleReplaceInput, A!AnswerBox, A!Row, A!Free, A!handlePageChange, A!handleSizeChange
<1> QED
  BY <1>1, <1>2, <1>3, <1>4, <1>5, <1>6, <1>7 DEF A!UserActs

LEMMA LinkedIs ==
  ASSUME NEW v \in Versions \cup {None}, view' = A!LinkedTo(v)
  PROVE  /\ Chosen /\ view'.loading = TRUE /\ view'.executing = FALSE
         /\ view'.rows = None
<1>1. /\ DOMAIN view' = BatchFields /\ view'.loading = TRUE /\ view'.listed = FALSE
      /\ view'.executing = FALSE /\ view'.batch = v /\ view'.rows = None /\ view'.chosen = {}
  BY DEF A!LinkedTo, A!Empty, BatchFields
<1> QED
  BY <1>1 DEF Chosen

LEMMA BatchArrival ==
  ASSUME BatchInv, page = "Batch", page # None, None \notin Versions, A!Arrivals
  PROVE  BatchInv'
<1> USE ArtifactsConsole
<1>0. /\ ~A!On("Collect") /\ ~A!On("Artifacts") /\ ~A!On("Versions") /\ ~A!On("Version")
      /\ page # None /\ page \notin {"Collect", None}
  BY DEF A!On
<1>1. ASSUME NEW i \in DOMAIN calls, A!SettingsArrive(i) PROVE BatchInv'
  <2>1. /\ calls[i].op = "settings" /\ view' = A!LinkedTo(calls[i].arg)
        /\ Reply(i, IF TRUE THEN <<Call("firstReady", None)>> ELSE <<>>)
    BY <1>1 DEF A!SettingsArrive
  <2>2. calls[i].arg \in Versions \cup {None}
    BY <2>1 DEF BatchInv, Flying
  <2>3. Chosen /\ view'.executing = FALSE
    BY <2>1, <2>2, LinkedIs
  <2> QED
    BY <2>1, <2>3, BatchAnswers
<1>2. ASSUME NEW i \in DOMAIN calls, NEW ok \in BOOLEAN, A!ReadyArrive(i, ok) PROVE BatchInv'
  <2>1. PICK goesOn \in BOOLEAN :
          goesOn = (ok /\ calls[i].op = "firstReady" /\ view.batch # None)
    OBVIOUS
  <2>2. PICK listed \in BOOLEAN : listed = (view.listed \/ ok)
    OBVIOUS
  <2>3. /\ calls[i].op \in {"ready", "firstReady"}
        /\ view' = [view EXCEPT !.listed = listed, !.loading = goesOn]
        /\ Reply(i, IF goesOn THEN <<Call("pick", view.batch)>> ELSE <<>>)
    BY <1>2, <2>1, <2>2 DEF A!ReadyArrive
  <2>4. /\ DOMAIN view' = BatchFields /\ view'.loading = goesOn /\ view'.listed = listed
        /\ view'.executing = view.executing /\ view'.batch = view.batch
        /\ view'.dir = view.dir /\ view'.rows = view.rows /\ view'.chosen = view.chosen
    BY <2>3 DEF BatchInv, BatchFields
  <2>5. Chosen
    BY <2>4 DEF BatchInv, Chosen
  <2>6. goesOn => view.batch \in Versions
    BY <2>1 DEF BatchInv
  <2> QED
    BY <2>3, <2>4, <2>5, <2>6, BatchAnswers
<1>3. ASSUME NEW i \in DOMAIN calls, NEW ok \in BOOLEAN, A!loadVersionDetail(i, ok)
      PROVE BatchInv'
  <2>1. calls[i].op = "pick" /\ Reply(i, IF FALSE THEN <<Call("pick", None)>> ELSE <<>>)
    BY <1>3 DEF A!loadVersionDetail
  <2>2. PICK v : v = calls[i].arg
    OBVIOUS
  <2>3. v \in Versions
    BY <2>1, <2>2 DEF BatchInv, Flying
  <2>4. CASE ok
    <3>1. PICK dir : dir = IF DirOf[v] = None THEN view.dir ELSE DirOf[v]
      OBVIOUS
    <3>2. view' = [view EXCEPT !.batch = v, !.rows = v, !.chosen = FilesOf[v],
                               !.dir = dir, !.loading = FALSE]
      BY <1>3, <2>2, <2>4, <3>1 DEF A!loadVersionDetail
    <3>3. /\ DOMAIN view' = BatchFields /\ view'.loading = FALSE /\ view'.listed = view.listed
          /\ view'.executing = view.executing /\ view'.batch = v
          /\ view'.dir = dir /\ view'.rows = v /\ view'.chosen = FilesOf[v]
      BY <3>2 DEF BatchInv, BatchFields
    <3>4. Fits(v, dir, v)
      BY <3>1 DEF Fits
    <3>5. Chosen
      BY <2>3, <3>3, <3>4 DEF BatchInv, Chosen
    <3> QED
      BY <2>1, <3>3, <3>5, BatchAnswers
  <2>5. CASE ~ok
    <3>1. view' = [view EXCEPT !.loading = FALSE]
      BY <1>3, <2>5 DEF A!loadVersionDetail
    <3>2. /\ DOMAIN view' = BatchFields /\ view'.loading = FALSE /\ view'.listed = view.listed
          /\ view'.executing = view.executing /\ view'.batch = view.batch
          /\ view'.dir = view.dir /\ view'.rows = view.rows /\ view'.chosen = view.chosen
      BY <3>1 DEF BatchInv, BatchFields
    <3>3. Chosen
      BY <3>2 DEF BatchInv, Chosen
    <3> QED
      BY <2>1, <3>2, <3>3, BatchAnswers
  <2> QED
    BY <2>4, <2>5
<1>4. ASSUME NEW i \in DOMAIN calls, A!ExecuteFails(i) PROVE BatchInv'
  <2>1. /\ calls[i].op = "execute" /\ view' = [view EXCEPT !.executing = FALSE]
        /\ Reply(i, <<>>)
    BY <1>4 DEF A!ExecuteFails
  <2>2. /\ DOMAIN view' = BatchFields /\ view'.loading = view.loading
        /\ view'.listed = view.listed
        /\ view'.executing = FALSE /\ view'.batch = view.batch
        /\ view'.dir = view.dir /\ view'.rows = view.rows /\ view'.chosen = view.chosen
    BY <2>1 DEF BatchInv, BatchFields
  <2>3. Chosen
    BY <2>2 DEF BatchInv, Chosen
  <2>4. /\ AreCalls(calls') /\ \A o, a : Flying(o, a, calls') => Flying(o, a, calls)
        /\ \A ops : InFlight(ops) /\ calls[i].op \notin ops => InFlight(ops)'
    BY <2>1, ReplyNone DEF BatchInv
  <2>5. view'.loading => InFlight({"ready", "firstReady", "pick"})'
    BY <2>1, <2>2, <2>4 DEF BatchInv
  <2> QED
    BY <2>2, <2>3, <2>4, <2>5 DEF BatchInv, Chosen
<1>5. \A i : ~A!VersionsArrive(i) /\ ~A!UploadFails(i)
  BY <1>0 DEF A!VersionsArrive, A!UploadFails
<1>6. \A i, ok : /\ ~A!loadSettingsAndRemoteRoot(i, ok) /\ ~A!restoreActiveDownloadJob(i, ok)
                 /\ ~A!DirArrives(i, ok) /\ ~A!DownloadStarted(i, ok)
                 /\ ~A!ProgressArrives(i, ok) /\ ~A!ListArrives(i, ok)
  BY <1>0 DEF A!loadSettingsAndRemoteRoot, A!restoreActiveDownloadJob,
     A!DirArrives, A!DownloadStarted, A!ProgressArrives, A!ListArrives
<1>7. \A i, ok : /\ ~A!DetailArrives(i, ok) /\ ~A!BatchArrives(i, ok)
                 /\ ~A!applyVersionResult(i, ok) /\ ~A!RolledBack(i, ok)
  BY <1>0 DEF A!DetailArrives, A!BatchArrives, A!applyVersionResult, A!RolledBack
<1>8. ~A!TimerFires /\ ~A!JobEnds /\ ~A!Deployed
  BY <1>0 DEF A!TimerFires, A!JobEnds, A!Deployed
<1> QED
  BY <1>0, <1>1, <1>2, <1>3, <1>4, <1>5, <1>6, <1>7, <1>8 DEF A!Arrivals

LEMMA BatchStep ==
  ASSUME BatchInv, page = "Batch", page # None, None \notin Versions, A!Next PROVE BatchInv'
  BY BatchUser, BatchArrival DEF A!Next

LEMMA CollectEntered ==
  ASSUME A!EnterCollect PROVE page' = "Collect" /\ CollectInv'
<1>1. PICK running \in SUBSET Jobs :
        Mount("Collect",
              [mode |-> "upload", configured |-> FALSE, listed |-> FALSE, loading |-> FALSE,
               uploading |-> FALSE, job |-> None, runs |-> FALSE, timer |-> None, loose |-> <<>>,
               started |-> running, calm |-> TRUE],
              running, <<Call("settings", None)>>)
  BY ArtifactsMount, ArtifactsConsole DEF A!EnterCollect
<1>2. /\ page' = "Collect" /\ world' = running
      /\ DOMAIN view' = CollectFields /\ view'.mode = "upload" /\ view'.configured = FALSE
      /\ view'.listed = FALSE /\ view'.loading = FALSE /\ view'.uploading = FALSE
      /\ view'.job = None /\ view'.runs = FALSE /\ view'.timer = None
      /\ view'.loose = <<>> /\ view'.started = running
  BY <1>1 DEF Mount, CollectFields
<1>3. AreCalls(calls') /\ \A o, a : Flying(o, a, calls') <=> o = "settings" /\ a = None
  BY <1>1, MountOne
<1>4. <<>> \in Seq(Jobs)
  OBVIOUS
<1> QED
  BY <1>2, <1>3, <1>4 DEF CollectInv

LEMMA ListEntered ==
  ASSUME A!EnterList PROVE page' = "Artifacts" /\ ArtifactsInv'
<1> DEFINE refs == [loading |-> TRUE, latest |-> TRUE, page |-> 1, size |-> 50, rows |-> None,
                    calm |-> TRUE]
           want == [latest |-> TRUE, page |-> 1, size |-> 500]
<1>1. Mount("Artifacts", refs, None, <<Call("artifacts", want)>>)
  BY ArtifactsMount, ArtifactsConsole DEF A!EnterList, A!ListCall
<1>2. /\ page' = "Artifacts" /\ DOMAIN view' = ArtifactFields /\ view'.loading = TRUE
      /\ view'.calm = TRUE /\ view'.latest = TRUE /\ view'.page = 1 /\ view'.size = 50
      /\ view'.rows = None
  BY <1>1 DEF Mount, ArtifactFields
<1>3. ListWanted' = want
  BY <1>2 DEF ListWanted
<1>6. want \in A!ListArgs
  BY DEF A!ListArgs
<1> HIDE DEF refs, want
<1>4. /\ AreCalls(calls') /\ \A o, a : Flying(o, a, calls') <=> o = "artifacts" /\ a = want
      /\ InFlight({"artifacts"})' /\ Asks("artifacts", want, calls')
  BY <1>1, MountOne, MountLone
<1>5. Latest("artifacts", calls')
  <2>1. calls' = Sent(<<>>, <<Call("artifacts", want)>>)
    BY <1>1 DEF Mount
  <2>2. Sent(<<>>, <<Call("artifacts", want)>>) = <<Call("artifacts", want)>>
    BY DEF Sent
  <2>3. calls'[1] = Call("artifacts", want) /\ 1 \in DOMAIN calls'
    BY <2>1, <2>2
  <2> QED
    BY <2>3 DEF Latest, Call
<1>7. \A a : Flying("artifacts", a, calls') => a \in A!ListArgs
  BY <1>4, <1>6
<1>8. view'.page \in 1 .. 2 /\ view'.size \in {20, 50}
  BY <1>2
<1> QED
  BY <1>2, <1>3, <1>4, <1>5, <1>7, <1>8 DEF ArtifactsInv

LEMMA VersionsEntered ==
  ASSUME A!EnterVersions PROVE page' = "Versions" /\ VersionsInv'
<1>1. Mount("Versions", [loading |-> TRUE], None, <<Call("versions", None)>>)
  BY ArtifactsMount, ArtifactsConsole DEF A!EnterVersions
<1>2. page' = "Versions" /\ DOMAIN view' = {"loading"}
  BY <1>1 DEF Mount
<1>3. AreCalls(calls') /\ InFlight({"versions"})'
  BY <1>1, MountOne
<1> QED
  BY <1>2, <1>3 DEF VersionsInv

LEMMA DetailEntered ==
  ASSUME A!EnterDetail PROVE page' = "Version" /\ VersionInv'
<1>1. PICK deployed \in BOOLEAN :
        Mount("Version",
              [loading |-> TRUE, covered |-> FALSE, items |-> {}, records |-> {},
               batch |-> FALSE, known |-> FALSE, operating |-> None, replacing |-> None,
               chooser |-> None, box |-> None, rolling |-> FALSE],
              deployed, <<Call("detail", None)>>)
  BY ArtifactsMount, ArtifactsConsole DEF A!EnterDetail
<1>2. /\ page' = "Version" /\ world' = deployed
      /\ DOMAIN view' = VersionFields /\ view'.items = {} /\ view'.records = {}
      /\ view'.batch = FALSE /\ view'.known = FALSE /\ view'.replacing = None
      /\ view'.chooser = None /\ view'.box = None /\ view'.loading = TRUE
      /\ view'.covered = FALSE /\ view'.rolling = FALSE /\ view'.operating = None
  BY <1>1 DEF Mount, VersionFields
<1>3. /\ AreCalls(calls') /\ \A o, a : Flying(o, a, calls') <=> o = "detail" /\ a = None
      /\ InFlight({"detail"})'
  BY <1>1, MountOne
<1>4. VersionTypes'
  BY <1>2, <1>3 DEF VersionTypes, ItemFiles
<1>5. VersionBusy' /\ VersionAsks'
  BY <1>2, <1>3 DEF VersionBusy, VersionAsks
<1> QED
  BY <1>2, <1>4, <1>5 DEF VersionInv

LEMMA BatchEntered ==
  ASSUME A!EnterBatch PROVE page' = "Batch" /\ BatchInv'
<1>1. PICK v \in Versions \cup {None} :
        \/ Mount("Batch", A!Empty, None, <<Call("settings", v)>>)
        \/ Mount("Batch", A!LinkedTo(v), None, <<Call("firstReady", None)>>)
  BY ArtifactsMount, ArtifactsConsole DEF A!EnterBatch
<1>4. v \in Versions \cup {None}
  BY <1>1
<1>2. CASE Mount("Batch", A!Empty, None, <<Call("settings", v)>>)
  <2>1. page' = "Batch" /\ view' = A!Empty
    BY <1>2 DEF Mount
  <2>2. /\ DOMAIN view' = BatchFields /\ view'.loading = FALSE /\ view'.listed = FALSE
        /\ view'.executing = FALSE /\ view'.batch = None /\ view'.rows = None
        /\ view'.chosen = {}
    BY <2>1 DEF A!Empty, BatchFields
  <2>3. AreCalls(calls') /\ \A o, a : Flying(o, a, calls') <=> o = "settings" /\ a = v
    BY <1>2, MountOne
  <2>5. /\ \A a : Flying("settings", a, calls') => a \in Versions \cup {None}
        /\ \A a : Flying("pick", a, calls') => a \in Versions
        /\ \A e : Flying("execute", e, calls') => Fits(e.batch, e.dir, e.rows)
    BY <1>4, <2>3
  <2>4. BatchInv'
    BY <2>2, <2>3, <2>5 DEF BatchInv
  <2> QED
    BY <2>1, <2>4
<1>3. CASE Mount("Batch", A!LinkedTo(v), None, <<Call("firstReady", None)>>)
  <2>1. page' = "Batch" /\ view' = A!LinkedTo(v)
    BY <1>3 DEF Mount
  <2>2. Chosen /\ view'.loading = TRUE /\ view'.executing = FALSE
    BY <1>4, <2>1, LinkedIs
  <2>3. /\ AreCalls(calls') /\ \A o, a : Flying(o, a, calls') <=> o = "firstReady" /\ a = None
        /\ InFlight({"ready", "firstReady", "pick"})'
    BY <1>3, MountOne
  <2> QED
    BY <2>1, <2>2, <2>3 DEF BatchInv, Chosen
<1> QED
  BY <1>1, <1>2, <1>3

ArtifactPagesInv ==
  /\ A!On("Collect") => CollectInv
  /\ A!On("Artifacts") => ArtifactsInv
  /\ A!On("Versions") => VersionsInv
  /\ A!On("Version") => VersionInv
  /\ A!On("Batch") => BatchInv

LEMMA OutsideArtifacts ==
  page' \notin A!Views => ArtifactPagesInv'
  BY DEF ArtifactPagesInv, A!Views, A!On

LEMMA ArtifactsUnchanged ==
  ASSUME ArtifactPagesInv, UNCHANGED console PROVE ArtifactPagesInv'
<1>1. UNCHANGED <<page, view, calls, world>>
  BY DEF console
<1>2. CollectInv => CollectInv'
  BY <1>1 DEF CollectInv, InFlight
<1>3. ArtifactsInv => ArtifactsInv'
  BY <1>1 DEF ArtifactsInv, ListWanted, InFlight
<1>4. VersionsInv => VersionsInv'
  BY <1>1 DEF VersionsInv, InFlight
<1>5. VersionInv => VersionInv'
  BY <1>1 DEF VersionInv, VersionTypes, VersionBusy, VersionAsks, Settled, InFlight
<1>6. BatchInv => BatchInv'
  BY <1>1 DEF BatchInv, InFlight
<1> QED
  BY <1>1, <1>2, <1>3, <1>4, <1>5, <1>6 DEF ArtifactPagesInv, A!On

LEMMA ArtifactsVisit ==
  ASSUME ArtifactPagesInv, [A!Enter \/ A!Leave \/ A!Next]_console,
         A!NoneApart
  PROVE  ArtifactPagesInv'
<1>1. CASE A!Enter
  BY <1>1, CollectEntered, ListEntered, VersionsEntered, DetailEntered, BatchEntered
     DEF A!Enter, ArtifactPagesInv, A!On
<1>2. CASE A!Leave
  <2>1. page' = None
    BY <1>2 DEF A!Leave, A!LeaveCollect, A!LeaveWith
  <2> QED
    BY <2>1, OutsideArtifacts DEF A!NoneApart
<1>3. CASE A!Next
  <2>1. page \in A!Views \cup {None} /\ page' = page
    BY <1>3, ArtifactsStay DEF Stays
  <2>2. page = None => ArtifactPagesInv'
    BY <2>1, OutsideArtifacts DEF A!NoneApart
  <2>3. page = "Collect" /\ page # None => CollectInv'
    BY <1>3, CollectStep DEF ArtifactPagesInv, A!On, A!NoneApart
  <2>4. page = "Artifacts" /\ page # None => ArtifactsInv'
    BY <1>3, ArtifactsStep DEF ArtifactPagesInv, A!On
  <2>5. page = "Versions" /\ page # None => VersionsInv'
    BY <1>3, VersionsStep DEF ArtifactPagesInv, A!On
  <2>6. page = "Version" /\ page # None => VersionInv'
    BY <1>3, VersionStep DEF ArtifactPagesInv, A!On
  <2>7. page = "Batch" /\ page # None => BatchInv'
    BY <1>3, BatchStep DEF ArtifactPagesInv, A!On, A!NoneApart
  <2> QED
    BY <2>1, <2>2, <2>3, <2>4, <2>5, <2>6, <2>7 DEF ArtifactPagesInv, A!On
<1>4. CASE UNCHANGED console
  BY <1>4, ArtifactsUnchanged
<1> QED
  BY <1>1, <1>2, <1>3, <1>4

\* What the artifact views promise follows from it.
LEMMA ArtifactsBusyEnd ==
  ASSUME ArtifactPagesInv PROVE A!BusyEnds
<1> USE ArtifactsConsole
<1>1. \E a : Flying("operate", a, calls) /\ a.file = view.operating =>
        \E i \in A!Indices("operate") : calls[i].arg.file = view.operating
  BY DEF Flying
<1>2. A!On("Version") =>
         /\ view.loading => A!InFlight({"detail"})
         /\ view.covered => A!InFlight({"batch"})
         /\ view.rolling => A!InFlight({"rollback"})
         /\ view.operating # None =>
              \E i \in A!Indices("operate") : calls[i].arg.file = view.operating
  <2> SUFFICES ASSUME A!On("Version")
               PROVE  /\ view.loading => A!InFlight({"detail"})
                      /\ view.covered => A!InFlight({"batch"})
                      /\ view.rolling => A!InFlight({"rollback"})
                      /\ view.operating # None =>
                           \E i \in A!Indices("operate") : calls[i].arg.file = view.operating
    OBVIOUS
  <2>1. VersionBusy
    BY DEF ArtifactPagesInv, VersionInv
  <2>2. view.operating # None =>
          \E i \in A!Indices("operate") : calls[i].arg.file = view.operating
    BY <2>1 DEF VersionBusy, Flying
  <2> QED
    BY <2>1, <2>2 DEF VersionBusy
<1>3. /\ A!On("Collect") /\ view.loading => A!InFlight({"dir", "firstDir"})
      /\ A!On("Collect") /\ view.uploading => A!InFlight({"upload"})
  BY DEF ArtifactPagesInv, CollectInv
<1>4. /\ A!On("Artifacts") /\ view.loading => A!InFlight({"artifacts"})
      /\ A!On("Versions") /\ view.loading => A!InFlight({"versions"})
  BY DEF ArtifactPagesInv, ArtifactsInv, VersionsInv
<1>5. A!On("Batch") =>
         /\ view.loading => A!InFlight({"ready", "firstReady", "pick"})
         /\ view.executing => A!InFlight({"execute"})
  BY DEF ArtifactPagesInv, BatchInv
<1> QED
  BY <1>2, <1>3, <1>4, <1>5 DEF A!BusyEnds

LEMMA ArtifactsWriteOwn ==
  ASSUME ArtifactPagesInv PROVE A!WritesOwnSubject
<1> USE ArtifactsConsole
<1>1. ASSUME A!On("Version"), NEW i \in A!Indices("operate")
      PROVE  /\ calls[i].arg.file = calls[i].arg.of
             /\ calls[i].arg.sure => ~calls[i].arg.deployed
  <2>1. Flying("operate", calls[i].arg, calls)
    BY <1>1 DEF Flying
  <2> QED
    BY <1>1, <2>1 DEF ArtifactPagesInv, VersionInv, VersionAsks
<1>2. ASSUME A!On("Batch"), NEW i \in A!Indices("execute")
      PROVE  /\ calls[i].arg.batch = calls[i].arg.rows
             /\ DirOf[calls[i].arg.batch] \in {calls[i].arg.dir, None}
  <2>1. Flying("execute", calls[i].arg, calls)
    BY <1>2 DEF Flying
  <2> QED
    BY <1>2, <2>1 DEF ArtifactPagesInv, BatchInv, Fits
<1> QED
  BY <1>1, <1>2 DEF A!WritesOwnSubject

LEMMA ArtifactsPromises ==
  ASSUME ArtifactPagesInv PROVE A!DownloadFollowed /\ A!RowsOfControls
<1> USE ArtifactsConsole
<1>1. A!DownloadFollowed
  BY DEF ArtifactPagesInv, CollectInv, A!DownloadFollowed
<1>2. A!RowsOfControls
  <2> SUFFICES ASSUME A!On("Artifacts"), view.calm, calls = <<>>
               PROVE  view.rows = A!ListCall(view).arg
    BY DEF A!RowsOfControls
  <2>1. view.rows = ListWanted \/ Latest("artifacts", calls)
    BY DEF ArtifactPagesInv, ArtifactsInv
  <2>2. ~Latest("artifacts", calls)
    <3>1. DOMAIN calls = {}
      OBVIOUS
    <3> QED
      BY <3>1 DEF Latest
  <2> QED
    BY <2>1, <2>2 DEF A!ListCall, ListWanted, Call
<1> QED
  BY <1>1, <1>2

LEMMA ArtifactsTyped ==
  ASSUME ArtifactPagesInv PROVE A!TypeOK
<1>1. A!On("Collect") =>
         /\ view.mode \in {"upload", "download"} /\ view.job \in Jobs \cup {None}
         /\ view.timer \in Jobs \cup {None} /\ view.loose \in Seq(Jobs)
         /\ world \subseteq view.started /\ view.started \subseteq Jobs
         /\ {view.configured, view.listed, view.loading, view.uploading, view.runs}
               \subseteq BOOLEAN
  <2> SUFFICES ASSUME CollectInv
               PROVE  /\ {view.configured, view.listed, view.loading, view.uploading, view.runs}
                             \subseteq BOOLEAN
    BY DEF ArtifactPagesInv, CollectInv
  <2> QED
    BY DEF CollectInv
<1>2. A!On("Artifacts") =>
         /\ [latest |-> view.latest, page |-> view.page, size |-> view.size] \in A!ListArgs
         /\ view.rows \in A!ListArgs \cup {None} /\ {view.loading, view.calm} \subseteq BOOLEAN
  BY DEF ArtifactPagesInv, ArtifactsInv, A!ListArgs
<1>3. A!On("Version") =>
         /\ {view.items, view.records} \subseteq Listings \cup {{}}
         /\ {view.box, view.chooser} \subseteq A!Asks \cup {None}
         /\ {view.operating, view.replacing} \subseteq {r.file : r \in A!AllRows} \cup {None}
         /\ {view.loading, view.covered, view.batch, view.known, view.rolling, world}
               \subseteq BOOLEAN
  <2> SUFFICES ASSUME VersionTypes
               PROVE  /\ {view.items, view.records} \subseteq Listings \cup {{}}
                      /\ {view.box, view.chooser} \subseteq A!Asks \cup {None}
                      /\ {view.operating, view.replacing} \subseteq ItemFiles
                      /\ {view.loading, view.covered, view.batch, view.known, view.rolling, world}
                            \subseteq BOOLEAN
    BY DEF ArtifactPagesInv, VersionInv, ItemFiles
  <2> QED
    BY DEF VersionTypes
<1>4. A!On("Batch") =>
         /\ {view.batch, view.rows} \subseteq Versions \cup {None}
         /\ view.rows # None => view.chosen \subseteq FilesOf[view.rows]
         /\ {view.loading, view.listed, view.executing} \subseteq BOOLEAN
  BY DEF ArtifactPagesInv, BatchInv
<1> QED
  BY Zenon, <1>1, <1>2, <1>3, <1>4 DEF A!TypeOK

\* The artifact views alone.
ArtifactVisits == Init /\ [][A!Enter \/ A!Leave \/ A!Next]_console

LEMMA ArtifactsInvariant ==
  ASSUME A!NoneApart PROVE ArtifactVisits => []ArtifactPagesInv
<1>1. Init => ArtifactPagesInv
  BY DEF Init, ArtifactPagesInv, A!On, A!NoneApart, A!Views
<1>2. ArtifactPagesInv /\ [A!Enter \/ A!Leave \/ A!Next]_console => ArtifactPagesInv'
  BY ArtifactsVisit
<1> QED
  BY <1>1, <1>2, PTL DEF ArtifactVisits

\* An operation goes to the item whose button was pressed and never to a version
\* whose deployment was shown, if the button was pressed after the deployment was
\* read and while nothing that would show one was under way; a batch names the
\* version its files are of and that version's directory: whatever is answered
\* meanwhile.
THEOREM ArtifactsWriteTheirOwn ==
  ASSUME A!NoneApart PROVE ArtifactVisits => []A!WritesOwnSubject
  BY ArtifactsInvariant, ArtifactsWriteOwn, PTL

\* A download shown as running has an armed timer or a poll in flight, until a poll
\* fails: however many downloads are started, found again and polled at once.
THEOREM DownloadsAreFollowed ==
  ASSUME A!NoneApart PROVE ArtifactVisits => []A!DownloadFollowed
  BY ArtifactsInvariant, ArtifactsPromises, PTL

\* With nothing in flight the list of artifacts is what its controls ask for, as
\* long as every load was answered in turn.
THEOREM ArtifactsAsAsked ==
  ASSUME A!NoneApart PROVE ArtifactVisits => []A!RowsOfControls
  BY ArtifactsInvariant, ArtifactsPromises, PTL

\* No overlay or spinner of an artifact view stays up without a call that will end it.
THEOREM ArtifactsNeverStuck ==
  ASSUME A!NoneApart PROVE ArtifactVisits => []A!BusyEnds
  BY ArtifactsInvariant, ArtifactsBusyEnd, PTL

-----------------------------------------------------------------------------
(* The views of deployment *)

CONSTANTS DeployClicks, Components, PipelinesOf, Modes

D == INSTANCE DeploymentPages WITH MaxClicks <- DeployClicks

LEMMA DeploymentConsole ==
  /\ \A new : D!Send(new) <=> Send(new)
  /\ \A i, new : D!Reply(i, new) <=> Reply(i, new)
  /\ \A op, arg : D!Call(op, arg) = Call(op, arg)
  /\ \A op, i : i \in D!Indices(op) <=> i \in DOMAIN calls /\ calls[i].op = op
  /\ \A ops : D!InFlight(ops) <=> InFlight(ops)
  /\ \A p, refs, servers, new : D!Mount(p, refs, servers, new) <=> Mount(p, refs, servers, new)
  /\ \A i, ok : D!Calmly(i, ok) <=> Calmly(i, ok)
  /\ \A s, i : D!Without(s, i) = Without(s, i)
  /\ \A s : D!Range(s) = Range(s)
  BY Zenon DEF D!Range, Range, D!Send, Send, D!Reply, Reply, D!Sent, Sent, D!Outdates,
     Outdates, D!Without, Without, D!Call, Call, D!Indices, D!InFlight, InFlight, D!Mount,
     Mount, D!Calmly, Calmly

(* The table of components *)

DialogNames == {"hosts", "params", "tasks"}

OverrideArgs == [of : D!Pipes, opens : BOOLEAN]
SwitchArgs == [row : Components, names : SUBSET Components]

ComponentsShape ==
  /\ DOMAIN view = {"loading", "listed", "enabled", "open", "hosts", "hostIds", "params",
                    "tasks", "calm"}
  /\ view.enabled \subseteq Components /\ world \subseteq Components
  /\ view.open \in Seq(DialogNames)
  /\ view.hosts \in [of : Components \cup {None}, sel : Components \cup {None},
                     saving : BOOLEAN]
  /\ view.hostIds \in [Components -> Components]
  /\ view.params \in [pipes : Seq(D!Pipes), pipe : D!Pipes \cup {None},
                      rows : D!Pipes \cup {None}, saving : BOOLEAN]
  /\ view.tasks \in [of : Components \cup {None}, items : Components \cup {None},
                     loading : BOOLEAN]
  /\ view.loading \in BOOLEAN /\ view.listed \in BOOLEAN /\ view.calm \in BOOLEAN

ComponentsCalls ==
  /\ AreCalls(calls)
  /\ \A a : Flying("targets", a, calls) \/ Flying("tasks", a, calls) => a \in Components
  /\ \A a : Flying("override", a, calls) => a \in OverrideArgs
  /\ \A a : Flying("enable", a, calls) => a \in SwitchArgs

ComponentsBusy ==
  /\ view.loading => InFlight({"components"})
  /\ view.hosts.saving => InFlight({"putTargets"})
  /\ view.params.saving => InFlight({"putOverride"})
  /\ view.tasks.loading => InFlight({"tasks"})

\* The hosts shown, those of the table and those being saved are their component's.
HostsOfRow ==
  /\ "hosts" \in Range(view.open) \/ InFlight({"putTargets"}) => view.hosts.sel \in Components
  /\ view.calm =>
       /\ Asks("targets", view.hosts.of, calls)
       /\ "hosts" \in Range(view.open) => view.hosts.sel = view.hosts.of
       /\ \A c \in Components : view.hostIds[c] = c
       /\ \A a : Flying("putTargets", a, calls) => a.of = a.hosts

\* The parameters shown are those of the pipeline component picked, or on their way.
ParamsOfPipe ==
  view.calm =>
  /\ \E opens \in BOOLEAN : Asks("override", [of |-> view.params.pipe, opens |-> opens], calls)
  /\ InFlight({"override"}) \/ view.params.rows \in {view.params.pipe, None}
  /\ \A a : Flying("putOverride", a, calls) => a.early \/ a.rows \in {a.of, None}

\* Each save of the switches is one flip away from the one before it: the first of
\* them from what the server has, and the last of them is what the table shows.
Switches(cs) == {k \in DOMAIN cs : cs[k].op = "enable"}

SwitchChain(cs, first, last) ==
  /\ Switches(cs) = {} => first = last
  /\ \A k \in Switches(cs) :
       /\ (\A j \in Switches(cs) : ~(j < k)) => cs[k].arg.names = D!Flip(first, cs[k].arg.row)
       /\ (\A j \in Switches(cs) : ~(k < j)) => cs[k].arg.names = last
       /\ \A j \in Switches(cs) :
            j < k /\ (\A m \in Switches(cs) : ~(j < m /\ m < k)) =>
              cs[k].arg.names = D!Flip(cs[j].arg.names, cs[k].arg.row)

SwitchesInTurn ==
  /\ Lone({"components"}, calls)
  /\ view.listed => ~InFlight({"components"})
  /\ ~view.listed => ~InFlight({"enable"})
  /\ view.listed /\ view.calm => SwitchChain(calls, world, view.enabled)

TableInv ==
  /\ page = "Components" /\ ComponentsShape /\ ComponentsCalls /\ ComponentsBusy
  /\ HostsOfRow /\ ParamsOfPipe /\ SwitchesInTurn

(* The global configuration *)

GlobalShape ==
  /\ AreCalls(calls)
  /\ DOMAIN view = {"loading", "cfg", "saving", "offline", "initializing", "verifying",
                    "alert", "calm"}
  /\ view.cfg \in {"defaults", "server"}
  /\ view.loading \in BOOLEAN /\ view.saving \in BOOLEAN /\ view.offline \in BOOLEAN
  /\ view.initializing \in BOOLEAN /\ view.verifying \in BOOLEAN
  /\ view.alert \in BOOLEAN /\ view.calm \in BOOLEAN

GlobalBusy ==
  /\ view.loading => InFlight({"config"})
  /\ view.saving => InFlight({"putConfig"})
  /\ view.offline => InFlight({"offline"})
  /\ view.initializing => InFlight({"install"}) \/ Flying("offline", "install", calls)
  /\ view.verifying => InFlight({"verify"}) \/ view.alert

\* The configuration is shown as loaded before it can be saved.
ConfigServed ==
  view.calm => /\ view.loading \/ view.cfg = "server"
               /\ \A a : Flying("putConfig", a, calls) => a = "server"

CardsInv == page = "Global" /\ GlobalShape /\ GlobalBusy /\ ConfigServed

(* The runs and the dialog that starts one *)

RunBodies == [mode : Modes, dry : BOOLEAN, component : Components \cup {None},
              hosts : Components \cup {None}]

RunsShape ==
  /\ DOMAIN view = {"loading", "dialog", "fetching", "listed", "submitting", "previewing",
                    "preview", "form", "blocked", "calm"}
  /\ view.form \in [mode : Modes, component : Components \cup {None},
                    hosts : Components \cup {None}, dry : BOOLEAN]
  /\ view.preview \in [mode : Modes, component : Components \cup {None}] \cup {None}
  /\ view.loading \in BOOLEAN /\ view.dialog \in BOOLEAN /\ view.fetching \in BOOLEAN
  /\ view.listed \in BOOLEAN /\ view.submitting \in BOOLEAN
  /\ view.previewing \in BOOLEAN /\ view.calm \in BOOLEAN
  /\ AreCalls(calls)
  /\ \A a : Flying("preview", a, calls) => a \in RunBodies
  /\ \A a : Flying("formTargets", a, calls) => a \in Components

RunsBusy ==
  /\ view.loading => InFlight({"runs"})
  /\ view.fetching => InFlight({"choices"})
  /\ view.submitting => InFlight({"createRun"})
  /\ view.previewing => InFlight({"preview"})

\* A form, and whatever was sent from it, has the hosts of its component, or none.
OwnHosts(c, hosts) == c = None \/ hosts \in {c, None}

FormHosts ==
  view.calm =>
  /\ view.form.component = None \/ Asks("formTargets", view.form.component, calls)
  /\ OwnHosts(view.form.component, view.form.hosts)
  /\ \A a : Flying("createRun", a, calls) \/ Flying("preview", a, calls) =>
       OwnHosts(a.component, a.hosts)

PlanOfForm == view.calm => view.preview \in {None, D!Plan(D!buildBody)}

RunsPageInv ==
  page = "Runs" /\ RunsShape /\ RunsBusy /\ FormHosts /\ PlanOfForm

(* One run *)

RunShape ==
  /\ AreCalls(calls) /\ DOMAIN view = {"run", "es", "calm"}
  /\ view.run \in {"running", "ended", None} /\ world \in {"running", "ended"}
  /\ view.es \in {"none", "open", "done", "lost"} /\ view.calm \in BOOLEAN
  /\ \A a : Flying("run", a, calls) \/ Flying("firstRun", a, calls) =>
             a \in {"running", "ended"}

\* The mount is one call after the other; only then is there a stream.
MountInTurn ==
  /\ Lone({"firstRun", "history"}, calls)
  /\ view.es # "none" => ~InFlight({"firstRun"}) /\ ~InFlight({"history"})

\* Whatever is asked for after the end of the stream is answered with the end.
EndIsTold ==
  view.es = "done" =>
  /\ world = "ended"
  /\ view.calm => /\ Asks("run", "ended", calls)
                  /\ view.run = "ended" \/ Latest("run", calls)

RunPageInv == page = "RunDetail" /\ RunShape /\ MountInTurn /\ EndIsTold

DeploymentInv ==
  /\ page = "Components" => TableInv
  /\ page = "Global" => CardsInv
  /\ page = "Runs" => RunsPageInv
  /\ page = "RunDetail" => RunPageInv

-----------------------------------------------------------------------------
(* The dialogs shown, and the calls for one operation in their order *)

LEMMA FrontIn ==
  ASSUME NEW S, NEW s \in Seq(S), s # <<>>
  PROVE  /\ SubSeq(s, 1, Len(s) - 1) \in Seq(S)
         /\ Range(SubSeq(s, 1, Len(s) - 1)) \subseteq Range(s)
<1> DEFINE f == SubSeq(s, 1, Len(s) - 1)
<1>1. Len(s) \in Nat /\ Len(s) # 0 /\ DOMAIN s = 1..Len(s)
  OBVIOUS
<1>2. f = [k \in 1..(Len(s) - 1) |-> s[k]]
  BY <1>1
<1>3. \A k \in 1..(Len(s) - 1) : k \in 1..Len(s)
  BY <1>1
<1>4. Len(s) - 1 \in Nat /\ \A k \in 1..(Len(s) - 1) : s[k] \in S
  BY <1>1, <1>3
<1> HIDE DEF f
<1>5. f \in Seq(S)
  <2>1. f \in [1..(Len(s) - 1) -> S]
    BY <1>2, <1>4
  <2> QED
    BY <1>4, <2>1
<1>6. Range(f) \subseteq Range(s)
  BY <1>1, <1>2, <1>3 DEF Range
<1> QED
  BY <1>5, <1>6 DEF f

LEMMA RangeWithout ==
  ASSUME NEW S, NEW s \in Seq(S), NEW i \in DOMAIN s
  PROVE  Range(Without(s, i)) \subseteq Range(s)
<1>1. i \in 1..Len(s) /\ Len(s) \in Nat /\ DOMAIN s = 1..Len(s)
  OBVIOUS
<1>2. \A j \in 1..(Len(s) - 1) : (IF j < i THEN j ELSE j + 1) \in 1..Len(s)
  BY <1>1
<1> QED
  BY <1>1, <1>2 DEF Without, Range

LEMMA DialogsOpened ==
  ASSUME view.open \in Seq(DialogNames), NEW d \in DialogNames
  PROVE  /\ D!Opened(d) \in Seq(DialogNames)
         /\ Range(D!Opened(d)) = Range(view.open) \cup {d}
<1>1. CASE d \in Range(view.open)
  BY <1>1, DeploymentConsole DEF D!Opened
<1>2. CASE d \notin Range(view.open)
  BY <1>2, RangeAppended, DeploymentConsole DEF D!Opened
<1> QED
  BY <1>1, <1>2

LEMMA DialogsClosed ==
  ASSUME view.open \in Seq(DialogNames), NEW d
  PROVE  /\ D!Closed(d) \in Seq(DialogNames)
         /\ Range(D!Closed(d)) \subseteq Range(view.open)
<1>1. CASE d \in Range(view.open)
  <2>1. \E k \in DOMAIN view.open : view.open[k] = d
    BY <1>1 DEF Range
  <2>2. PICK k \in DOMAIN view.open : k = CHOOSE j \in DOMAIN view.open : view.open[j] = d
    BY <2>1
  <2>3. D!Closed(d) = Without(view.open, k)
    BY <1>1, <2>2, DeploymentConsole DEF D!Closed
  <2> QED
    BY <2>3, RangeWithout, WithoutIn
<1>2. CASE d \notin Range(view.open)
  BY <1>2, DeploymentConsole DEF D!Closed
<1> QED
  BY <1>1, <1>2

\* The switches' calls of ds are those of cs, one for one and in the same order.
SwitchesAlike(cs, ds) ==
  \E old :
    /\ \A k \in Switches(ds) : old[k] \in Switches(cs) /\ cs[old[k]].arg = ds[k].arg
    /\ \A j, k \in Switches(ds) : j < k <=> old[j] < old[k]
    /\ \A j \in Switches(cs) : \E k \in Switches(ds) : old[k] = j

LEMMA ChainAlike ==
  ASSUME NEW cs, NEW ds, SwitchesAlike(cs, ds), NEW first, NEW last,
         SwitchChain(cs, first, last)
  PROVE  SwitchChain(ds, first, last)
<1>1. PICK old :
        /\ \A k \in Switches(ds) : old[k] \in Switches(cs) /\ cs[old[k]].arg = ds[k].arg
        /\ \A j, k \in Switches(ds) : j < k <=> old[j] < old[k]
        /\ \A j \in Switches(cs) : \E k \in Switches(ds) : old[k] = j
  BY DEF SwitchesAlike
<1>2. Switches(ds) = {} => first = last
  <2>1. Switches(ds) = {} => Switches(cs) = {}
    BY <1>1
  <2> QED
    BY <2>1 DEF SwitchChain
<1>3. ASSUME NEW k \in Switches(ds)
      PROVE  /\ (\A j \in Switches(ds) : ~(j < k)) =>
                   ds[k].arg.names = D!Flip(first, ds[k].arg.row)
             /\ (\A j \in Switches(ds) : ~(k < j)) => ds[k].arg.names = last
             /\ \A j \in Switches(ds) :
                  j < k /\ (\A m \in Switches(ds) : ~(j < m /\ m < k)) =>
                    ds[k].arg.names = D!Flip(ds[j].arg.names, ds[k].arg.row)
  <2>1. old[k] \in Switches(cs) /\ cs[old[k]].arg = ds[k].arg
    BY <1>1
  <2>2. (\A j \in Switches(ds) : ~(j < k)) => \A j \in Switches(cs) : ~(j < old[k])
    BY <1>1
  <2>3. (\A j \in Switches(ds) : ~(k < j)) => \A j \in Switches(cs) : ~(old[k] < j)
    BY <1>1
  <2>4. ASSUME NEW j \in Switches(ds), j < k, \A m \in Switches(ds) : ~(j < m /\ m < k)
        PROVE  ds[k].arg.names = D!Flip(ds[j].arg.names, ds[k].arg.row)
    <3>1. \A m \in Switches(cs) : ~(old[j] < m /\ m < old[k])
      BY <1>1, <2>4
    <3>2. old[j] \in Switches(cs) /\ old[j] < old[k] /\ cs[old[j]].arg = ds[j].arg
      BY <1>1, <2>4
    <3>3. cs[old[k]].arg.names = D!Flip(cs[old[j]].arg.names, cs[old[k]].arg.row)
      BY <2>1, <3>1, <3>2 DEF SwitchChain
    <3> QED
      BY <2>1, <3>2, <3>3
  <2>5. /\ (\A j \in Switches(cs) : ~(j < old[k])) =>
              cs[old[k]].arg.names = D!Flip(first, cs[old[k]].arg.row)
        /\ (\A j \in Switches(cs) : ~(old[k] < j)) => cs[old[k]].arg.names = last
    BY <2>1 DEF SwitchChain
  <2> QED
    BY <2>1, <2>2, <2>3, <2>4, <2>5
<1> QED
  BY <1>2, <1>3 DEF SwitchChain

LEMMA SentSwitches ==
  ASSUME AreCalls(calls), NEW op, NEW arg, Send(<<Call(op, arg)>>)
  PROVE  /\ Len(calls) \in Nat /\ DOMAIN calls = 1..Len(calls)
         /\ DOMAIN calls' = 1..(Len(calls) + 1)
         /\ \A k \in DOMAIN calls : calls'[k].op = calls[k].op /\ calls'[k].arg = calls[k].arg
         /\ calls'[Len(calls) + 1].op = op /\ calls'[Len(calls) + 1].arg = arg
<1> DEFINE new == <<Call(op, arg)>>
<1>1. AreCalls(new) /\ DOMAIN new = {1} /\ new[1].op = op /\ new[1].arg = arg
  BY OneCall DEF Call
<1>2. calls' = Sent(calls, new)
  BY DEF Send
<1> HIDE DEF new
<1>3. \A s : AreCalls(s) => Len(s) \in Nat /\ DOMAIN s = 1..Len(s)
  BY DEF AreCalls
<1>4. Len(new) = 1
  BY <1>1, <1>3
<1>5. /\ AreCalls(calls') /\ Len(calls') = Len(calls) + Len(new)
      /\ \A k \in DOMAIN calls : calls'[k].op = calls[k].op /\ calls'[k].arg = calls[k].arg
      /\ \A k \in DOMAIN new : calls'[Len(calls) + k] = new[k]
  BY <1>1, <1>2, SentCalls
<1>6. calls'[Len(calls) + 1] = new[1] /\ Len(calls') = Len(calls) + 1
  BY <1>1, <1>4, <1>5
<1> QED
  BY <1>1, <1>3, <1>5, <1>6

LEMMA SwitchesSentBeside ==
  ASSUME AreCalls(calls), NEW op, NEW arg, Send(<<Call(op, arg)>>), op # "enable"
  PROVE  SwitchesAlike(calls, calls')
<1>1. /\ Len(calls) \in Nat /\ DOMAIN calls = 1..Len(calls)
      /\ DOMAIN calls' = 1..(Len(calls) + 1)
      /\ \A k \in DOMAIN calls : calls'[k].op = calls[k].op /\ calls'[k].arg = calls[k].arg
      /\ calls'[Len(calls) + 1].op = op
  BY SentSwitches
<1>2. \A k \in DOMAIN calls' : k \in DOMAIN calls \/ k = Len(calls) + 1
  BY <1>1
<1>3. \A k \in DOMAIN calls : k \in DOMAIN calls'
  BY <1>1
<1>4. Switches(calls') = Switches(calls)
  BY <1>1, <1>2, <1>3 DEF Switches
<1> DEFINE old == [k \in DOMAIN calls |-> k]
<1>5. \A k \in Switches(calls) : k \in DOMAIN calls /\ old[k] = k
  BY DEF Switches
<1>6. \A k \in Switches(calls') : old[k] \in Switches(calls) /\ calls[old[k]].arg = calls'[k].arg
  BY <1>1, <1>4, <1>5
<1> HIDE DEF old
<1>7. \A j, k \in Switches(calls') : j < k <=> old[j] < old[k]
  BY <1>4, <1>5
<1>8. \A j \in Switches(calls) : \E k \in Switches(calls') : old[k] = j
  BY <1>4, <1>5
<1> QED
  BY <1>6, <1>7, <1>8 DEF SwitchesAlike

\* The calls left after an answer, each with the place it had before.
LEMMA AnsweredPlaces ==
  ASSUME AreCalls(calls), NEW i \in DOMAIN calls, Reply(i, <<>>)
  PROVE  \E old :
           /\ Len(calls) \in Nat /\ DOMAIN calls = 1..Len(calls)
           /\ DOMAIN calls' = 1..(Len(calls) - 1)
           /\ \A k \in DOMAIN calls' :
                /\ old[k] \in DOMAIN calls /\ old[k] # i
                /\ calls'[k].op = calls[old[k]].op /\ calls'[k].arg = calls[old[k]].arg
           /\ \A j, k \in DOMAIN calls' : j < k <=> old[j] < old[k]
           /\ \A j \in DOMAIN calls : j # i => \E k \in DOMAIN calls' : old[k] = j
<1> DEFINE rest == Without(calls, i)
           old == [k \in 1..(Len(calls) - 1) |-> IF k < i THEN k ELSE k + 1]
<1>1. \A s : AreCalls(s) => Len(s) \in Nat /\ DOMAIN s = 1..Len(s)
  BY DEF AreCalls
<1>2. Len(calls) \in Nat /\ DOMAIN calls = 1..Len(calls) /\ i \in 1..Len(calls)
  BY <1>1
<1>3. /\ DOMAIN rest = 1..(Len(calls) - 1)
      /\ \A k \in 1..(Len(calls) - 1) : rest[k] = calls[old[k]]
  BY <1>2 DEF Without
<1>4. AreCalls(<<>>) /\ DOMAIN <<>> = {} /\ Len(<<>>) = 0
  BY NoCall
<1>5. calls' = Sent(rest, <<>>) /\ AreCalls(rest)
  BY Answered DEF Reply
<1>6. \A k \in 1..(Len(calls) - 1) :
        old[k] \in 1..Len(calls) /\ old[k] # i /\ (k < i => old[k] = k) /\ (~(k < i) => old[k] = k + 1)
  BY <1>2
<1> HIDE DEF rest, old
<1>7. /\ AreCalls(calls') /\ Len(calls') = Len(rest) + 0
      /\ \A k \in DOMAIN rest : calls'[k].op = rest[k].op /\ calls'[k].arg = rest[k].arg
  BY <1>4, <1>5, SentCalls
<1>8. DOMAIN calls' = 1..(Len(calls) - 1)
  <2>1. Len(rest) \in Nat /\ 1..Len(rest) = 1..(Len(calls) - 1)
    BY <1>1, <1>3, <1>5
  <2> QED
    BY <1>1, <1>7, <2>1
<1>9. \A k \in DOMAIN calls' :
        /\ old[k] \in DOMAIN calls /\ old[k] # i
        /\ calls'[k].op = calls[old[k]].op /\ calls'[k].arg = calls[old[k]].arg
  BY <1>2, <1>3, <1>6, <1>7, <1>8
<1>10. \A j, k \in DOMAIN calls' : j < k <=> old[j] < old[k]
  BY <1>2, <1>6, <1>8
<1>11. \A j \in DOMAIN calls : j # i => \E k \in DOMAIN calls' : old[k] = j
  <2> SUFFICES ASSUME NEW j \in 1..Len(calls), j # i
               PROVE  \E k \in 1..(Len(calls) - 1) : old[k] = j
    BY <1>2, <1>8
  <2>1. CASE j < i
    <3>1. j \in 1..(Len(calls) - 1)
      BY <1>2, <2>1
    <3> QED
      BY <1>6, <2>1, <3>1
  <2>2. CASE ~(j < i)
    <3>1. j - 1 \in 1..(Len(calls) - 1) /\ ~(j - 1 < i) /\ (j - 1) + 1 = j
      BY <1>2, <2>2
    <3> QED
      BY <1>6, <3>1
  <2> QED
    BY <2>1, <2>2
<1> QED
  BY <1>2, <1>8, <1>9, <1>10, <1>11

LEMMA SwitchesAnsweredBeside ==
  ASSUME AreCalls(calls), NEW i \in DOMAIN calls, Reply(i, <<>>), calls[i].op # "enable"
  PROVE  SwitchesAlike(calls, calls')
<1>1. PICK old :
        /\ \A k \in DOMAIN calls' :
             /\ old[k] \in DOMAIN calls /\ old[k] # i
             /\ calls'[k].op = calls[old[k]].op /\ calls'[k].arg = calls[old[k]].arg
        /\ \A j, k \in DOMAIN calls' : j < k <=> old[j] < old[k]
        /\ \A j \in DOMAIN calls : j # i => \E k \in DOMAIN calls' : old[k] = j
  BY AnsweredPlaces
<1>2. \A k \in Switches(calls') : old[k] \in Switches(calls) /\ calls[old[k]].arg = calls'[k].arg
  BY <1>1 DEF Switches
<1>3. \A j, k \in Switches(calls') : j < k <=> old[j] < old[k]
  BY <1>1 DEF Switches
<1>4. \A j \in Switches(calls) : \E k \in Switches(calls') : old[k] = j
  BY <1>1 DEF Switches
<1> QED
  BY <1>2, <1>3, <1>4 DEF SwitchesAlike

-----------------------------------------------------------------------------
(* What the handlers of the table leave alone *)

LEMMA ComponentsSend ==
  ASSUME ComponentsCalls, Lone({"components"}, calls),
         NEW op, NEW arg, Send(<<Call(op, arg)>>), op # "components",
         op \in {"targets", "tasks"} => arg \in Components,
         op = "override" => arg \in OverrideArgs, op = "enable" => arg \in SwitchArgs
  PROVE  /\ ComponentsCalls' /\ Lone({"components"}, calls')
         /\ \A o : o # op => LeftAlone(o)
         /\ Asks(op, arg, calls') /\ Flying(op, arg, calls')
         /\ \A a : Flying(op, a, calls') => Flying(op, a, calls) \/ a = arg
         /\ op # "enable" => SwitchesAlike(calls, calls')
<1>1. AreCalls(calls)
  BY DEF ComponentsCalls
<1>2. /\ AreCalls(calls')
      /\ \A o, a : Flying(o, a, calls') <=> Flying(o, a, calls) \/ (o = op /\ a = arg)
  BY <1>1, SendOne
<1>3. ComponentsCalls'
  BY <1>2 DEF ComponentsCalls
<1>4. Lone({"components"}, calls')
  BY <1>1, LoneSend
<1>5. \A o : o # op => LeftAlone(o)
  BY <1>1, SendLeaves
<1>6. Asks(op, arg, calls')
  BY <1>1, SendAsks
<1>7. op # "enable" => SwitchesAlike(calls, calls')
  BY <1>1, SwitchesSentBeside
<1> QED
  BY <1>2, <1>3, <1>4, <1>5, <1>6, <1>7

LEMMA ComponentsAnswer ==
  ASSUME ComponentsCalls, Lone({"components"}, calls), NEW i \in DOMAIN calls, Reply(i, <<>>)
  PROVE  /\ ComponentsCalls' /\ Lone({"components"}, calls')
         /\ \A o : o # calls[i].op => LeftAlone(o)
         /\ \A o, a : Flying(o, a, calls') => Flying(o, a, calls)
         /\ \A o, a : Asks(o, a, calls) => Asks(o, a, calls')
         /\ calls[i].op # "enable" => SwitchesAlike(calls, calls')
<1>1. AreCalls(calls)
  BY DEF ComponentsCalls
<1>2. AreCalls(calls') /\ \A o, a : Flying(o, a, calls') => Flying(o, a, calls)
  BY <1>1, ReplyNone
<1>3. ComponentsCalls'
  BY <1>2 DEF ComponentsCalls
<1>4. Lone({"components"}, calls')
  BY <1>1, LoneReplyNone
<1>5. \A o : o # calls[i].op => LeftAlone(o)
  BY <1>1, ReplyNoneLeaves
<1>6. \A o, a : Asks(o, a, calls) => Asks(o, a, calls')
  BY <1>1, ReplyAsksNone
<1>7. calls[i].op # "enable" => SwitchesAlike(calls, calls')
  BY <1>1, SwitchesAnsweredBeside
<1> QED
  BY <1>2, <1>3, <1>4, <1>5, <1>6, <1>7

LEMMA HostsKept ==
  ASSUME HostsOfRow, LeftAlone("targets"), LeftAlone("putTargets"),
         view'.hosts.of = view.hosts.of, view'.hosts.sel = view.hosts.sel,
         view'.hostIds = view.hostIds, view'.calm => view.calm,
         "hosts" \in Range(view'.open) => "hosts" \in Range(view.open)
  PROVE  HostsOfRow'
<1>1. InFlight({"putTargets"})' => InFlight({"putTargets"})
  BY FlightFlies DEF LeftAlone
<1> QED
  BY <1>1 DEF HostsOfRow, LeftAlone

LEMMA ParamsKept ==
  ASSUME ParamsOfPipe, LeftAlone("override"), LeftAlone("putOverride"),
         view'.params.pipe = view.params.pipe, view'.params.rows = view.params.rows,
         view'.calm => view.calm
  PROVE  ParamsOfPipe'
<1>1. InFlight({"override"})' <=> InFlight({"override"})
  BY FlightFlies DEF LeftAlone
<1> QED
  BY <1>1 DEF ParamsOfPipe, LeftAlone

LEMMA SwitchesKept ==
  ASSUME SwitchesInTurn, Lone({"components"}, calls'), LeftAlone("components"),
         LeftAlone("enable"), SwitchesAlike(calls, calls'),
         view'.listed = view.listed, view'.enabled = view.enabled, world' = world,
         view'.calm => view.calm
  PROVE  SwitchesInTurn'
<1>1. /\ InFlight({"components"})' <=> InFlight({"components"})
      /\ InFlight({"enable"})' <=> InFlight({"enable"})
  BY FlightFlies DEF LeftAlone
<1>2. view.listed /\ view.calm => SwitchChain(calls', world, view.enabled)
  BY ChainAlike DEF SwitchesInTurn
<1> QED
  BY <1>1, <1>2 DEF SwitchesInTurn

LEMMA SpinnersKept ==
  ASSUME ComponentsBusy,
         view'.loading => \/ view.loading /\ LeftAlone("components")
                          \/ \E a : Flying("components", a, calls'),
         view'.hosts.saving => \/ view.hosts.saving /\ LeftAlone("putTargets")
                               \/ \E a : Flying("putTargets", a, calls'),
         view'.params.saving => \/ view.params.saving /\ LeftAlone("putOverride")
                                \/ \E a : Flying("putOverride", a, calls'),
         view'.tasks.loading => \/ view.tasks.loading /\ LeftAlone("tasks")
                                \/ \E a : Flying("tasks", a, calls')
  PROVE  ComponentsBusy'
<1>1. ASSUME NEW op, LeftAlone(op) PROVE InFlight({op}) => InFlight({op})'
  BY <1>1, FlightFlies DEF LeftAlone
<1> QED
  BY <1>1, FlightFlies DEF ComponentsBusy

-----------------------------------------------------------------------------
(* The handlers of the table *)

LEMMA ComponentsMounted ==
  ASSUME D!DeploymentConstants, NEW enabled \in SUBSET Components, D!load(enabled)
  PROVE  TableInv'
<1>1. Mount("Components", view', enabled, <<Call("components", None)>>)
  BY DeploymentConsole DEF D!load, Mount, D!Mount
<1>2. /\ AreCalls(calls') /\ Flying("components", None, calls')
      /\ \A o, a : Flying(o, a, calls') <=> o = "components" /\ a = None
  BY <1>1, MountOne
<1>3. /\ \A ops : Lone(ops, calls')
      /\ \A o, a : o # "components" \/ a = None => Asks(o, a, calls')
  BY <1>1, MountLone
<1>4. page' = "Components" /\ world' = enabled
  BY <1>1 DEF Mount
<1>5. view' = [loading |-> TRUE, listed |-> FALSE, enabled |-> {}, open |-> <<>>,
           hosts |-> [of |-> None, sel |-> None, saving |-> FALSE],
           hostIds |-> [c \in Components |-> c],
           params |-> [pipes |-> <<>>, pipe |-> None, rows |-> None, saving |-> FALSE],
           tasks |-> [of |-> None, items |-> None, loading |-> FALSE],
           calm |-> TRUE]
  BY DEF D!load, D!Mount
<1>6. ComponentsShape'
  BY <1>4, <1>5 DEF ComponentsShape
<1>7. ComponentsCalls'
  BY <1>2 DEF ComponentsCalls
<1>8. ComponentsBusy'
  BY <1>2, <1>5, FlightFlies DEF ComponentsBusy
<1>9. HostsOfRow'
  <2>1. Range(view'.open) = {}
    BY <1>5 DEF Range
  <2>2. ~InFlight({"putTargets"})'
    BY <1>2, FlightFlies
  <2>3. \A c \in Components : view'.hostIds[c] = c
    BY <1>5
  <2>4. Asks("targets", view'.hosts.of, calls')
    BY <1>3
  <2> QED
    BY <1>2, <2>1, <2>2, <2>3, <2>4 DEF HostsOfRow
<1>10. ParamsOfPipe'
  <2>1. Asks("override", [of |-> view'.params.pipe, opens |-> TRUE], calls')
    BY <1>3
  <2>2. view'.params.rows = None
    BY <1>5
  <2>3. \A a : ~Flying("putOverride", a, calls')
    BY <1>2
  <2> QED
    BY <2>1, <2>2, <2>3 DEF ParamsOfPipe
<1>11. SwitchesInTurn'
  <2>1. ~InFlight({"enable"})'
    BY <1>2, FlightFlies
  <2>2. view'.listed = FALSE
    BY <1>5
  <2> QED
    BY <1>3, <2>1, <2>2 DEF SwitchesInTurn
<1> QED
  BY <1>4, <1>6, <1>7, <1>8, <1>9, <1>10, <1>11 DEF TableInv

\* No call for a switch is in flight: the chain of them is empty.
LEMMA ChainEmpty ==
  ASSUME ~InFlight({"enable"})', NEW x PROVE SwitchChain(calls', x, x)
<1>1. Switches(calls') = {}
  BY DEF Switches, InFlight
<1> QED
  BY <1>1 DEF SwitchChain

LEMMA ComponentsListed ==
  ASSUME D!DeploymentConstants, TableInv, NEW i \in DOMAIN calls, NEW ok \in BOOLEAN,
         D!ComponentsArrive(i, ok)
  PROVE  TableInv'
<1> DEFINE e == IF ok THEN world ELSE view.enabled
<1>1. /\ calls[i].op = "components" /\ Reply(i, <<>>) /\ UNCHANGED <<page, world>>
      /\ view' = [view EXCEPT !.loading = FALSE, !.listed = ok, !.enabled = e]
  BY DeploymentConsole DEF D!ComponentsArrive, D!Answer
<1>2. e \subseteq Components /\ (ok => e = world)
  BY DEF TableInv, ComponentsShape
<1> HIDE DEF e
<1>3. /\ ComponentsCalls' /\ Lone({"components"}, calls')
      /\ \A o : o # "components" => LeftAlone(o)
  BY <1>1, ComponentsAnswer DEF TableInv, SwitchesInTurn
<1>4. /\ DOMAIN view' = DOMAIN view
      /\ view'.loading = FALSE /\ view'.listed = ok /\ view'.enabled = e
      /\ view'.open = view.open /\ view'.hosts = view.hosts /\ view'.hostIds = view.hostIds
      /\ view'.params = view.params /\ view'.tasks = view.tasks /\ view'.calm = view.calm
  BY <1>1 DEF TableInv, ComponentsShape
<1>5. ComponentsShape'
  BY <1>1, <1>2, <1>4 DEF TableInv, ComponentsShape
<1>6. ComponentsBusy'
  BY <1>3, <1>4, SpinnersKept DEF TableInv
<1>7. HostsOfRow' /\ ParamsOfPipe'
  BY <1>3, <1>4, HostsKept, ParamsKept DEF TableInv
<1>8. SwitchesInTurn'
  <2>1. InFlight({"components"})
    BY <1>1 DEF InFlight
  <2>2. ~InFlight({"enable"})
    BY <2>1 DEF TableInv, SwitchesInTurn
  <2>3. ~InFlight({"components"})'
    BY <1>1, LoneReplyNone DEF TableInv, SwitchesInTurn, ComponentsCalls
  <2>4. ~InFlight({"enable"})'
    BY <1>3, <2>2, FlightFlies DEF LeftAlone
  <2>5. SwitchChain(calls', world, world)
    BY <2>4, ChainEmpty
  <2>6. view'.listed => view'.enabled = world /\ world' = world
    BY <1>1, <1>2, <1>4
  <2> QED
    BY <1>3, <2>3, <2>4, <2>5, <2>6 DEF SwitchesInTurn
<1> QED
  BY <1>1, <1>3, <1>5, <1>6, <1>7, <1>8 DEF TableInv

LEMMA DialogClosedByUser ==
  ASSUME TableInv, D!CloseTop PROVE TableInv'
<1> DEFINE o == SubSeq(view.open, 1, Len(view.open) - 1)
<1>1. /\ UNCHANGED <<page, calls, world>> /\ view.open # <<>>
      /\ view' = [view EXCEPT !.open = o]
  BY DEF D!CloseTop, D!User
<1>2. o \in Seq(DialogNames) /\ Range(o) \subseteq Range(view.open)
  BY <1>1, FrontIn DEF TableInv, ComponentsShape
<1> HIDE DEF o
<1>3. /\ DOMAIN view' = DOMAIN view
      /\ view'.loading = view.loading /\ view'.listed = view.listed
      /\ view'.enabled = view.enabled /\ view'.open = o /\ view'.hosts = view.hosts
      /\ view'.hostIds = view.hostIds /\ view'.params = view.params
      /\ view'.tasks = view.tasks /\ view'.calm = view.calm
  BY <1>1 DEF TableInv, ComponentsShape
<1>4. \A op : LeftAlone(op)
  BY <1>1, AllLeft
<1>5. ComponentsShape'
  BY <1>1, <1>2, <1>3 DEF TableInv, ComponentsShape
<1>6. ComponentsBusy'
  BY <1>3, <1>4, SpinnersKept DEF TableInv
<1>7. HostsOfRow' /\ ParamsOfPipe'
  BY <1>2, <1>3, <1>4, HostsKept, ParamsKept DEF TableInv
<1>8. SwitchesInTurn' /\ ComponentsCalls'
  BY <1>1, <1>3 DEF TableInv, SwitchesInTurn, ComponentsCalls, InFlight
<1> QED
  BY <1>1, <1>5, <1>6, <1>7, <1>8 DEF TableInv

(* The dialog of the hosts *)

LEMMA HostsOpened ==
  ASSUME D!DeploymentConstants, TableInv, NEW c \in Components, D!openHosts(c)
  PROVE  TableInv'
<1>1. /\ UNCHANGED <<page, world>> /\ view.open = <<>>
      /\ view' = [view EXCEPT !.hosts.of = c] /\ Send(<<Call("targets", c)>>)
  BY DeploymentConsole DEF D!openHosts, D!User, D!Table
<1>2. /\ ComponentsCalls' /\ Lone({"components"}, calls') /\ Asks("targets", c, calls')
      /\ \A o : o # "targets" => LeftAlone(o)
      /\ SwitchesAlike(calls, calls')
  BY <1>1, ComponentsSend DEF TableInv, SwitchesInTurn
<1>3. /\ DOMAIN view' = DOMAIN view
      /\ view'.loading = view.loading /\ view'.listed = view.listed
      /\ view'.enabled = view.enabled /\ view'.open = view.open
      /\ view'.hosts = [view.hosts EXCEPT !.of = c]
      /\ view'.hostIds = view.hostIds /\ view'.params = view.params
      /\ view'.tasks = view.tasks /\ view'.calm = view.calm
  BY <1>1 DEF TableInv, ComponentsShape
<1>4. /\ view'.hosts \in [of : Components \cup {None}, sel : Components \cup {None},
                          saving : BOOLEAN]
      /\ view'.hosts.of = c /\ view'.hosts.sel = view.hosts.sel
      /\ view'.hosts.saving = view.hosts.saving
  BY <1>3 DEF TableInv, ComponentsShape
<1>5. ComponentsShape'
  BY <1>1, <1>3, <1>4 DEF TableInv, ComponentsShape
<1>6. ComponentsBusy'
  BY <1>2, <1>3, <1>4, SpinnersKept DEF TableInv
<1>7. HostsOfRow'
  <2>1. "hosts" \notin Range(view'.open)
    BY <1>1, <1>3 DEF Range
  <2>2. InFlight({"putTargets"})' => view'.hosts.sel \in Components
    BY <1>2, <1>4, FlightFlies DEF TableInv, HostsOfRow, LeftAlone
  <2> QED
    BY <1>2, <1>3, <1>4, <2>1, <2>2 DEF TableInv, HostsOfRow, LeftAlone
<1>8. ParamsOfPipe' /\ SwitchesInTurn'
  BY <1>1, <1>2, <1>3, ParamsKept, SwitchesKept DEF TableInv
<1> QED
  BY <1>1, <1>2, <1>5, <1>6, <1>7, <1>8 DEF TableInv

LEMMA HostsShown ==
  ASSUME TableInv, NEW i \in DOMAIN calls, NEW ok \in BOOLEAN, D!TargetsArrive(i, ok)
  PROVE  TableInv'
<1> DEFINE c == calls[i].arg
           s == IF ok THEN c ELSE view.hostIds[c]
           o == D!Opened("hosts")
           b == view.calm /\ calls[i].last
<1>1. /\ calls[i].op = "targets" /\ Reply(i, <<>>) /\ UNCHANGED <<page, world>>
      /\ view' = [view EXCEPT !.hosts.sel = s, !.open = o, !.calm = b]
  BY DeploymentConsole DEF D!TargetsArrive, D!Answer
<1>2. c \in Components
  <2>1. Flying("targets", c, calls)
    BY <1>1 DEF Flying
  <2> QED
    BY <2>1 DEF TableInv, ComponentsCalls
<1>3. s \in Components /\ s \in {c, view.hostIds[c]}
  BY <1>2 DEF TableInv, ComponentsShape
<1>4. o \in Seq(DialogNames) /\ Range(o) = Range(view.open) \cup {"hosts"}
  BY DialogsOpened DEF TableInv, ComponentsShape, DialogNames
<1>5. b \in BOOLEAN /\ (b => view.calm /\ calls[i].last)
  BY DEF TableInv, ComponentsShape
<1> HIDE DEF s, o, b
<1>6. /\ ComponentsCalls' /\ Lone({"components"}, calls')
      /\ \A op : op # "targets" => LeftAlone(op)
      /\ \A op, a : Asks(op, a, calls) => Asks(op, a, calls')
      /\ SwitchesAlike(calls, calls')
  BY <1>1, ComponentsAnswer DEF TableInv, SwitchesInTurn
<1>7. /\ DOMAIN view' = DOMAIN view
      /\ view'.loading = view.loading /\ view'.listed = view.listed
      /\ view'.enabled = view.enabled /\ view'.open = o
      /\ view'.hosts = [view.hosts EXCEPT !.sel = s]
      /\ view'.hostIds = view.hostIds /\ view'.params = view.params
      /\ view'.tasks = view.tasks /\ view'.calm = b
  BY <1>1 DEF TableInv, ComponentsShape
<1>8. /\ view'.hosts \in [of : Components \cup {None}, sel : Components \cup {None},
                          saving : BOOLEAN]
      /\ view'.hosts.of = view.hosts.of /\ view'.hosts.sel = s
      /\ view'.hosts.saving = view.hosts.saving
  BY <1>3, <1>7 DEF TableInv, ComponentsShape
<1>9. ComponentsShape'
  BY <1>1, <1>4, <1>5, <1>7, <1>8 DEF TableInv, ComponentsShape
<1>10. ComponentsBusy'
  BY <1>6, <1>7, <1>8, SpinnersKept DEF TableInv
<1>11. HostsOfRow'
  <2>1. ASSUME view'.calm
        PROVE  /\ Asks("targets", view'.hosts.of, calls') /\ view'.hosts.sel = view'.hosts.of
               /\ \A d \in Components : view'.hostIds[d] = d
               /\ \A a : Flying("putTargets", a, calls') => a.of = a.hosts
    <3>1. view.calm /\ calls[i].last
      BY <1>5, <1>7, <2>1
    <3>2. /\ Asks("targets", view.hosts.of, calls) /\ \A d \in Components : view.hostIds[d] = d
          /\ \A a : Flying("putTargets", a, calls) => a.of = a.hosts
      BY <3>1 DEF TableInv, HostsOfRow
    <3>3. c = view.hosts.of
      BY <1>1, <3>1, <3>2, AsksAlike
    <3>4. s = view.hosts.of
      BY <1>2, <1>3, <3>2, <3>3
    <3> QED
      BY <1>6, <1>7, <1>8, <3>2, <3>4 DEF LeftAlone
  <2> QED
    BY <1>3, <1>8, <2>1 DEF HostsOfRow
<1>12. ParamsOfPipe' /\ SwitchesInTurn'
  BY <1>1, <1>5, <1>6, <1>7, ParamsKept, SwitchesKept DEF TableInv
<1> QED
  BY <1>1, <1>6, <1>9, <1>10, <1>11, <1>12 DEF TableInv

LEMMA HostsSent ==
  ASSUME TableInv, D!saveHosts PROVE TableInv'
<1> DEFINE h == [of |-> view.hosts.of, hosts |-> view.hosts.sel]
<1>1. /\ UNCHANGED <<page, world>> /\ "hosts" \in Range(view.open)
      /\ view' = [view EXCEPT !.hosts.saving = TRUE] /\ Send(<<Call("putTargets", h)>>)
  <2>1. "hosts" \in Range(view.open)
    <3>1. view.open # <<>> /\ view.open[Len(view.open)] = "hosts"
      BY DEF D!saveHosts, D!Shown
    <3>2. Len(view.open) \in DOMAIN view.open
      BY <3>1 DEF TableInv, ComponentsShape
    <3> QED
      BY <3>1, <3>2 DEF Range
  <2> QED
    BY <2>1, DeploymentConsole DEF D!saveHosts, D!User
<1>2. h.of = view.hosts.of /\ h.hosts = view.hosts.sel
  OBVIOUS
<1> HIDE DEF h
<1>3. /\ ComponentsCalls' /\ Lone({"components"}, calls') /\ Flying("putTargets", h, calls')
      /\ \A o : o # "putTargets" => LeftAlone(o)
      /\ \A a : Flying("putTargets", a, calls') => Flying("putTargets", a, calls) \/ a = h
      /\ SwitchesAlike(calls, calls')
  BY <1>1, ComponentsSend DEF TableInv, SwitchesInTurn
<1>4. /\ DOMAIN view' = DOMAIN view
      /\ view'.loading = view.loading /\ view'.listed = view.listed
      /\ view'.enabled = view.enabled /\ view'.open = view.open
      /\ view'.hosts = [view.hosts EXCEPT !.saving = TRUE]
      /\ view'.hostIds = view.hostIds /\ view'.params = view.params
      /\ view'.tasks = view.tasks /\ view'.calm = view.calm
  BY <1>1 DEF TableInv, ComponentsShape
<1>5. /\ view'.hosts \in [of : Components \cup {None}, sel : Components \cup {None},
                          saving : BOOLEAN]
      /\ view'.hosts.of = view.hosts.of /\ view'.hosts.sel = view.hosts.sel
  BY <1>4 DEF TableInv, ComponentsShape
<1>6. ComponentsShape'
  BY <1>1, <1>4, <1>5 DEF TableInv, ComponentsShape
<1>7. ComponentsBusy'
  BY <1>3, <1>4, SpinnersKept DEF TableInv
<1>8. HostsOfRow'
  <2>1. view'.hosts.sel \in Components
    BY <1>1, <1>5 DEF TableInv, HostsOfRow
  <2>2. ASSUME view.calm
        PROVE  /\ Asks("targets", view'.hosts.of, calls') /\ view'.hosts.sel = view'.hosts.of
               /\ \A d \in Components : view'.hostIds[d] = d
               /\ \A a : Flying("putTargets", a, calls') => a.of = a.hosts
    <3>1. /\ Asks("targets", view.hosts.of, calls) /\ \A d \in Components : view.hostIds[d] = d
          /\ \A a : Flying("putTargets", a, calls) => a.of = a.hosts
          /\ view.hosts.sel = view.hosts.of
      BY <1>1, <2>2 DEF TableInv, HostsOfRow
    <3> QED
      BY <1>2, <1>3, <1>4, <1>5, <3>1 DEF LeftAlone
  <2> QED
    BY <1>4, <2>1, <2>2 DEF HostsOfRow
<1>9. ParamsOfPipe' /\ SwitchesInTurn'
  BY <1>1, <1>3, <1>4, ParamsKept, SwitchesKept DEF TableInv
<1> QED
  BY <1>1, <1>3, <1>6, <1>7, <1>8, <1>9 DEF TableInv

LEMMA HostsStored ==
  ASSUME D!DeploymentConstants, TableInv, NEW i \in DOMAIN calls, NEW ok \in BOOLEAN,
         D!HostsSaved(i, ok)
  PROVE  TableInv'
<1> DEFINE shown == [of |-> view.hosts.of, hosts |-> view.hosts.sel]
           b == view.calm /\ calls[i].arg = shown
           ids == IF ok THEN [view.hostIds EXCEPT ![view.hosts.of] = view.hosts.sel]
                  ELSE view.hostIds
           o == IF ok THEN D!Closed("hosts") ELSE view.open
           idle == [view EXCEPT !.hosts.saving = FALSE, !.calm = b]
<1>1. /\ calls[i].op = "putTargets" /\ Reply(i, <<>>) /\ UNCHANGED <<page, world>>
      /\ ok => view' = [idle EXCEPT !.hostIds[view.hosts.of] = view.hosts.sel,
                                    !.open = D!Closed("hosts")]
      /\ ~ok => view' = idle
  BY DeploymentConsole DEF D!HostsSaved, D!Answer
<1>2. Flying("putTargets", calls[i].arg, calls) /\ InFlight({"putTargets"})
  BY <1>1 DEF Flying, InFlight
<1>3. view.hosts.sel \in Components
  BY <1>2 DEF TableInv, HostsOfRow
<1>4. b \in BOOLEAN /\ (b => view.calm /\ calls[i].arg = shown)
  BY DEF TableInv, ComponentsShape
<1>5. o \in Seq(DialogNames) /\ Range(o) \subseteq Range(view.open)
  BY DialogsClosed DEF TableInv, ComponentsShape
<1>6. ids \in [Components -> Components]
  BY <1>3 DEF TableInv, ComponentsShape
<1>7. /\ DOMAIN view' = DOMAIN view
      /\ view'.loading = view.loading /\ view'.listed = view.listed
      /\ view'.enabled = view.enabled /\ view'.open = o
      /\ view'.hosts = [view.hosts EXCEPT !.saving = FALSE]
      /\ view'.hostIds = ids /\ view'.params = view.params
      /\ view'.tasks = view.tasks /\ view'.calm = b
  <2> HIDE DEF b
  <2>1. CASE ok
    <3>1. ids = [view.hostIds EXCEPT ![view.hosts.of] = view.hosts.sel]
          /\ o = D!Closed("hosts")
      BY <2>1
    <3>2. view' = [idle EXCEPT !.hostIds = ids, !.open = o]
      BY <1>1, <2>1, <3>1 DEF TableInv, ComponentsShape
    <3> HIDE DEF ids, o
    <3> QED
      BY <3>2 DEF TableInv, ComponentsShape
  <2>2. CASE ~ok
    BY <1>1, <2>2 DEF TableInv, ComponentsShape
  <2> QED
    BY <2>1, <2>2
<1> HIDE DEF o, b, idle
<1>8. /\ ComponentsCalls' /\ Lone({"components"}, calls')
      /\ \A op : op # "putTargets" => LeftAlone(op)
      /\ \A op, a : Flying(op, a, calls') => Flying(op, a, calls)
      /\ SwitchesAlike(calls, calls')
  BY <1>1, ComponentsAnswer DEF TableInv, SwitchesInTurn
<1>9. /\ view'.hosts \in [of : Components \cup {None}, sel : Components \cup {None},
                          saving : BOOLEAN]
      /\ view'.hosts.of = view.hosts.of /\ view'.hosts.sel = view.hosts.sel
      /\ view'.hosts.saving = FALSE
  BY <1>7 DEF TableInv, ComponentsShape
<1>10. ComponentsShape'
  BY <1>1, <1>4, <1>5, <1>6, <1>7, <1>9 DEF TableInv, ComponentsShape
<1>11. ComponentsBusy'
  BY <1>7, <1>8, <1>9, SpinnersKept DEF TableInv
<1>12. HostsOfRow'
  <2>1. ASSUME b
        PROVE  /\ Asks("targets", view.hosts.of, calls')
               /\ "hosts" \in Range(o) => view.hosts.sel = view.hosts.of
               /\ \A d \in Components : ids[d] = d
               /\ \A a : Flying("putTargets", a, calls') => a.of = a.hosts
    <3>1. view.calm /\ calls[i].arg = shown
      BY <1>4, <2>1
    <3>2. /\ Asks("targets", view.hosts.of, calls) /\ \A d \in Components : view.hostIds[d] = d
          /\ \A a : Flying("putTargets", a, calls) => a.of = a.hosts
          /\ "hosts" \in Range(view.open) => view.hosts.sel = view.hosts.of
      BY <3>1 DEF TableInv, HostsOfRow
    <3>3. view.hosts.sel = view.hosts.of
      BY <1>2, <3>1, <3>2
    <3>4. \A d \in Components : ids[d] = d
      BY <3>2, <3>3 DEF TableInv, ComponentsShape
    <3> QED
      BY <1>5, <1>8, <3>2, <3>3, <3>4 DEF LeftAlone
  <2> HIDE DEF ids
  <2> QED
    BY <1>3, <1>7, <1>9, <2>1 DEF HostsOfRow
<1>13. ParamsOfPipe' /\ SwitchesInTurn'
  BY <1>1, <1>4, <1>7, <1>8, ParamsKept, SwitchesKept DEF TableInv
<1> QED
  BY <1>1, <1>8, <1>10, <1>11, <1>12, <1>13 DEF TableInv

(* The dialog of the parameters *)

LEMMA ParamsAsked ==
  ASSUME D!DeploymentConstants, TableInv,
         NEW p \in D!Pipes, NEW pipes \in Seq(D!Pipes), NEW opens \in BOOLEAN,
         UNCHANGED <<page, world>>,
         DOMAIN view' = DOMAIN view,
         view'.loading = view.loading, view'.listed = view.listed,
         view'.enabled = view.enabled, view'.open = view.open,
         view'.hosts = view.hosts, view'.hostIds = view.hostIds,
         view'.tasks = view.tasks, view'.calm = view.calm,
         view'.params \in [pipes : {pipes}, pipe : {p}, rows : {view.params.rows},
                           saving : {view.params.saving}],
         Send(<<Call("override", [of |-> p, opens |-> opens])>>)
  PROVE  TableInv'
<1> DEFINE a == [of |-> p, opens |-> opens]
<1>1. a \in OverrideArgs /\ a = [of |-> p, opens |-> opens]
  BY DEF OverrideArgs
<1>2. Send(<<Call("override", a)>>)
  OBVIOUS
<1> HIDE DEF a
<1>3. /\ ComponentsCalls' /\ Lone({"components"}, calls')
      /\ Asks("override", a, calls') /\ Flying("override", a, calls')
      /\ \A o : o # "override" => LeftAlone(o)
      /\ SwitchesAlike(calls, calls')
  BY <1>1, <1>2, ComponentsSend DEF TableInv, SwitchesInTurn
<1>4. /\ view'.params \in [pipes : Seq(D!Pipes), pipe : D!Pipes \cup {None},
                           rows : D!Pipes \cup {None}, saving : BOOLEAN]
      /\ view'.params.pipe = p /\ view'.params.rows = view.params.rows
      /\ view'.params.saving = view.params.saving
  BY DEF TableInv, ComponentsShape
<1>6. ComponentsShape'
  BY <1>4 DEF TableInv, ComponentsShape
<1>7. ComponentsBusy'
  BY <1>3, <1>4, SpinnersKept DEF TableInv
<1>8. ParamsOfPipe'
  <2>1. InFlight({"override"})'
    BY <1>3, FlightFlies
  <2>2. Asks("override", [of |-> view'.params.pipe, opens |-> opens], calls')
    BY <1>1, <1>3, <1>4
  <2> QED
    BY <1>3, <1>4, <2>1, <2>2 DEF TableInv, ParamsOfPipe, LeftAlone
<1>9. HostsOfRow' /\ SwitchesInTurn'
  BY <1>3, HostsKept, SwitchesKept DEF TableInv
<1> QED
  BY <1>3, <1>6, <1>7, <1>8, <1>9 DEF TableInv

LEMMA ParamsOpened ==
  ASSUME D!DeploymentConstants, TableInv, NEW c \in Components, D!openOverride(c)
  PROVE  TableInv'
<1>1. PipelinesOf[c] \in Seq(D!Pipes) /\ PipelinesOf[c] # <<>>
  BY DEF D!DeploymentConstants
<1> DEFINE p == Head(PipelinesOf[c])
<1>2. p \in D!Pipes /\ p # None
  BY <1>1 DEF D!DeploymentConstants
<1>3. /\ UNCHANGED <<page, world>>
      /\ view' = [view EXCEPT
                    !.params = [@ EXCEPT !.pipes = PipelinesOf[c], !.pipe = p,
                                         !.rows = view.params.rows],
                    !.open = view.open]
      /\ Send(<<Call("override", [of |-> p, opens |-> TRUE])>>)
  BY <1>1, <1>2, DeploymentConsole DEF D!openOverride, D!User
<1>4. /\ DOMAIN view' = DOMAIN view
      /\ view'.loading = view.loading /\ view'.listed = view.listed
      /\ view'.enabled = view.enabled /\ view'.open = view.open
      /\ view'.hosts = view.hosts /\ view'.hostIds = view.hostIds
      /\ view'.tasks = view.tasks /\ view'.calm = view.calm
  BY <1>3 DEF TableInv, ComponentsShape
<1>5. view'.params = [view.params EXCEPT !.pipes = PipelinesOf[c], !.pipe = p,
                                         !.rows = view.params.rows]
  BY <1>3 DEF TableInv, ComponentsShape
<1>6. view'.params \in [pipes : {PipelinesOf[c]}, pipe : {p}, rows : {view.params.rows},
                        saving : {view.params.saving}]
  BY <1>5 DEF TableInv, ComponentsShape
<1> QED
  BY <1>1, <1>2, <1>3, <1>4, <1>6, ParamsAsked

LEMMA PipePicked ==
  ASSUME D!DeploymentConstants, TableInv, NEW p, D!loadOverrideRows(p)
  PROVE  TableInv'
<1>1. /\ UNCHANGED <<page, world>> /\ p \in Range(view.params.pipes)
      /\ view' = [view EXCEPT !.params.pipe = p]
      /\ Send(<<Call("override", [of |-> p, opens |-> FALSE])>>)
  BY DeploymentConsole DEF D!loadOverrideRows, D!User
<1>2. view.params.pipes \in Seq(D!Pipes)
  BY DEF TableInv, ComponentsShape
<1>3. p \in D!Pipes
  BY <1>1, <1>2 DEF Range
<1>4. /\ DOMAIN view' = DOMAIN view
      /\ view'.loading = view.loading /\ view'.listed = view.listed
      /\ view'.enabled = view.enabled /\ view'.open = view.open
      /\ view'.hosts = view.hosts /\ view'.hostIds = view.hostIds
      /\ view'.tasks = view.tasks /\ view'.calm = view.calm
      /\ view'.params = [view.params EXCEPT !.pipe = p]
  BY <1>1 DEF TableInv, ComponentsShape
<1>5. view'.params \in [pipes : {view.params.pipes}, pipe : {p}, rows : {view.params.rows},
                        saving : {view.params.saving}]
  BY <1>4 DEF TableInv, ComponentsShape
<1> QED
  BY <1>1, <1>2, <1>3, <1>4, <1>5, ParamsAsked

LEMMA RowsOfPipeCome ==
  ASSUME D!DeploymentConstants, TableInv, NEW i \in DOMAIN calls, NEW ok \in BOOLEAN,
         D!OverrideArrives(i, ok)
  PROVE  TableInv'
<1> DEFINE a == calls[i].arg
           r == IF ok THEN a.of ELSE None
           o == IF a.opens THEN D!Opened("params") ELSE view.open
           b == view.calm /\ calls[i].last
<1>1. /\ calls[i].op = "override" /\ Reply(i, <<>>) /\ UNCHANGED <<page, world>>
      /\ view' = [view EXCEPT !.params.rows = r, !.open = o, !.calm = b]
  BY DeploymentConsole DEF D!OverrideArrives, D!Answer
<1>2. a \in OverrideArgs
  <2>1. Flying("override", a, calls)
    BY <1>1 DEF Flying
  <2> QED
    BY <2>1 DEF TableInv, ComponentsCalls
<1>3. r \in D!Pipes \cup {None} /\ r \in {a.of, None}
  BY <1>2 DEF OverrideArgs
<1>4. o \in Seq(DialogNames) /\ ("hosts" \in Range(o) => "hosts" \in Range(view.open))
  <2>1. /\ D!Opened("params") \in Seq(DialogNames)
        /\ Range(D!Opened("params")) = Range(view.open) \cup {"params"}
    BY DialogsOpened DEF TableInv, ComponentsShape, DialogNames
  <2>2. view.open \in Seq(DialogNames)
    BY DEF TableInv, ComponentsShape
  <2>3. CASE a.opens
    BY <2>1, <2>3
  <2>4. CASE ~a.opens
    BY <2>2, <2>4
  <2> QED
    BY <2>3, <2>4
<1>5. b \in BOOLEAN /\ (b => view.calm /\ calls[i].last)
  BY DEF TableInv, ComponentsShape
<1> HIDE DEF r, o, b
<1>6. /\ ComponentsCalls' /\ Lone({"components"}, calls')
      /\ \A op : op # "override" => LeftAlone(op)
      /\ \A op, x : Asks(op, x, calls) => Asks(op, x, calls')
      /\ SwitchesAlike(calls, calls')
  BY <1>1, ComponentsAnswer DEF TableInv, SwitchesInTurn
<1>7. /\ DOMAIN view' = DOMAIN view
      /\ view'.loading = view.loading /\ view'.listed = view.listed
      /\ view'.enabled = view.enabled /\ view'.open = o
      /\ view'.hosts = view.hosts /\ view'.hostIds = view.hostIds
      /\ view'.params = [view.params EXCEPT !.rows = r]
      /\ view'.tasks = view.tasks /\ view'.calm = b
  BY <1>1 DEF TableInv, ComponentsShape
<1>8. /\ view'.params \in [pipes : Seq(D!Pipes), pipe : D!Pipes \cup {None},
                           rows : D!Pipes \cup {None}, saving : BOOLEAN]
      /\ view'.params.pipe = view.params.pipe /\ view'.params.rows = r
      /\ view'.params.saving = view.params.saving
  BY <1>3, <1>7 DEF TableInv, ComponentsShape
<1>9. ComponentsShape'
  BY <1>1, <1>4, <1>5, <1>7, <1>8 DEF TableInv, ComponentsShape
<1>10. ComponentsBusy'
  BY <1>6, <1>7, <1>8, SpinnersKept DEF TableInv
<1>11. ParamsOfPipe'
  <2>1. ASSUME b
        PROVE  /\ \E opens \in BOOLEAN :
                    Asks("override", [of |-> view.params.pipe, opens |-> opens], calls')
               /\ r \in {view.params.pipe, None}
               /\ \A x : Flying("putOverride", x, calls') => x.early \/ x.rows \in {x.of, None}
    <3>1. view.calm /\ calls[i].last
      BY <1>5, <2>1
    <3>2. PICK opens \in BOOLEAN :
            Asks("override", [of |-> view.params.pipe, opens |-> opens], calls)
      BY <3>1 DEF TableInv, ParamsOfPipe
    <3>3. a.of = view.params.pipe
      <4> DEFINE asked == [of |-> view.params.pipe, opens |-> opens]
      <4>1. Asks("override", asked, calls) /\ asked.of = view.params.pipe
        BY <3>2
      <4> HIDE DEF asked
      <4>2. a = asked
        BY <1>1, <3>1, <4>1, AsksAlike
      <4> QED
        BY <4>1, <4>2
    <3>4. \A x : Flying("putOverride", x, calls') => x.early \/ x.rows \in {x.of, None}
      BY <1>6, <3>1 DEF TableInv, ParamsOfPipe, LeftAlone
    <3> QED
      BY <1>3, <1>6, <3>2, <3>3, <3>4
  <2> QED
    BY <1>7, <1>8, <2>1 DEF ParamsOfPipe
<1>12. HostsOfRow' /\ SwitchesInTurn'
  BY <1>1, <1>4, <1>5, <1>6, <1>7, HostsKept, SwitchesKept DEF TableInv
<1> QED
  BY <1>1, <1>6, <1>9, <1>10, <1>11, <1>12 DEF TableInv

LEMMA DefaultsAsked ==
  ASSUME TableInv, D!restoreDefaults PROVE TableInv'
<1>1. UNCHANGED <<page, world, view>> /\ Send(<<Call("defaults", None)>>)
  BY DeploymentConsole DEF D!restoreDefaults, D!User
<1>2. /\ ComponentsCalls' /\ Lone({"components"}, calls')
      /\ \A o : o # "defaults" => LeftAlone(o)
      /\ SwitchesAlike(calls, calls')
  BY <1>1, ComponentsSend DEF TableInv, SwitchesInTurn
<1>3. ComponentsShape'
  BY <1>1 DEF TableInv, ComponentsShape
<1>4. ComponentsBusy'
  BY <1>1, <1>2, SpinnersKept DEF TableInv
<1>5. HostsOfRow' /\ ParamsOfPipe' /\ SwitchesInTurn'
  BY <1>1, <1>2, HostsKept, ParamsKept, SwitchesKept DEF TableInv
<1> QED
  BY <1>1, <1>2, <1>3, <1>4, <1>5 DEF TableInv

LEMMA DefaultsCome ==
  ASSUME TableInv, NEW i \in DOMAIN calls, NEW ok \in BOOLEAN, D!DefaultsArrive(i, ok)
  PROVE  TableInv'
<1>1. /\ calls[i].op = "defaults" /\ Reply(i, <<>>) /\ UNCHANGED <<page, world>>
      /\ view' = IF ok THEN [view EXCEPT !.params.rows = view.params.pipe] ELSE view
  BY DeploymentConsole DEF D!DefaultsArrive, D!Answer
<1>2. /\ ComponentsCalls' /\ Lone({"components"}, calls')
      /\ \A o : o # "defaults" => LeftAlone(o)
      /\ SwitchesAlike(calls, calls')
  BY <1>1, ComponentsAnswer DEF TableInv, SwitchesInTurn
<1>3. /\ DOMAIN view' = DOMAIN view
      /\ view'.loading = view.loading /\ view'.listed = view.listed
      /\ view'.enabled = view.enabled /\ view'.open = view.open
      /\ view'.hosts = view.hosts /\ view'.hostIds = view.hostIds
      /\ view'.params \in {view.params, [view.params EXCEPT !.rows = view.params.pipe]}
      /\ view'.tasks = view.tasks /\ view'.calm = view.calm
  BY <1>1 DEF TableInv, ComponentsShape
<1>4. /\ view'.params \in [pipes : Seq(D!Pipes), pipe : D!Pipes \cup {None},
                           rows : D!Pipes \cup {None}, saving : BOOLEAN]
      /\ view'.params.pipe = view.params.pipe
      /\ view'.params.rows \in {view.params.rows, view.params.pipe}
      /\ view'.params.saving = view.params.saving
  BY <1>3 DEF TableInv, ComponentsShape
<1>5. ComponentsShape'
  BY <1>1, <1>3, <1>4 DEF TableInv, ComponentsShape
<1>6. ComponentsBusy'
  BY <1>2, <1>3, <1>4, SpinnersKept DEF TableInv
<1>7. ParamsOfPipe'
  <2>1. InFlight({"override"})' <=> InFlight({"override"})
    BY <1>2, FlightFlies DEF LeftAlone
  <2> QED
    BY <1>2, <1>3, <1>4, <2>1 DEF TableInv, ParamsOfPipe, LeftAlone
<1>8. HostsOfRow' /\ SwitchesInTurn'
  BY <1>1, <1>2, <1>3, HostsKept, SwitchesKept DEF TableInv
<1> QED
  BY <1>1, <1>2, <1>5, <1>6, <1>7, <1>8 DEF TableInv

LEMMA ParamsSent ==
  ASSUME TableInv, D!saveOverride PROVE TableInv'
<1>1. PICK e \in BOOLEAN : e = InFlight({"override"})
  BY DEF InFlight
<1> DEFINE w == [of |-> view.params.pipe, rows |-> view.params.rows, early |-> e]
<1>2. /\ UNCHANGED <<page, world>> /\ view' = [view EXCEPT !.params.saving = TRUE]
      /\ Send(<<Call("putOverride", w)>>)
  <2>1. e = D!InFlight({"override"})
    BY <1>1 DEF InFlight, D!InFlight
  <2> QED
    BY <2>1, DeploymentConsole DEF D!saveOverride, D!User
<1>3. w.of = view.params.pipe /\ w.rows = view.params.rows /\ w.early = e
  OBVIOUS
<1> HIDE DEF w
<1>4. /\ ComponentsCalls' /\ Lone({"components"}, calls') /\ Flying("putOverride", w, calls')
      /\ \A o : o # "putOverride" => LeftAlone(o)
      /\ \A a : Flying("putOverride", a, calls') => Flying("putOverride", a, calls) \/ a = w
      /\ SwitchesAlike(calls, calls')
  BY <1>2, ComponentsSend DEF TableInv, SwitchesInTurn
<1>5. /\ DOMAIN view' = DOMAIN view
      /\ view'.loading = view.loading /\ view'.listed = view.listed
      /\ view'.enabled = view.enabled /\ view'.open = view.open
      /\ view'.hosts = view.hosts /\ view'.hostIds = view.hostIds
      /\ view'.params = [view.params EXCEPT !.saving = TRUE]
      /\ view'.tasks = view.tasks /\ view'.calm = view.calm
  BY <1>2 DEF TableInv, ComponentsShape
<1>6. /\ view'.params \in [pipes : Seq(D!Pipes), pipe : D!Pipes \cup {None},
                           rows : D!Pipes \cup {None}, saving : BOOLEAN]
      /\ view'.params.pipe = view.params.pipe /\ view'.params.rows = view.params.rows
  BY <1>5 DEF TableInv, ComponentsShape
<1>7. ComponentsShape'
  BY <1>2, <1>5, <1>6 DEF TableInv, ComponentsShape
<1>8. ComponentsBusy'
  BY <1>4, <1>5, SpinnersKept DEF TableInv
<1>9. ParamsOfPipe'
  <2>1. InFlight({"override"})' <=> InFlight({"override"})
    BY <1>4, FlightFlies DEF LeftAlone
  <2>2. view.calm => w.early \/ w.rows \in {w.of, None}
    BY <1>1, <1>3 DEF TableInv, ParamsOfPipe
  <2>3. view.calm =>
          \A x : Flying("putOverride", x, calls') => x.early \/ x.rows \in {x.of, None}
    BY <1>4, <2>2 DEF TableInv, ParamsOfPipe
  <2> QED
    BY <1>4, <1>5, <1>6, <2>1, <2>3 DEF TableInv, ParamsOfPipe, LeftAlone
<1>10. HostsOfRow' /\ SwitchesInTurn'
  BY <1>2, <1>4, <1>5, HostsKept, SwitchesKept DEF TableInv
<1> QED
  BY <1>2, <1>4, <1>7, <1>8, <1>9, <1>10 DEF TableInv

LEMMA ParamsStored ==
  ASSUME TableInv, NEW i \in DOMAIN calls, NEW ok \in BOOLEAN, D!OverrideSaved(i, ok)
  PROVE  TableInv'
<1> DEFINE o == IF ok THEN D!Closed("params") ELSE view.open
<1>1. /\ calls[i].op = "putOverride" /\ Reply(i, <<>>) /\ UNCHANGED <<page, world>>
      /\ view' = [view EXCEPT !.params.saving = FALSE, !.open = o]
  BY DeploymentConsole DEF D!OverrideSaved, D!Answer
<1>2. o \in Seq(DialogNames) /\ Range(o) \subseteq Range(view.open)
  BY DialogsClosed DEF TableInv, ComponentsShape
<1> HIDE DEF o
<1>3. /\ ComponentsCalls' /\ Lone({"components"}, calls')
      /\ \A op : op # "putOverride" => LeftAlone(op)
      /\ \A op, a : Flying(op, a, calls') => Flying(op, a, calls)
      /\ SwitchesAlike(calls, calls')
  BY <1>1, ComponentsAnswer DEF TableInv, SwitchesInTurn
<1>4. /\ DOMAIN view' = DOMAIN view
      /\ view'.loading = view.loading /\ view'.listed = view.listed
      /\ view'.enabled = view.enabled /\ view'.open = o
      /\ view'.hosts = view.hosts /\ view'.hostIds = view.hostIds
      /\ view'.params = [view.params EXCEPT !.saving = FALSE]
      /\ view'.tasks = view.tasks /\ view'.calm = view.calm
  BY <1>1 DEF TableInv, ComponentsShape
<1>5. /\ view'.params \in [pipes : Seq(D!Pipes), pipe : D!Pipes \cup {None},
                           rows : D!Pipes \cup {None}, saving : BOOLEAN]
      /\ view'.params.pipe = view.params.pipe /\ view'.params.rows = view.params.rows
      /\ view'.params.saving = FALSE
  BY <1>4 DEF TableInv, ComponentsShape
<1>6. ComponentsShape'
  BY <1>1, <1>2, <1>4, <1>5 DEF TableInv, ComponentsShape
<1>7. ComponentsBusy'
  BY <1>3, <1>4, <1>5, SpinnersKept DEF TableInv
<1>8. ParamsOfPipe'
  <2>1. InFlight({"override"})' <=> InFlight({"override"})
    BY <1>3, FlightFlies DEF LeftAlone
  <2> QED
    BY <1>3, <1>4, <1>5, <2>1 DEF TableInv, ParamsOfPipe, LeftAlone
<1>9. HostsOfRow' /\ SwitchesInTurn'
  BY <1>1, <1>2, <1>3, <1>4, HostsKept, SwitchesKept DEF TableInv
<1> QED
  BY <1>1, <1>3, <1>6, <1>7, <1>8, <1>9 DEF TableInv

(* The drawer of the tasks *)

LEMMA TasksAsked ==
  ASSUME TableInv, NEW c \in Components, D!openTasks(c)
  PROVE  TableInv'
<1> DEFINE o == D!Opened("tasks")
<1>1. /\ UNCHANGED <<page, world>> /\ Send(<<Call("tasks", c)>>)
      /\ view' = [view EXCEPT !.tasks = [@ EXCEPT !.of = c, !.loading = TRUE], !.open = o]
  BY DeploymentConsole DEF D!openTasks, D!User
<1>2. o \in Seq(DialogNames) /\ ("hosts" \in Range(o) => "hosts" \in Range(view.open))
  BY DialogsOpened DEF TableInv, ComponentsShape, DialogNames
<1> HIDE DEF o
<1>3. /\ ComponentsCalls' /\ Lone({"components"}, calls') /\ Flying("tasks", c, calls')
      /\ \A op : op # "tasks" => LeftAlone(op)
      /\ SwitchesAlike(calls, calls')
  BY <1>1, ComponentsSend DEF TableInv, SwitchesInTurn
<1>4. /\ DOMAIN view' = DOMAIN view
      /\ view'.loading = view.loading /\ view'.listed = view.listed
      /\ view'.enabled = view.enabled /\ view'.open = o
      /\ view'.hosts = view.hosts /\ view'.hostIds = view.hostIds
      /\ view'.params = view.params
      /\ view'.tasks = [view.tasks EXCEPT !.of = c, !.loading = TRUE]
      /\ view'.calm = view.calm
  BY <1>1 DEF TableInv, ComponentsShape
<1>5. ComponentsShape'
  BY <1>1, <1>2, <1>4 DEF TableInv, ComponentsShape
<1>6. ComponentsBusy'
  BY <1>3, <1>4, SpinnersKept DEF TableInv
<1>7. HostsOfRow' /\ ParamsOfPipe' /\ SwitchesInTurn'
  BY <1>1, <1>2, <1>3, <1>4, HostsKept, ParamsKept, SwitchesKept DEF TableInv
<1> QED
  BY <1>1, <1>3, <1>5, <1>6, <1>7 DEF TableInv

LEMMA TasksShown ==
  ASSUME TableInv, NEW i \in DOMAIN calls, NEW ok \in BOOLEAN, D!TasksArrive(i, ok)
  PROVE  TableInv'
<1> DEFINE t == IF ok THEN calls[i].arg ELSE None
           b == view.calm /\ calls[i].last
<1>1. /\ calls[i].op = "tasks" /\ Reply(i, <<>>) /\ UNCHANGED <<page, world>>
      /\ view' = [view EXCEPT !.tasks.items = t, !.tasks.loading = FALSE, !.calm = b]
  BY DeploymentConsole DEF D!TasksArrive, D!Answer
<1>2. t \in Components \cup {None}
  <2>1. Flying("tasks", calls[i].arg, calls)
    BY <1>1 DEF Flying
  <2> QED
    BY <2>1 DEF TableInv, ComponentsCalls
<1>3. b \in BOOLEAN /\ (b => view.calm)
  BY DEF TableInv, ComponentsShape
<1> HIDE DEF t, b
<1>4. /\ ComponentsCalls' /\ Lone({"components"}, calls')
      /\ \A op : op # "tasks" => LeftAlone(op)
      /\ SwitchesAlike(calls, calls')
  BY <1>1, ComponentsAnswer DEF TableInv, SwitchesInTurn
<1>5. /\ DOMAIN view' = DOMAIN view
      /\ view'.loading = view.loading /\ view'.listed = view.listed
      /\ view'.enabled = view.enabled /\ view'.open = view.open
      /\ view'.hosts = view.hosts /\ view'.hostIds = view.hostIds
      /\ view'.params = view.params
      /\ view'.tasks = [view.tasks EXCEPT !.items = t, !.loading = FALSE]
      /\ view'.calm = b
  BY <1>1 DEF TableInv, ComponentsShape
<1>6. view'.tasks.loading = FALSE
      /\ view'.tasks \in [of : Components \cup {None}, items : Components \cup {None},
                          loading : BOOLEAN]
  BY <1>2, <1>5 DEF TableInv, ComponentsShape
<1>7. ComponentsShape'
  BY <1>1, <1>3, <1>5, <1>6 DEF TableInv, ComponentsShape
<1>8. ComponentsBusy'
  BY <1>4, <1>5, <1>6, SpinnersKept DEF TableInv
<1>9. HostsOfRow' /\ ParamsOfPipe' /\ SwitchesInTurn'
  BY <1>1, <1>3, <1>4, <1>5, HostsKept, ParamsKept, SwitchesKept DEF TableInv
<1> QED
  BY <1>1, <1>4, <1>7, <1>8, <1>9 DEF TableInv

(* The switches *)

\* One more save, one flip away from the last.
LEMMA ChainSent ==
  ASSUME AreCalls(calls), NEW a, Send(<<Call("enable", a)>>),
         NEW first, NEW last, SwitchChain(calls, first, last), a.names = D!Flip(last, a.row)
  PROVE  SwitchChain(calls', first, a.names)
<1> DEFINE n == Len(calls) + 1
<1>1. /\ Len(calls) \in Nat /\ DOMAIN calls = 1..Len(calls) /\ DOMAIN calls' = 1..n
      /\ \A k \in DOMAIN calls : calls'[k].op = calls[k].op /\ calls'[k].arg = calls[k].arg
      /\ calls'[n].op = "enable" /\ calls'[n].arg = a
  BY SentSwitches
<1>2. n \in Nat /\ n \in DOMAIN calls' /\ n \notin DOMAIN calls
  BY <1>1
<1>3. \A k \in DOMAIN calls : k \in Nat /\ k < n /\ ~(n < k) /\ k \in DOMAIN calls'
  BY <1>1
<1>4. \A k \in DOMAIN calls' : k \in DOMAIN calls \/ k = n
  BY <1>1
<1> HIDE DEF n
<1>5. Switches(calls') = Switches(calls) \cup {n}
  BY <1>1, <1>2, <1>3, <1>4 DEF Switches
<1>6. \A k \in Switches(calls) :
        k \in DOMAIN calls /\ k < n /\ ~(n < k) /\ calls'[k].arg = calls[k].arg
  BY <1>1, <1>3 DEF Switches
<1>7. n \in Switches(calls') /\ ~(n < n) /\ n \notin Switches(calls)
  BY <1>2, <1>5 DEF Switches
<1>8. ASSUME NEW k \in Switches(calls')
      PROVE  /\ (\A j \in Switches(calls') : ~(j < k)) =>
                   calls'[k].arg.names = D!Flip(first, calls'[k].arg.row)
             /\ (\A j \in Switches(calls') : ~(k < j)) => calls'[k].arg.names = a.names
             /\ \A j \in Switches(calls') :
                  j < k /\ (\A m \in Switches(calls') : ~(j < m /\ m < k)) =>
                    calls'[k].arg.names = D!Flip(calls'[j].arg.names, calls'[k].arg.row)
  <2>1. CASE k \in Switches(calls)
    <3>1. k < n /\ ~(n < k) /\ calls'[k].arg = calls[k].arg
      BY <1>6, <2>1
    <3>2. (\A j \in Switches(calls') : ~(j < k)) => \A j \in Switches(calls) : ~(j < k)
      BY <1>5
    <3>3. ASSUME NEW j \in Switches(calls'), j < k,
                 \A m \in Switches(calls') : ~(j < m /\ m < k)
          PROVE  calls'[k].arg.names = D!Flip(calls'[j].arg.names, calls'[k].arg.row)
      <4>1. j \in Switches(calls) /\ calls'[j].arg = calls[j].arg
        BY <1>5, <1>6, <3>1, <3>3
      <4>2. \A m \in Switches(calls) : ~(j < m /\ m < k)
        BY <1>5, <3>3
      <4> QED
        BY <2>1, <3>1, <3>3, <4>1, <4>2 DEF SwitchChain
    <3> QED
      BY <1>7, <2>1, <3>1, <3>2, <3>3 DEF SwitchChain
  <2>2. CASE k = n
    <3>1. calls'[k].arg = a
      BY <1>1, <2>2
    <3>2. (\A j \in Switches(calls') : ~(j < k)) => Switches(calls) = {}
      BY <1>5, <1>6, <2>2
    <3>3. ASSUME NEW j \in Switches(calls'), j < k,
                 \A m \in Switches(calls') : ~(j < m /\ m < k)
          PROVE  calls'[k].arg.names = D!Flip(calls'[j].arg.names, calls'[k].arg.row)
      <4>1. j \in Switches(calls) /\ calls'[j].arg = calls[j].arg
        BY <1>5, <1>6, <1>7, <2>2, <3>3
      <4>2. \A m \in Switches(calls) : ~(j < m)
        BY <1>5, <1>6, <2>2, <3>3
      <4>3. calls[j].arg.names = last
        BY <4>1, <4>2 DEF SwitchChain
      <4> QED
        BY <3>1, <4>1, <4>3
    <3>4. (\A j \in Switches(calls') : ~(j < k)) => first = last
      BY <3>2 DEF SwitchChain
    <3> QED
      BY <3>1, <3>3, <3>4
  <2> QED
    BY <1>5, <2>1, <2>2
<1>9. Switches(calls') # {}
  BY <1>7
<1> QED
  BY <1>8, <1>9 DEF SwitchChain

\* The first save was taken: the others go on from what it left.
LEMMA ChainAnswered ==
  ASSUME AreCalls(calls), NEW i \in Switches(calls), Reply(i, <<>>),
         \A j \in Switches(calls) : i <= j,
         NEW first, NEW last, SwitchChain(calls, first, last)
  PROVE  SwitchChain(calls', calls[i].arg.names, last)
<1>1. i \in DOMAIN calls /\ calls[i].op = "enable"
  BY DEF Switches
<1>2. PICK old :
        /\ Len(calls) \in Nat /\ DOMAIN calls = 1..Len(calls)
        /\ DOMAIN calls' = 1..(Len(calls) - 1)
        /\ \A k \in DOMAIN calls' :
             /\ old[k] \in DOMAIN calls /\ old[k] # i
             /\ calls'[k].op = calls[old[k]].op /\ calls'[k].arg = calls[old[k]].arg
        /\ \A j, k \in DOMAIN calls' : j < k <=> old[j] < old[k]
        /\ \A j \in DOMAIN calls : j # i => \E k \in DOMAIN calls' : old[k] = j
  BY <1>1, AnsweredPlaces
<1>3. /\ \A k \in Switches(calls') :
           old[k] \in Switches(calls) /\ old[k] # i /\ calls'[k].arg = calls[old[k]].arg
      /\ \A j, k \in Switches(calls') : j < k <=> old[j] < old[k]
      /\ \A j \in Switches(calls) : j # i => \E k \in Switches(calls') : old[k] = j
  BY <1>2 DEF Switches
<1>4. \A j \in Switches(calls) : j # i => i < j /\ ~(j < i)
  BY <1>2 DEF Switches
<1>5. ~(i < i)
  BY <1>1, <1>2
<1>6. Switches(calls') = {} => calls[i].arg.names = last
  <2>1. Switches(calls') = {} => \A j \in Switches(calls) : ~(i < j)
    BY <1>3, <1>5
  <2> QED
    BY <2>1 DEF SwitchChain
<1>7. ASSUME NEW k \in Switches(calls')
      PROVE  /\ (\A j \in Switches(calls') : ~(j < k)) =>
                   calls'[k].arg.names = D!Flip(calls[i].arg.names, calls'[k].arg.row)
             /\ (\A j \in Switches(calls') : ~(k < j)) => calls'[k].arg.names = last
             /\ \A j \in Switches(calls') :
                  j < k /\ (\A m \in Switches(calls') : ~(j < m /\ m < k)) =>
                    calls'[k].arg.names = D!Flip(calls'[j].arg.names, calls'[k].arg.row)
  <2>1. old[k] \in Switches(calls) /\ i < old[k] /\ calls'[k].arg = calls[old[k]].arg
    BY <1>3, <1>4
  <2>2. (\A j \in Switches(calls') : ~(j < k)) =>
          \A m \in Switches(calls) : ~(i < m /\ m < old[k])
    BY <1>3, <1>5
  <2>3. (\A j \in Switches(calls') : ~(k < j)) => \A m \in Switches(calls) : ~(old[k] < m)
    <3>1. ~(old[k] < i)
      BY <1>3, <1>4
    <3> QED
      BY <1>3, <3>1
  <2>4. ASSUME NEW j \in Switches(calls'), j < k,
               \A m \in Switches(calls') : ~(j < m /\ m < k)
        PROVE  calls'[k].arg.names = D!Flip(calls'[j].arg.names, calls'[k].arg.row)
    <3>1. /\ old[j] \in Switches(calls) /\ old[j] < old[k]
          /\ calls'[j].arg = calls[old[j]].arg
      BY <1>3, <2>4
    <3>2. ~(old[j] < i)
      BY <1>3, <1>4
    <3>3. \A m \in Switches(calls) : ~(old[j] < m /\ m < old[k])
      BY <1>3, <2>4, <3>2
    <3> QED
      BY <2>1, <3>1, <3>3 DEF SwitchChain
  <2>5. (\A j \in Switches(calls') : ~(k < j)) => calls'[k].arg.names = last
    BY <2>1, <2>3 DEF SwitchChain
  <2>6. (\A j \in Switches(calls') : ~(j < k)) =>
          calls'[k].arg.names = D!Flip(calls[i].arg.names, calls'[k].arg.row)
    BY <2>1, <2>2 DEF SwitchChain
  <2> QED
    BY <2>4, <2>5, <2>6
<1> QED
  BY <1>6, <1>7 DEF SwitchChain

LEMMA SwitchTurned ==
  ASSUME TableInv, NEW c \in Components, D!toggleEnabled(c)
  PROVE  TableInv'
<1> DEFINE a == [row |-> c, names |-> D!Flip(view.enabled, c)]
<1>1. /\ UNCHANGED <<page, world>> /\ view.listed /\ Send(<<Call("enable", a)>>)
      /\ view' = [view EXCEPT !.enabled = a.names]
  BY DeploymentConsole DEF D!toggleEnabled, D!User, D!Table
<1>2. a.names = D!Flip(view.enabled, a.row) /\ a \in SwitchArgs
  BY DEF TableInv, ComponentsShape, SwitchArgs, D!Flip
<1> HIDE DEF a
<1>3. /\ ComponentsCalls' /\ Lone({"components"}, calls') /\ Flying("enable", a, calls')
      /\ \A op : op # "enable" => LeftAlone(op)
  BY <1>1, <1>2, ComponentsSend DEF TableInv, SwitchesInTurn
<1>4. /\ DOMAIN view' = DOMAIN view
      /\ view'.loading = view.loading /\ view'.listed = view.listed
      /\ view'.enabled = a.names /\ view'.open = view.open
      /\ view'.hosts = view.hosts /\ view'.hostIds = view.hostIds
      /\ view'.params = view.params /\ view'.tasks = view.tasks /\ view'.calm = view.calm
  BY <1>1 DEF TableInv, ComponentsShape
<1>5. a.names \subseteq Components
  BY <1>2 DEF SwitchArgs
<1>6. ComponentsShape'
  BY <1>1, <1>4, <1>5 DEF TableInv, ComponentsShape
<1>7. ComponentsBusy'
  BY <1>3, <1>4, SpinnersKept DEF TableInv
<1>8. HostsOfRow' /\ ParamsOfPipe'
  BY <1>3, <1>4, HostsKept, ParamsKept DEF TableInv
<1>9. SwitchesInTurn'
  <2>1. ~InFlight({"components"})'
    BY <1>1, <1>3, FlightFlies DEF TableInv, SwitchesInTurn, LeftAlone
  <2>2. view.calm => SwitchChain(calls, world, view.enabled)
    BY <1>1 DEF TableInv, SwitchesInTurn
  <2>3. view.calm => SwitchChain(calls', world, a.names)
    BY <1>1, <1>2, <2>2, ChainSent DEF TableInv, ComponentsCalls
  <2> QED
    BY <1>1, <1>3, <1>4, <2>1, <2>3 DEF SwitchesInTurn
<1> QED
  BY <1>1, <1>3, <1>6, <1>7, <1>8, <1>9 DEF TableInv

LEMMA SwitchAnswered ==
  ASSUME TableInv, NEW i \in DOMAIN calls, NEW ok \in BOOLEAN, NEW taken \in BOOLEAN,
         D!EnabledAnswered(i, ok, taken)
  PROVE  TableInv'
<1> DEFINE a == calls[i].arg
           e == IF ok THEN view.enabled ELSE D!Flip(view.enabled, a.row)
           b == /\ view.calm /\ ok = taken
                /\ IF ok THEN \A j \in D!Indices("enable") : i <= j
                         ELSE D!Indices("enable") = {i}
<1>1. /\ calls[i].op = "enable" /\ Reply(i, <<>>) /\ page' = page /\ (ok => taken)
      /\ view' = [view EXCEPT !.enabled = e, !.calm = b]
      /\ world' = IF taken THEN a.names ELSE world
  BY DeploymentConsole DEF D!EnabledAnswered
<1>2. a \in SwitchArgs
  <2>1. Flying("enable", a, calls)
    BY <1>1 DEF Flying
  <2> QED
    BY <2>1 DEF TableInv, ComponentsCalls
<1>3. e \subseteq Components /\ world' \subseteq Components
  BY <1>1, <1>2 DEF TableInv, ComponentsShape, SwitchArgs, D!Flip
<1>4. /\ b \in BOOLEAN
      /\ b => /\ view.calm /\ ok = taken
              /\ ok => \A j \in Switches(calls) : i <= j
              /\ ~ok => Switches(calls) = {i}
  <2>1. D!Indices("enable") = Switches(calls)
    BY DEF D!Indices, Switches
  <2> QED
    BY <2>1 DEF TableInv, ComponentsShape
<1>5. (ok => e = view.enabled) /\ (~ok => e = D!Flip(view.enabled, a.row))
  OBVIOUS
<1> HIDE DEF e, b
<1>6. /\ ComponentsCalls' /\ Lone({"components"}, calls')
      /\ \A op : op # "enable" => LeftAlone(op)
  BY <1>1, ComponentsAnswer DEF TableInv, SwitchesInTurn
<1>7. /\ DOMAIN view' = DOMAIN view
      /\ view'.loading = view.loading /\ view'.listed = view.listed
      /\ view'.enabled = e /\ view'.open = view.open
      /\ view'.hosts = view.hosts /\ view'.hostIds = view.hostIds
      /\ view'.params = view.params /\ view'.tasks = view.tasks /\ view'.calm = b
  BY <1>1 DEF TableInv, ComponentsShape
<1>8. ComponentsShape'
  BY <1>1, <1>3, <1>4, <1>7 DEF TableInv, ComponentsShape
<1>9. ComponentsBusy'
  BY <1>6, <1>7, SpinnersKept DEF TableInv
<1>10. HostsOfRow' /\ ParamsOfPipe'
  BY <1>4, <1>6, <1>7, HostsKept, ParamsKept DEF TableInv
<1>11. SwitchesInTurn'
  <2>1. InFlight({"enable"})
    BY <1>1 DEF InFlight
  <2>2. view.listed /\ ~InFlight({"components"})
    BY <2>1 DEF TableInv, SwitchesInTurn, ComponentsShape
  <2>3. ~InFlight({"components"})'
    BY <1>6, <2>2, FlightFlies DEF LeftAlone
  <2>4. ASSUME b PROVE SwitchChain(calls', world', e)
    <3>1. view.calm /\ ok = taken /\ SwitchChain(calls, world, view.enabled)
      BY <1>4, <2>2, <2>4 DEF TableInv, SwitchesInTurn
    <3>2. i \in Switches(calls)
      BY <1>1 DEF Switches
    <3>3. CASE ok
      <4>1. world' = calls[i].arg.names /\ e = view.enabled
        BY <1>1, <1>5, <3>3
      <4>2. \A j \in Switches(calls) : i <= j
        BY <1>4, <2>4, <3>3
      <4>3. SwitchChain(calls', calls[i].arg.names, view.enabled)
        BY <1>1, <3>1, <3>2, <4>2, ChainAnswered DEF TableInv, ComponentsCalls
      <4> QED
        BY <4>1, <4>3
    <3>4. CASE ~ok
      <4>1. world' = world /\ e = D!Flip(view.enabled, a.row) /\ Switches(calls) = {i}
        BY <1>1, <1>4, <1>5, <2>4, <3>1, <3>4
      <4>2. ~(i < i)
        <5>1. i \in Nat
          BY DEF TableInv, ComponentsCalls, AreCalls
        <5> QED
          BY <5>1
      <4>3. a.names = D!Flip(world, a.row) /\ a.names = view.enabled
        BY <3>1, <4>1, <4>2 DEF SwitchChain
      <4>4. e = world
        BY <4>1, <4>3 DEF D!Flip
      <4>5. \A k \in DOMAIN calls : calls[k].op = "enable" => k = i
        BY <4>1 DEF Switches
      <4>6. Lone({"enable"}, calls)
        BY <4>5 DEF Lone
      <4>7. ~InFlight({"enable"})'
        BY <1>1, <4>6, LoneReplyNone DEF TableInv, ComponentsCalls
      <4> QED
        BY <4>1, <4>4, <4>7, ChainEmpty
    <3> QED
      BY <3>3, <3>4
  <2> QED
    BY <1>6, <1>7, <2>2, <2>3, <2>4 DEF SwitchesInTurn
<1> QED
  BY <1>1, <1>6, <1>8, <1>9, <1>10, <1>11 DEF TableInv

-----------------------------------------------------------------------------
(* The handlers of the global configuration *)

LEMMA GlobalBusyKept ==
  ASSUME GlobalBusy,
         view'.loading => view.loading /\ LeftAlone("config"),
         view'.saving => \/ view.saving /\ LeftAlone("putConfig")
                         \/ \E a : Flying("putConfig", a, calls'),
         view'.offline => \/ view.offline /\ LeftAlone("offline")
                          \/ \E a : Flying("offline", a, calls'),
         view'.initializing => \/ /\ view.initializing
                                  /\ LeftAlone("install") /\ LeftAlone("offline")
                               \/ \E a : Flying("install", a, calls')
                               \/ Flying("offline", "install", calls'),
         view'.verifying => \/ view.verifying /\ LeftAlone("verify") /\ view'.alert = view.alert
                            \/ \E a : Flying("verify", a, calls')
                            \/ view'.alert
  PROVE  GlobalBusy'
<1>1. ASSUME NEW op, LeftAlone(op) PROVE InFlight({op}) => InFlight({op})'
  BY <1>1, FlightFlies DEF LeftAlone
<1>2. LeftAlone("offline") /\ Flying("offline", "install", calls) =>
        Flying("offline", "install", calls')
  BY DEF LeftAlone
<1>3. (view'.loading => InFlight({"config"})') /\ (view'.saving => InFlight({"putConfig"})')
  BY <1>1, FlightFlies DEF GlobalBusy
<1>4. view'.offline => InFlight({"offline"})'
  BY <1>1, FlightFlies DEF GlobalBusy
<1>5. view'.initializing => InFlight({"install"})' \/ Flying("offline", "install", calls')
  BY <1>1, <1>2, FlightFlies DEF GlobalBusy
<1>6. view'.verifying => InFlight({"verify"})' \/ view'.alert
  BY <1>1, FlightFlies DEF GlobalBusy
<1> QED
  BY <1>3, <1>4, <1>5, <1>6 DEF GlobalBusy

LEMMA GlobalMounted ==
  ASSUME D!EnterGlobal PROVE CardsInv'
<1>1. Mount("Global", view', None, <<Call("config", None), Call("offline", "mount")>>)
  BY DeploymentConsole DEF D!EnterGlobal, Mount, D!Mount
<1>2. /\ AreCalls(calls')
      /\ \A o, a : Flying(o, a, calls') <=>
           (o = "config" /\ a = None) \/ (o = "offline" /\ a = "mount")
  BY <1>1, MountTwo
<1>3. page' = "Global"
  BY <1>1 DEF Mount
<1>4. view' = [loading |-> TRUE, cfg |-> "defaults", saving |-> FALSE, offline |-> TRUE,
           initializing |-> FALSE, verifying |-> FALSE, alert |-> FALSE, calm |-> TRUE]
  BY DEF D!EnterGlobal, D!Mount
<1>5. GlobalShape'
  BY <1>2, <1>4 DEF GlobalShape
<1>6. GlobalBusy'
  <2>1. InFlight({"config"})' /\ InFlight({"offline"})'
    BY <1>2, FlightFlies
  <2> QED
    BY <1>4, <2>1 DEF GlobalBusy
<1>7. ConfigServed'
  <2>1. \A a : ~Flying("putConfig", a, calls')
    BY <1>2
  <2> QED
    BY <1>4, <2>1 DEF ConfigServed
<1> QED
  BY <1>3, <1>5, <1>6, <1>7 DEF CardsInv

LEMMA ConfigShown ==
  ASSUME CardsInv, NEW i \in DOMAIN calls, NEW ok \in BOOLEAN, D!ConfigArrives(i, ok)
  PROVE  CardsInv'
<1> DEFINE c == IF ok THEN "server" ELSE view.cfg
           b == view.calm /\ ok
<1>1. /\ calls[i].op = "config" /\ Reply(i, <<>>) /\ page' = page
      /\ view' = [view EXCEPT !.cfg = c, !.loading = FALSE, !.calm = b]
  BY DeploymentConsole DEF D!ConfigArrives, D!Answer
<1>2. /\ c \in {"defaults", "server"} /\ b \in BOOLEAN
      /\ b => view.calm /\ c = "server"
  BY DEF CardsInv, GlobalShape
<1> HIDE DEF c, b
<1>3. AreCalls(calls') /\ \A op : op # "config" => LeftAlone(op)
  BY <1>1, ReplyNone, ReplyNoneLeaves DEF CardsInv, GlobalShape
<1>4. /\ DOMAIN view' = DOMAIN view /\ view'.cfg = c /\ view'.loading = FALSE
      /\ view'.saving = view.saving /\ view'.offline = view.offline
      /\ view'.initializing = view.initializing /\ view'.verifying = view.verifying
      /\ view'.alert = view.alert /\ view'.calm = b
  BY <1>1 DEF CardsInv, GlobalShape
<1>5. GlobalShape'
  BY <1>2, <1>3, <1>4 DEF CardsInv, GlobalShape
<1>6. GlobalBusy'
  BY <1>3, <1>4, GlobalBusyKept DEF CardsInv
<1>7. ConfigServed'
  BY <1>2, <1>3, <1>4 DEF CardsInv, ConfigServed, LeftAlone
<1> QED
  BY <1>1, <1>5, <1>6, <1>7 DEF CardsInv

\* A button of the cards sends its call and spins.
LEMMA CardClicked ==
  ASSUME CardsInv, \/ D!save \/ D!initialize \/ D!verify
  PROVE  CardsInv'
<1>1. CASE D!save
  <2>1. /\ page' = page /\ ~view.loading /\ view' = [view EXCEPT !.saving = TRUE]
        /\ Send(<<Call("putConfig", view.cfg)>>)
    BY <1>1, DeploymentConsole DEF D!save, D!User
  <2>2. /\ AreCalls(calls') /\ \A op : op # "putConfig" => LeftAlone(op)
        /\ Flying("putConfig", view.cfg, calls')
        /\ \A a : Flying("putConfig", a, calls') => Flying("putConfig", a, calls) \/ a = view.cfg
    BY <2>1, SendOne, SendLeaves DEF CardsInv, GlobalShape
  <2>3. /\ DOMAIN view' = DOMAIN view /\ view'.cfg = view.cfg /\ view'.loading = view.loading
        /\ view'.saving = TRUE /\ view'.offline = view.offline
        /\ view'.initializing = view.initializing /\ view'.verifying = view.verifying
        /\ view'.alert = view.alert /\ view'.calm = view.calm
    BY <2>1 DEF CardsInv, GlobalShape
  <2>4. GlobalShape'
    BY <2>2, <2>3 DEF CardsInv, GlobalShape
  <2>5. GlobalBusy'
    BY <2>2, <2>3, GlobalBusyKept DEF CardsInv
  <2>6. ConfigServed'
    BY <2>1, <2>2, <2>3 DEF CardsInv, ConfigServed
  <2> QED
    BY <2>1, <2>4, <2>5, <2>6 DEF CardsInv
<1>2. CASE D!initialize
  <2>1. /\ page' = page /\ view' = [view EXCEPT !.initializing = TRUE]
        /\ Send(<<Call("install", None)>>)
    BY <1>2, DeploymentConsole DEF D!initialize, D!User
  <2>2. /\ AreCalls(calls') /\ \A op : op # "install" => LeftAlone(op)
        /\ Flying("install", None, calls')
    BY <2>1, SendOne, SendLeaves DEF CardsInv, GlobalShape
  <2>3. /\ DOMAIN view' = DOMAIN view /\ view'.cfg = view.cfg /\ view'.loading = view.loading
        /\ view'.saving = view.saving /\ view'.offline = view.offline
        /\ view'.initializing = TRUE /\ view'.verifying = view.verifying
        /\ view'.alert = view.alert /\ view'.calm = view.calm
    BY <2>1 DEF CardsInv, GlobalShape
  <2>4. GlobalShape'
    BY <2>2, <2>3 DEF CardsInv, GlobalShape
  <2>5. GlobalBusy'
    BY <2>2, <2>3, GlobalBusyKept DEF CardsInv
  <2>6. ConfigServed'
    BY <2>2, <2>3 DEF CardsInv, ConfigServed, LeftAlone
  <2> QED
    BY <2>1, <2>4, <2>5, <2>6 DEF CardsInv
<1>3. CASE D!verify
  <2>1. /\ page' = page /\ view' = [view EXCEPT !.verifying = TRUE]
        /\ Send(<<Call("verify", None)>>)
    BY <1>3, DeploymentConsole DEF D!verify, D!User
  <2>2. /\ AreCalls(calls') /\ \A op : op # "verify" => LeftAlone(op)
        /\ Flying("verify", None, calls')
    BY <2>1, SendOne, SendLeaves DEF CardsInv, GlobalShape
  <2>3. /\ DOMAIN view' = DOMAIN view /\ view'.cfg = view.cfg /\ view'.loading = view.loading
        /\ view'.saving = view.saving /\ view'.offline = view.offline
        /\ view'.initializing = view.initializing /\ view'.verifying = TRUE
        /\ view'.alert = view.alert /\ view'.calm = view.calm
    BY <2>1 DEF CardsInv, GlobalShape
  <2>4. GlobalShape'
    BY <2>2, <2>3 DEF CardsInv, GlobalShape
  <2>5. GlobalBusy'
    BY <2>2, <2>3, GlobalBusyKept DEF CardsInv
  <2>6. ConfigServed'
    BY <2>2, <2>3 DEF CardsInv, ConfigServed, LeftAlone
  <2> QED
    BY <2>1, <2>4, <2>5, <2>6 DEF CardsInv
<1> QED
  BY <1>1, <1>2, <1>3

\* The end of an installation asks for the status of the bundle again.
LEMMA BundleInstalled ==
  ASSUME CardsInv, NEW i \in DOMAIN calls, NEW ok \in BOOLEAN, D!InstallAnswered(i, ok)
  PROVE  CardsInv'
<1> DEFINE f == ok \/ view.offline
<1>1. /\ calls[i].op = "install" /\ page' = page
      /\ Reply(i, IF ok THEN <<Call("offline", "install")>> ELSE <<>>)
      /\ view' = [view EXCEPT !.offline = f, !.initializing = ok]
  BY DeploymentConsole DEF D!InstallAnswered, D!Answer
<1>2. f \in BOOLEAN /\ (f /\ ~ok => view.offline)
  BY DEF CardsInv, GlobalShape
<1> HIDE DEF f
<1>3. /\ AreCalls(calls') /\ \A op : op \notin {"install", "offline"} => LeftAlone(op)
      /\ ok => Flying("offline", "install", calls')
      /\ ~ok => LeftAlone("offline")
  <2>1. CASE ok
    <3>1. Reply(i, <<Call("offline", "install")>>)
      BY <1>1, <2>1
    <3>2. AreCalls(<<Call("offline", "install")>>)
          /\ Flying("offline", "install", <<Call("offline", "install")>>)
      BY OneCall
    <3>3. AreCalls(calls') /\ Flying("offline", "install", calls')
      BY <3>1, <3>2, ReplyTakes DEF CardsInv, GlobalShape
    <3>4. \A op : op # "install" /\ op # "offline" => LeftAlone(op)
      BY <1>1, <3>1, ReplyOneLeaves DEF CardsInv, GlobalShape
    <3> QED
      BY <2>1, <3>3, <3>4
  <2>2. CASE ~ok
    <3>1. Reply(i, <<>>)
      BY <1>1, <2>2
    <3> QED
      BY <1>1, <2>2, <3>1, ReplyNone, ReplyNoneLeaves DEF CardsInv, GlobalShape
  <2> QED
    BY <2>1, <2>2
<1>4. /\ DOMAIN view' = DOMAIN view /\ view'.cfg = view.cfg /\ view'.loading = view.loading
      /\ view'.saving = view.saving /\ view'.offline = f
      /\ view'.initializing = ok /\ view'.verifying = view.verifying
      /\ view'.alert = view.alert /\ view'.calm = view.calm
  BY <1>1 DEF CardsInv, GlobalShape
<1>5. GlobalShape'
  BY <1>2, <1>3, <1>4 DEF CardsInv, GlobalShape
<1>6. GlobalBusy'
  BY <1>2, <1>3, <1>4, GlobalBusyKept DEF CardsInv
<1>7. ConfigServed'
  BY <1>3, <1>4 DEF CardsInv, ConfigServed, LeftAlone
<1> QED
  BY <1>1, <1>5, <1>6, <1>7 DEF CardsInv

\* The status asked for at first does not end the spinner of an installation.
LEMMA BundleShown ==
  ASSUME CardsInv, NEW i \in DOMAIN calls, D!loadOffline(i)
  PROVE  CardsInv'
<1> DEFINE b == view.initializing /\ calls[i].arg # "install"
<1>1. /\ calls[i].op = "offline" /\ Reply(i, <<>>) /\ page' = page
      /\ view' = [view EXCEPT !.offline = FALSE, !.initializing = b]
  BY DeploymentConsole DEF D!loadOffline, D!Answer
<1>2. b \in BOOLEAN /\ (b => view.initializing /\ calls[i].arg # "install")
  BY DEF CardsInv, GlobalShape
<1> HIDE DEF b
<1>3. AreCalls(calls') /\ \A op : op # "offline" => LeftAlone(op)
  BY <1>1, ReplyNone, ReplyNoneLeaves DEF CardsInv, GlobalShape
<1>4. calls[i].arg # "install" /\ Flying("offline", "install", calls) =>
        Flying("offline", "install", calls')
  BY <1>1, NoCall, ReplyKeeps DEF CardsInv, GlobalShape
<1>5. /\ DOMAIN view' = DOMAIN view /\ view'.cfg = view.cfg /\ view'.loading = view.loading
      /\ view'.saving = view.saving /\ view'.offline = FALSE
      /\ view'.initializing = b /\ view'.verifying = view.verifying
      /\ view'.alert = view.alert /\ view'.calm = view.calm
  BY <1>1 DEF CardsInv, GlobalShape
<1>6. GlobalShape'
  BY <1>2, <1>3, <1>5 DEF CardsInv, GlobalShape
<1>7. GlobalBusy'
  <2>1. InFlight({"install"}) => \E a : Flying("install", a, calls')
    BY <1>3, FlightFlies DEF LeftAlone
  <2>2. view'.initializing =>
          (\E a : Flying("install", a, calls')) \/ Flying("offline", "install", calls')
    BY <1>2, <1>4, <1>5, <2>1 DEF CardsInv, GlobalBusy
  <2> QED
    BY <1>3, <1>5, <2>2, GlobalBusyKept DEF CardsInv
<1>8. ConfigServed'
  BY <1>3, <1>5 DEF CardsInv, ConfigServed, LeftAlone
<1> QED
  BY <1>1, <1>6, <1>7, <1>8 DEF CardsInv

LEMMA BundleVerified ==
  ASSUME CardsInv, NEW i \in DOMAIN calls, NEW missing \in BOOLEAN,
         D!VerifyAnswered(i, missing)
  PROVE  CardsInv'
<1>1. /\ calls[i].op = "verify" /\ Reply(i, <<>>) /\ page' = page
      /\ view' = [view EXCEPT !.verifying = missing, !.alert = missing]
  BY DeploymentConsole DEF D!VerifyAnswered, D!Answer
<1>2. AreCalls(calls') /\ \A op : op # "verify" => LeftAlone(op)
  BY <1>1, ReplyNone, ReplyNoneLeaves DEF CardsInv, GlobalShape
<1>3. /\ DOMAIN view' = DOMAIN view /\ view'.cfg = view.cfg /\ view'.loading = view.loading
      /\ view'.saving = view.saving /\ view'.offline = view.offline
      /\ view'.initializing = view.initializing /\ view'.verifying = missing
      /\ view'.alert = missing /\ view'.calm = view.calm
  BY <1>1 DEF CardsInv, GlobalShape
<1>4. GlobalShape'
  BY <1>2, <1>3 DEF CardsInv, GlobalShape
<1>5. GlobalBusy'
  BY <1>2, <1>3, GlobalBusyKept DEF CardsInv
<1>6. ConfigServed'
  BY <1>2, <1>3 DEF CardsInv, ConfigServed, LeftAlone
<1> QED
  BY <1>1, <1>4, <1>5, <1>6 DEF CardsInv

LEMMA AlertClosed ==
  ASSUME CardsInv, D!CloseAlert PROVE CardsInv'
<1>1. UNCHANGED <<page, calls>> /\ view' = [view EXCEPT !.verifying = FALSE, !.alert = FALSE]
  BY DEF D!CloseAlert, D!User
<1>2. AreCalls(calls') /\ \A op : LeftAlone(op)
  BY <1>1, AllLeft DEF CardsInv, GlobalShape
<1>3. /\ DOMAIN view' = DOMAIN view /\ view'.cfg = view.cfg /\ view'.loading = view.loading
      /\ view'.saving = view.saving /\ view'.offline = view.offline
      /\ view'.initializing = view.initializing /\ view'.verifying = FALSE
      /\ view'.alert = FALSE /\ view'.calm = view.calm
  BY <1>1 DEF CardsInv, GlobalShape
<1>4. GlobalShape'
  BY <1>2, <1>3 DEF CardsInv, GlobalShape
<1>5. GlobalBusy'
  BY <1>2, <1>3, GlobalBusyKept DEF CardsInv
<1>6. ConfigServed'
  BY <1>2, <1>3 DEF CardsInv, ConfigServed, LeftAlone
<1> QED
  BY <1>1, <1>4, <1>5, <1>6 DEF CardsInv

LEMMA ConfigStored ==
  ASSUME CardsInv, NEW i \in DOMAIN calls, D!ConfigSaved(i)
  PROVE  CardsInv'
<1>1. /\ calls[i].op = "putConfig" /\ Reply(i, <<>>) /\ page' = page
      /\ view' = [view EXCEPT !.saving = FALSE]
  BY DeploymentConsole DEF D!ConfigSaved, D!Answer
<1>2. /\ AreCalls(calls') /\ \A op : op # "putConfig" => LeftAlone(op)
      /\ \A a : Flying("putConfig", a, calls') => Flying("putConfig", a, calls)
  BY <1>1, ReplyNone, ReplyNoneLeaves DEF CardsInv, GlobalShape
<1>3. /\ DOMAIN view' = DOMAIN view /\ view'.cfg = view.cfg /\ view'.loading = view.loading
      /\ view'.saving = FALSE /\ view'.offline = view.offline
      /\ view'.initializing = view.initializing /\ view'.verifying = view.verifying
      /\ view'.alert = view.alert /\ view'.calm = view.calm
  BY <1>1 DEF CardsInv, GlobalShape
<1>4. GlobalShape'
  BY <1>2, <1>3 DEF CardsInv, GlobalShape
<1>5. GlobalBusy'
  BY <1>2, <1>3, GlobalBusyKept DEF CardsInv
<1>6. ConfigServed'
  BY <1>2, <1>3 DEF CardsInv, ConfigServed
<1> QED
  BY <1>1, <1>4, <1>5, <1>6 DEF CardsInv

-----------------------------------------------------------------------------
(* The handlers of the list of runs and its dialog *)

FormType == [mode : Modes, component : Components \cup {None},
             hosts : Components \cup {None}, dry : BOOLEAN]

LEMMA RunsBusyKept ==
  ASSUME RunsBusy,
         view'.loading => \/ view.loading /\ LeftAlone("runs")
                          \/ \E a : Flying("runs", a, calls'),
         view'.fetching => \/ view.fetching /\ LeftAlone("choices")
                           \/ \E a : Flying("choices", a, calls'),
         view'.submitting => \/ view.submitting /\ LeftAlone("createRun")
                             \/ \E a : Flying("createRun", a, calls'),
         view'.previewing => \/ view.previewing /\ LeftAlone("preview")
                             \/ \E a : Flying("preview", a, calls')
  PROVE  RunsBusy'
<1>1. ASSUME NEW op, LeftAlone(op) PROVE InFlight({op}) => InFlight({op})'
  BY <1>1, FlightFlies DEF LeftAlone
<1> QED
  BY <1>1, FlightFlies DEF RunsBusy

LEMMA FormHostsKept ==
  ASSUME FormHosts, view'.form = view.form, view'.calm => view.calm,
         LeftAlone("formTargets"), LeftAlone("createRun"), LeftAlone("preview")
  PROVE  FormHosts'
  BY DEF FormHosts, LeftAlone

LEMMA PlanKept ==
  ASSUME PlanOfForm, view'.form.mode = view.form.mode,
         view'.form.component = view.form.component,
         view'.preview \in {view.preview, None}, view'.calm => view.calm
  PROVE  PlanOfForm'
<1>1. D!Plan(D!buildBody)' = D!Plan(D!buildBody)
  BY DEF D!Plan, D!buildBody
<1> QED
  BY <1>1 DEF PlanOfForm

\* What is sent from the form has its hosts.
LEMMA BodyOfForm ==
  ASSUME RunsShape
  PROVE  /\ D!buildBody \in RunBodies
         /\ OwnHosts(view.form.component, view.form.hosts) =>
              OwnHosts(D!buildBody.component, D!buildBody.hosts)
<1> DEFINE c == IF view.form.mode = "cleanup" THEN None ELSE view.form.component
           h == IF view.form.mode = "cleanup" THEN None ELSE view.form.hosts
<1>1. D!buildBody = [mode |-> view.form.mode, dry |-> view.form.dry, component |-> c, hosts |-> h]
  BY DEF D!buildBody
<1>2. /\ view.form.mode \in Modes /\ view.form.dry \in BOOLEAN
      /\ c \in Components \cup {None} /\ h \in Components \cup {None}
  BY DEF RunsShape
<1>3. OwnHosts(view.form.component, view.form.hosts) => OwnHosts(c, h)
  BY DEF OwnHosts
<1> HIDE DEF c, h
<1> QED
  BY <1>1, <1>2, <1>3 DEF RunBodies

LEMMA RunsMounted ==
  ASSUME D!DeploymentConstants, D!EnterRuns PROVE RunsPageInv'
<1>1. PICK blocked \in SUBSET Components :
        /\ Mount("Runs", view', None, <<Call("runs", None)>>)
        /\ view' = [loading |-> TRUE, dialog |-> FALSE, fetching |-> FALSE, listed |-> FALSE,
               submitting |-> FALSE, previewing |-> FALSE, preview |-> None,
               form |-> D!EmptyForm, blocked |-> blocked, calm |-> TRUE]
  BY DeploymentConsole DEF D!EnterRuns, Mount, D!Mount
<1>2. /\ AreCalls(calls') /\ page' = "Runs"
      /\ \A o, a : Flying(o, a, calls') <=> o = "runs" /\ a = None
  BY <1>1, MountOne DEF Mount
<1>3. D!EmptyForm \in FormType /\ D!EmptyForm.component = None
  BY DEF D!EmptyForm, FormType, D!DeploymentConstants
<1>4. RunsShape'
  BY <1>1, <1>2, <1>3 DEF RunsShape, FormType
<1>5. RunsBusy'
  <2>1. InFlight({"runs"})'
    BY <1>2, FlightFlies
  <2> QED
    BY <1>1, <2>1 DEF RunsBusy
<1>6. FormHosts'
  <2>1. \A a : ~Flying("createRun", a, calls') /\ ~Flying("preview", a, calls')
    BY <1>2
  <2>2. view'.form.component = None
    BY <1>1, <1>3
  <2> QED
    BY <2>1, <2>2 DEF FormHosts, OwnHosts
<1>7. PlanOfForm'
  BY <1>1 DEF PlanOfForm
<1> QED
  BY <1>2, <1>4, <1>5, <1>6, <1>7 DEF RunsPageInv

\* A step in which the form stays as it is, and so do the calls it was sent with.
LEMMA FormStays ==
  ASSUME RunsPageInv, page' = page, AreCalls(calls'), DOMAIN view' = DOMAIN view,
         view'.loading \in BOOLEAN, view'.dialog \in BOOLEAN, view'.fetching \in BOOLEAN,
         view'.listed \in BOOLEAN, view'.submitting = view.submitting,
         view'.previewing = view.previewing, view'.preview = view.preview,
         view'.form = view.form, view'.calm = view.calm,
         LeftAlone("formTargets"), LeftAlone("createRun"), LeftAlone("preview"),
         view'.loading => \/ view.loading /\ LeftAlone("runs")
                          \/ \E a : Flying("runs", a, calls'),
         view'.fetching => \/ view.fetching /\ LeftAlone("choices")
                           \/ \E a : Flying("choices", a, calls')
  PROVE  RunsPageInv'
<1>1. RunsShape'
  BY DEF RunsPageInv, RunsShape, LeftAlone
<1>2. RunsBusy'
  BY RunsBusyKept DEF RunsPageInv
<1>3. FormHosts' /\ PlanOfForm'
  BY FormHostsKept, PlanKept DEF RunsPageInv
<1> QED
  BY <1>1, <1>2, <1>3 DEF RunsPageInv

LEMMA RunsListed ==
  ASSUME RunsPageInv, \/ D!loadRuns \/ D!CloseDialog
                      \/ \E i \in DOMAIN calls :
                           \/ D!RunsArrive(i)
                           \/ \E ok \in BOOLEAN : D!ChoicesArrive(i, ok)
  PROVE  RunsPageInv'
<1> USE DEF RunsPageInv, RunsShape
<1>1. CASE D!loadRuns
  <2>1. /\ page' = page /\ view' = [view EXCEPT !.loading = TRUE]
        /\ Send(<<Call("runs", None)>>)
    BY <1>1, DeploymentConsole DEF D!loadRuns, D!Load, D!User
  <2>2. /\ AreCalls(calls') /\ Flying("runs", None, calls')
        /\ \A o : o # "runs" => LeftAlone(o)
    BY <2>1, SendOne, SendLeaves
  <2>3. /\ DOMAIN view' = DOMAIN view /\ view'.loading = TRUE /\ view'.dialog = view.dialog
        /\ view'.fetching = view.fetching /\ view'.listed = view.listed
        /\ view'.submitting = view.submitting /\ view'.previewing = view.previewing
        /\ view'.preview = view.preview /\ view'.form = view.form /\ view'.calm = view.calm
    BY <2>1
  <2> QED
    BY <2>1, <2>2, <2>3, FormStays
<1>2. CASE D!CloseDialog
  <2>1. UNCHANGED <<page, calls>> /\ view' = [view EXCEPT !.dialog = FALSE]
    BY <1>2 DEF D!CloseDialog, D!User
  <2>2. AreCalls(calls') /\ \A o : LeftAlone(o)
    BY <2>1, AllLeft
  <2>3. /\ DOMAIN view' = DOMAIN view /\ view'.loading = view.loading /\ view'.dialog = FALSE
        /\ view'.fetching = view.fetching /\ view'.listed = view.listed
        /\ view'.submitting = view.submitting /\ view'.previewing = view.previewing
        /\ view'.preview = view.preview /\ view'.form = view.form /\ view'.calm = view.calm
    BY <2>1
  <2> QED
    BY <2>1, <2>2, <2>3, FormStays
<1>3. ASSUME NEW i \in DOMAIN calls, D!RunsArrive(i) PROVE RunsPageInv'
  <2>1. /\ page' = page /\ calls[i].op = "runs" /\ Reply(i, <<>>)
        /\ view' = [view EXCEPT !.loading = FALSE]
    BY <1>3, DeploymentConsole DEF D!RunsArrive, D!Answer
  <2>2. AreCalls(calls') /\ \A o : o # "runs" => LeftAlone(o)
    BY <2>1, ReplyNone, ReplyNoneLeaves
  <2>3. /\ DOMAIN view' = DOMAIN view /\ view'.loading = FALSE /\ view'.dialog = view.dialog
        /\ view'.fetching = view.fetching /\ view'.listed = view.listed
        /\ view'.submitting = view.submitting /\ view'.previewing = view.previewing
        /\ view'.preview = view.preview /\ view'.form = view.form /\ view'.calm = view.calm
    BY <2>1
  <2> QED
    BY <2>1, <2>2, <2>3, FormStays
<1>4. ASSUME NEW i \in DOMAIN calls, NEW ok \in BOOLEAN, D!ChoicesArrive(i, ok)
      PROVE  RunsPageInv'
  <2> DEFINE f == view.listed \/ ok
  <2>1. /\ page' = page /\ calls[i].op = "choices" /\ Reply(i, <<>>)
        /\ view' = [view EXCEPT !.fetching = FALSE, !.listed = f]
    BY <1>4, DeploymentConsole DEF D!ChoicesArrive, D!Answer
  <2>2. f \in BOOLEAN
    OBVIOUS
  <2> HIDE DEF f
  <2>3. AreCalls(calls') /\ \A o : o # "choices" => LeftAlone(o)
    BY <2>1, ReplyNone, ReplyNoneLeaves
  <2>4. /\ DOMAIN view' = DOMAIN view /\ view'.loading = view.loading
        /\ view'.dialog = view.dialog /\ view'.fetching = FALSE /\ view'.listed = f
        /\ view'.submitting = view.submitting /\ view'.previewing = view.previewing
        /\ view'.preview = view.preview /\ view'.form = view.form /\ view'.calm = view.calm
    BY <2>1
  <2> QED
    BY <2>1, <2>2, <2>3, <2>4, FormStays
<1> QED
  BY <1>1, <1>2, <1>3, <1>4

\* A form without a plan: whatever was picked in it just now has no hosts yet.
LEMMA FormPicked ==
  ASSUME RunsPageInv, page' = page, AreCalls(calls'), DOMAIN view' = DOMAIN view,
         view'.loading = view.loading, view'.dialog \in BOOLEAN, view'.fetching \in BOOLEAN,
         view'.listed = view.listed, view'.submitting = view.submitting,
         view'.previewing = view.previewing, view'.preview = None,
         view'.form \in FormType, view'.calm = view.calm, view'.form.hosts = None,
         LeftAlone("runs"), LeftAlone("createRun"), LeftAlone("preview"),
         view'.fetching => \/ view.fetching /\ LeftAlone("choices")
                           \/ \E a : Flying("choices", a, calls'),
         \A a : Flying("formTargets", a, calls') => a \in Components,
         view'.form.component = None \/ Asks("formTargets", view'.form.component, calls')
  PROVE  RunsPageInv'
<1>1. RunsShape'
  BY DEF RunsPageInv, RunsShape, LeftAlone, FormType
<1>2. RunsBusy'
  BY RunsBusyKept DEF RunsPageInv
<1>3. FormHosts'
  <2>1. OwnHosts(view'.form.component, view'.form.hosts)
    BY DEF OwnHosts
  <2> QED
    BY <2>1 DEF RunsPageInv, FormHosts, LeftAlone
<1>4. PlanOfForm'
  BY DEF PlanOfForm
<1> QED
  BY <1>1, <1>2, <1>3, <1>4 DEF RunsPageInv

LEMMA DialogOpens ==
  ASSUME D!DeploymentConstants, RunsPageInv, D!openDialog PROVE RunsPageInv'
<1>1. /\ page' = page /\ Send(<<Call("choices", None)>>)
      /\ view' = [view EXCEPT !.dialog = TRUE, !.fetching = TRUE, !.preview = None,
                              !.form = D!EmptyForm]
  BY DeploymentConsole DEF D!openDialog, D!User
<1>2. D!EmptyForm \in FormType /\ D!EmptyForm.component = None /\ D!EmptyForm.hosts = None
  BY DEF D!EmptyForm, FormType, D!DeploymentConstants
<1>3. /\ AreCalls(calls') /\ Flying("choices", None, calls')
      /\ \A o : o # "choices" => LeftAlone(o)
  BY <1>1, SendOne, SendLeaves DEF RunsPageInv, RunsShape
<1>4. /\ DOMAIN view' = DOMAIN view /\ view'.loading = view.loading /\ view'.dialog = TRUE
      /\ view'.fetching = TRUE /\ view'.listed = view.listed
      /\ view'.submitting = view.submitting /\ view'.previewing = view.previewing
      /\ view'.preview = None /\ view'.form = D!EmptyForm /\ view'.calm = view.calm
  BY <1>1 DEF RunsPageInv, RunsShape
<1>5. \A a : Flying("formTargets", a, calls') => a \in Components
  BY <1>3 DEF RunsPageInv, RunsShape, LeftAlone
<1> QED
  BY <1>1, <1>2, <1>3, <1>4, <1>5, FormPicked

LEMMA ModePicked ==
  ASSUME RunsPageInv, NEW m \in Modes, D!PickMode(m) PROVE RunsPageInv'
<1> DEFINE f == [view.form EXCEPT !.mode = m, !.component = None, !.hosts = None]
<1>1. UNCHANGED <<page, calls>> /\ view' = [view EXCEPT !.preview = None, !.form = f]
  BY DEF D!PickMode, D!User
<1>2. f \in FormType /\ f.component = None /\ f.hosts = None
  BY DEF RunsPageInv, RunsShape, FormType
<1> HIDE DEF f
<1>3. AreCalls(calls') /\ \A o : LeftAlone(o)
  BY <1>1, AllLeft DEF RunsPageInv, RunsShape
<1>4. /\ DOMAIN view' = DOMAIN view /\ view'.loading = view.loading
      /\ view'.dialog = view.dialog /\ view'.fetching = view.fetching
      /\ view'.listed = view.listed
      /\ view'.submitting = view.submitting /\ view'.previewing = view.previewing
      /\ view'.preview = None /\ view'.form = f /\ view'.calm = view.calm
  BY <1>1 DEF RunsPageInv, RunsShape
<1>5. \A a : Flying("formTargets", a, calls') => a \in Components
  BY <1>3 DEF RunsPageInv, RunsShape, LeftAlone
<1>6. view'.dialog \in BOOLEAN /\ view'.fetching \in BOOLEAN
  BY <1>4 DEF RunsPageInv, RunsShape
<1> QED
  BY <1>1, <1>2, <1>3, <1>4, <1>5, <1>6, FormPicked

LEMMA ComponentPicked ==
  ASSUME RunsPageInv, NEW c \in Components, D!onComponentChange(c) PROVE RunsPageInv'
<1> DEFINE f == [view.form EXCEPT !.component = c, !.hosts = None]
<1>1. /\ page' = page /\ Send(<<Call("formTargets", c)>>)
      /\ view' = [view EXCEPT !.preview = None, !.form = f]
  BY DeploymentConsole DEF D!onComponentChange, D!User
<1>2. f \in FormType /\ f.component = c /\ f.hosts = None
  BY DEF RunsPageInv, RunsShape, FormType
<1> HIDE DEF f
<1>3. /\ AreCalls(calls') /\ Asks("formTargets", c, calls')
      /\ \A o : o # "formTargets" => LeftAlone(o)
      /\ \A a : Flying("formTargets", a, calls') => Flying("formTargets", a, calls) \/ a = c
  BY <1>1, SendOne, SendLeaves, SendAsks DEF RunsPageInv, RunsShape
<1>4. /\ DOMAIN view' = DOMAIN view /\ view'.loading = view.loading
      /\ view'.dialog = view.dialog /\ view'.fetching = view.fetching
      /\ view'.listed = view.listed
      /\ view'.submitting = view.submitting /\ view'.previewing = view.previewing
      /\ view'.preview = None /\ view'.form = f /\ view'.calm = view.calm
  BY <1>1 DEF RunsPageInv, RunsShape
<1>5. \A a : Flying("formTargets", a, calls') => a \in Components
  BY <1>3 DEF RunsPageInv, RunsShape
<1>6. view'.dialog \in BOOLEAN /\ view'.fetching \in BOOLEAN
  BY <1>4 DEF RunsPageInv, RunsShape
<1> QED
  BY <1>1, <1>2, <1>3, <1>4, <1>5, <1>6, FormPicked

LEMMA FormTargetsCome ==
  ASSUME RunsPageInv, NEW i \in DOMAIN calls, NEW ok \in BOOLEAN,
         D!FormTargetsArrive(i, ok)
  PROVE  RunsPageInv'
<1> DEFINE a == calls[i].arg
           h == IF ok THEN a ELSE view.form.hosts
           b == IF ok THEN view.calm /\ calls[i].last ELSE view.calm
<1>1. /\ page' = page /\ calls[i].op = "formTargets" /\ Reply(i, <<>>)
      /\ ok => view' = [view EXCEPT !.form.hosts = a, !.calm = view.calm /\ calls[i].last]
      /\ ~ok => view' = view
  BY DeploymentConsole DEF D!FormTargetsArrive, D!Answer
<1>2. a \in Components
  <2>1. Flying("formTargets", a, calls)
    BY <1>1 DEF Flying
  <2> QED
    BY <2>1 DEF RunsPageInv, RunsShape
<1>3. /\ h \in Components \cup {None} /\ b \in BOOLEAN
      /\ b => view.calm /\ (h = view.form.hosts \/ (h = a /\ calls[i].last))
  BY <1>2 DEF RunsPageInv, RunsShape
<1>4. /\ DOMAIN view' = DOMAIN view /\ view'.loading = view.loading
      /\ view'.dialog = view.dialog /\ view'.fetching = view.fetching
      /\ view'.listed = view.listed
      /\ view'.submitting = view.submitting /\ view'.previewing = view.previewing
      /\ view'.preview = view.preview /\ view'.calm = b
      /\ view'.form \in FormType /\ view'.form.mode = view.form.mode
      /\ view'.form.component = view.form.component /\ view'.form.hosts = h
  <2>1. CASE ok
    <3>1. view' = [view EXCEPT !.form.hosts = h, !.calm = b] /\ h = a
      BY <1>1, <2>1
    <3> HIDE DEF h, b
    <3>2. /\ DOMAIN view' = DOMAIN view /\ view'.loading = view.loading
          /\ view'.dialog = view.dialog /\ view'.fetching = view.fetching
          /\ view'.listed = view.listed
          /\ view'.submitting = view.submitting /\ view'.previewing = view.previewing
          /\ view'.preview = view.preview /\ view'.calm = b
          /\ view'.form = [view.form EXCEPT !.hosts = h]
      BY <3>1 DEF RunsPageInv, RunsShape
    <3> QED
      BY <1>3, <3>2 DEF RunsPageInv, RunsShape, FormType
  <2>2. CASE ~ok
    BY <1>1, <2>2 DEF RunsPageInv, RunsShape, FormType
  <2> QED
    BY <2>1, <2>2
<1> HIDE DEF h, b
<1>5. /\ AreCalls(calls') /\ \A o : o # "formTargets" => LeftAlone(o)
      /\ \A x : Flying("formTargets", x, calls') => Flying("formTargets", x, calls)
      /\ \A x : Asks("formTargets", x, calls) => Asks("formTargets", x, calls')
  BY <1>1, ReplyNone, ReplyNoneLeaves, ReplyAsksNone DEF RunsPageInv, RunsShape
<1>6. RunsShape'
  BY <1>1, <1>3, <1>4, <1>5 DEF RunsPageInv, RunsShape, FormType, LeftAlone
<1>7. RunsBusy'
  BY <1>4, <1>5, RunsBusyKept DEF RunsPageInv
<1>8. FormHosts'
  <2>1. ASSUME b
        PROVE  /\ \/ view.form.component = None
                  \/ Asks("formTargets", view.form.component, calls')
               /\ OwnHosts(view.form.component, h)
    <3>1. /\ view.form.component = None
             \/ Asks("formTargets", view.form.component, calls)
          /\ OwnHosts(view.form.component, view.form.hosts)
      BY <1>3, <2>1 DEF RunsPageInv, FormHosts
    <3>2. CASE view.form.component = None
      BY <3>2 DEF OwnHosts
    <3>3. CASE Asks("formTargets", view.form.component, calls)
      <4>1. h = view.form.hosts \/ h = view.form.component
        BY <1>1, <1>3, <2>1, <3>3, AsksAlike
      <4> QED
        BY <1>5, <3>1, <3>3, <4>1 DEF OwnHosts
    <3> QED
      BY <3>1, <3>2, <3>3
  <2> QED
    BY <1>3, <1>4, <1>5, <2>1 DEF RunsPageInv, FormHosts, LeftAlone
<1>9. PlanOfForm'
  BY <1>3, <1>4, PlanKept DEF RunsPageInv
<1> QED
  BY <1>1, <1>6, <1>7, <1>8, <1>9 DEF RunsPageInv

LEMMA DryRunPicked ==
  ASSUME RunsPageInv, D!PickDryRun PROVE RunsPageInv'
<1> DEFINE d == ~view.form.dry
<1>1. UNCHANGED <<page, calls>> /\ view' = [view EXCEPT !.form.dry = d]
  BY DEF D!PickDryRun, D!User
<1>2. d \in BOOLEAN
  OBVIOUS
<1> HIDE DEF d
<1>3. AreCalls(calls') /\ \A o : LeftAlone(o)
  BY <1>1, AllLeft DEF RunsPageInv, RunsShape
<1>4. /\ DOMAIN view' = DOMAIN view /\ view'.loading = view.loading
      /\ view'.dialog = view.dialog /\ view'.fetching = view.fetching
      /\ view'.listed = view.listed
      /\ view'.submitting = view.submitting /\ view'.previewing = view.previewing
      /\ view'.preview = view.preview /\ view'.calm = view.calm
      /\ view'.form = [view.form EXCEPT !.dry = d]
  BY <1>1 DEF RunsPageInv, RunsShape
<1>5. /\ view'.form \in FormType /\ view'.form.mode = view.form.mode
      /\ view'.form.component = view.form.component /\ view'.form.hosts = view.form.hosts
  BY <1>2, <1>4 DEF RunsPageInv, RunsShape, FormType
<1>6. RunsShape'
  BY <1>1, <1>3, <1>4, <1>5 DEF RunsPageInv, RunsShape, FormType
<1>7. RunsBusy'
  BY <1>3, <1>4, RunsBusyKept DEF RunsPageInv
<1>8. FormHosts' /\ PlanOfForm'
  BY <1>3, <1>4, <1>5, PlanKept DEF RunsPageInv, FormHosts, LeftAlone
<1> QED
  BY <1>1, <1>6, <1>7, <1>8 DEF RunsPageInv

\* The form is sent, to be planned or to be run.
LEMMA FormSent ==
  ASSUME RunsPageInv, \/ D!doPreview \/ D!doSubmit PROVE RunsPageInv'
<1> DEFINE w == D!buildBody
<1>1. w \in RunBodies
      /\ (OwnHosts(view.form.component, view.form.hosts) => OwnHosts(w.component, w.hosts))
  BY BodyOfForm DEF RunsPageInv
<1> HIDE DEF w
<1>2. PICK op \in {"preview", "createRun"} :
        /\ page' = page /\ Send(<<Call(op, w)>>)
        /\ op = "preview" => view' = [view EXCEPT !.previewing = TRUE, !.preview = None]
        /\ op = "createRun" => view' = [view EXCEPT !.submitting = TRUE]
  <2>1. CASE D!doPreview
    <3>1. /\ page' = page /\ Send(<<Call("preview", w)>>)
          /\ view' = [view EXCEPT !.previewing = TRUE, !.preview = None]
      BY <2>1, DeploymentConsole DEF D!doPreview, D!User, w
    <3> QED
      BY <3>1
  <2>2. CASE D!doSubmit
    <3>1. /\ page' = page /\ Send(<<Call("createRun", w)>>)
          /\ view' = [view EXCEPT !.submitting = TRUE]
      BY <2>2, DeploymentConsole DEF D!doSubmit, D!User, w
    <3> QED
      BY <3>1
  <2> QED
    BY <2>1, <2>2
<1>3. /\ AreCalls(calls') /\ Flying(op, w, calls')
      /\ \A o : o # op => LeftAlone(o)
      /\ \A o, a : Flying(o, a, calls') => Flying(o, a, calls) \/ (o = op /\ a = w)
  BY <1>2, SendOne, SendLeaves DEF RunsPageInv, RunsShape
<1>4. /\ DOMAIN view' = DOMAIN view /\ view'.loading = view.loading
      /\ view'.dialog = view.dialog /\ view'.fetching = view.fetching
      /\ view'.listed = view.listed /\ view'.form = view.form /\ view'.calm = view.calm
      /\ view'.submitting = view.submitting \/ (op = "createRun" /\ view'.submitting = TRUE)
      /\ view'.previewing = view.previewing \/ (op = "preview" /\ view'.previewing = TRUE)
      /\ view'.preview \in {view.preview, None}
  BY <1>2 DEF RunsPageInv, RunsShape
<1>5. op = "createRun" => view'.previewing = view.previewing /\ LeftAlone("preview")
  BY <1>3, <1>4
<1>6. op = "preview" => view'.submitting = view.submitting /\ LeftAlone("createRun")
  BY <1>3, <1>4
<1>7. LeftAlone("runs") /\ LeftAlone("choices") /\ LeftAlone("formTargets")
  BY <1>2, <1>3
<1>8. RunsShape'
  BY <1>1, <1>3, <1>4 DEF RunsPageInv, RunsShape
<1>9. RunsBusy'
  BY <1>2, <1>3, <1>4, <1>5, <1>6, <1>7, RunsBusyKept DEF RunsPageInv
<1>10. FormHosts'
  BY <1>1, <1>3, <1>4, <1>7 DEF RunsPageInv, FormHosts, LeftAlone
<1>11. PlanOfForm'
  BY <1>4, PlanKept DEF RunsPageInv
<1> QED
  BY <1>2, <1>8, <1>9, <1>10, <1>11 DEF RunsPageInv

LEMMA PreviewShown ==
  ASSUME RunsPageInv, NEW i \in DOMAIN calls, NEW ok \in BOOLEAN, D!PreviewArrives(i, ok)
  PROVE  RunsPageInv'
<1> DEFINE plan == D!Plan(calls[i].arg)
           p == IF ok THEN plan ELSE view.preview
           b == view.calm /\ plan = D!Plan(D!buildBody)
<1>1. /\ page' = page /\ calls[i].op = "preview" /\ Reply(i, <<>>)
      /\ view' = [view EXCEPT !.previewing = FALSE, !.preview = p, !.calm = b]
  BY DeploymentConsole DEF D!PreviewArrives, D!Answer
<1>2. calls[i].arg \in RunBodies
  <2>1. Flying("preview", calls[i].arg, calls)
    BY <1>1 DEF Flying
  <2> QED
    BY <2>1 DEF RunsPageInv, RunsShape
<1>3. plan \in [mode : Modes, component : Components \cup {None}]
  BY <1>2 DEF D!Plan, RunBodies
<1>4. /\ p \in [mode : Modes, component : Components \cup {None}] \cup {None}
      /\ b \in BOOLEAN
      /\ b => view.calm /\ p \in {view.preview, D!Plan(D!buildBody)}
  BY <1>3 DEF RunsPageInv, RunsShape
<1> HIDE DEF plan, p, b
<1>5. /\ AreCalls(calls') /\ \A o : o # "preview" => LeftAlone(o)
      /\ \A x : Flying("preview", x, calls') => Flying("preview", x, calls)
  BY <1>1, ReplyNone, ReplyNoneLeaves DEF RunsPageInv, RunsShape
<1>6. /\ DOMAIN view' = DOMAIN view /\ view'.loading = view.loading
      /\ view'.dialog = view.dialog /\ view'.fetching = view.fetching
      /\ view'.listed = view.listed /\ view'.form = view.form
      /\ view'.submitting = view.submitting /\ view'.previewing = FALSE
      /\ view'.preview = p /\ view'.calm = b
  BY <1>1 DEF RunsPageInv, RunsShape
<1>7. RunsShape'
  BY <1>1, <1>4, <1>5, <1>6 DEF RunsPageInv, RunsShape, LeftAlone
<1>8. RunsBusy'
  BY <1>5, <1>6, RunsBusyKept DEF RunsPageInv
<1>9. FormHosts'
  BY <1>4, <1>5, <1>6 DEF RunsPageInv, FormHosts, LeftAlone
<1>10. PlanOfForm'
  <2>1. D!Plan(D!buildBody)' = D!Plan(D!buildBody)
    BY <1>6 DEF D!Plan, D!buildBody
  <2> QED
    BY <1>4, <1>6, <2>1 DEF RunsPageInv, PlanOfForm
<1> QED
  BY <1>1, <1>7, <1>8, <1>9, <1>10 DEF RunsPageInv

LEMMA RunStarted ==
  ASSUME RunsPageInv, NEW i \in DOMAIN calls, NEW ok \in BOOLEAN, D!RunCreated(i, ok)
  PROVE  RunsPageInv'
<1> DEFINE d == view.dialog /\ ~ok
<1>1. /\ page' = page /\ calls[i].op = "createRun" /\ Reply(i, <<>>)
      /\ view' = [view EXCEPT !.submitting = FALSE, !.dialog = d]
  BY DeploymentConsole DEF D!RunCreated, D!Answer
<1>2. d \in BOOLEAN
  BY DEF RunsPageInv, RunsShape
<1> HIDE DEF d
<1>3. /\ AreCalls(calls') /\ \A o : o # "createRun" => LeftAlone(o)
      /\ \A x : Flying("createRun", x, calls') => Flying("createRun", x, calls)
  BY <1>1, ReplyNone, ReplyNoneLeaves DEF RunsPageInv, RunsShape
<1>4. /\ DOMAIN view' = DOMAIN view /\ view'.loading = view.loading
      /\ view'.dialog = d /\ view'.fetching = view.fetching
      /\ view'.listed = view.listed /\ view'.form = view.form
      /\ view'.submitting = FALSE /\ view'.previewing = view.previewing
      /\ view'.preview = view.preview /\ view'.calm = view.calm
  BY <1>1 DEF RunsPageInv, RunsShape
<1>5. RunsShape'
  BY <1>1, <1>2, <1>3, <1>4 DEF RunsPageInv, RunsShape, LeftAlone
<1>6. RunsBusy'
  BY <1>3, <1>4, RunsBusyKept DEF RunsPageInv
<1>7. FormHosts' /\ PlanOfForm'
  BY <1>3, <1>4, PlanKept DEF RunsPageInv, FormHosts, LeftAlone
<1> QED
  BY <1>1, <1>5, <1>6, <1>7 DEF RunsPageInv

-----------------------------------------------------------------------------
(* The handlers of one run *)

LEMMA RunMounted ==
  ASSUME D!EnterRunDetail PROVE RunPageInv'
<1>1. PICK status \in {"running", "ended"} :
        /\ Mount("RunDetail", view', status, <<Call("firstRun", status)>>)
        /\ view' = [run |-> None, es |-> "none", calm |-> TRUE]
  BY DeploymentConsole DEF D!EnterRunDetail, Mount, D!Mount
<1>2. /\ AreCalls(calls') /\ page' = "RunDetail" /\ world' = status
      /\ \A o, a : Flying(o, a, calls') <=> o = "firstRun" /\ a = status
  BY <1>1, MountOne DEF Mount
<1>3. \A ops : Lone(ops, calls')
  BY <1>1, MountLone
<1>4. RunShape'
  BY <1>1, <1>2 DEF RunShape
<1>5. MountInTurn' /\ EndIsTold'
  BY <1>1, <1>3 DEF MountInTurn, EndIsTold
<1> QED
  BY <1>2, <1>4, <1>5 DEF RunPageInv

\* The run asked for again, once its stream has ended or it was cancelled.
LEMMA RunShown ==
  ASSUME RunPageInv, NEW i \in DOMAIN calls, NEW ok \in BOOLEAN,
         D!RunArrives(i, ok), calls[i].op = "run"
  PROVE  RunPageInv'
<1>1. PICK s \in {calls[i].arg, world} :
        /\ view' = [view EXCEPT !.run = IF ok THEN s ELSE @, !.calm = D!Calmly(i, ok)]
        /\ UNCHANGED <<page, world>> /\ Reply(i, <<>>)
  <2>1. calls[i].op # "firstRun" /\ page = "RunDetail"
    BY DEF RunPageInv
  <2>2. /\ D!Reply(i, <<>>) /\ D!Answer
        /\ \E s \in {calls[i].arg, world} :
              view' = [view EXCEPT !.run = IF ok THEN s ELSE @, !.calm = D!Calmly(i, ok)]
    BY <2>1 DEF D!RunArrives, D!On
  <2> QED
    BY <2>2, DeploymentConsole DEF D!Answer
<1> DEFINE r == IF ok THEN s ELSE view.run
           b == view.calm /\ ok /\ calls[i].last
<1>2. view' = [view EXCEPT !.run = r, !.calm = b]
  BY <1>1 DEF D!Calmly
<1>3. calls[i].arg \in {"running", "ended"}
  <2>1. Flying("run", calls[i].arg, calls)
    BY DEF Flying
  <2> QED
    BY <2>1 DEF RunPageInv, RunShape
<1>4. /\ r \in {"running", "ended", None} /\ b \in BOOLEAN
      /\ b => view.calm /\ calls[i].last /\ r \in {calls[i].arg, world}
  BY <1>3 DEF RunPageInv, RunShape
<1> HIDE DEF r, b
<1>5. DOMAIN view' = DOMAIN view /\ view'.run = r /\ view'.es = view.es /\ view'.calm = b
  BY <1>2 DEF RunPageInv, RunShape
<1>6. /\ AreCalls(calls') /\ \A o, a : Flying(o, a, calls') => Flying(o, a, calls)
      /\ \A o : o # "run" => LeftAlone(o)
      /\ \A o, a : Asks(o, a, calls) => Asks(o, a, calls')
      /\ \A ops : Lone(ops, calls) => Lone(ops, calls')
  BY <1>1, ReplyNone, ReplyNoneLeaves, ReplyAsksNone, LoneReplyNone DEF RunPageInv, RunShape
<1>7. RunShape'
  BY <1>1, <1>4, <1>5, <1>6 DEF RunPageInv, RunShape
<1>8. MountInTurn'
  BY <1>5, <1>6, FlightFlies DEF RunPageInv, MountInTurn
<1>9. EndIsTold'
  <2>1. ASSUME view.es = "done", b PROVE Asks("run", "ended", calls') /\ r = "ended"
    <3>1. Asks("run", "ended", calls) /\ world = "ended"
      BY <1>4, <2>1 DEF RunPageInv, EndIsTold
    <3>2. calls[i].arg = "ended"
      BY <1>4, <2>1, <3>1, AsksAlike
    <3> QED
      BY <1>4, <1>6, <2>1, <3>1, <3>2
  <2> QED
    BY <1>1, <1>5, <2>1 DEF RunPageInv, EndIsTold
<1> QED
  BY <1>1, <1>7, <1>8, <1>9 DEF RunPageInv

\* The first answer goes on with the history of the logs.
LEMMA RunFirstShown ==
  ASSUME RunPageInv, None # "RunDetail", NEW i \in DOMAIN calls, NEW ok \in BOOLEAN,
         D!RunArrives(i, ok), calls[i].op = "firstRun"
  PROVE  RunPageInv'
<1>1. PICK s \in {calls[i].arg, world} :
        /\ view' = [view EXCEPT !.run = IF ok THEN s ELSE @, !.calm = D!Calmly(i, ok)]
        /\ UNCHANGED <<page, world>>
        /\ Reply(i, IF ok THEN <<Call("history", None)>> ELSE <<>>)
  <2>1. page = "RunDetail"
    BY DEF RunPageInv
  <2>2. /\ D!Reply(i, IF ok THEN <<D!Call("history", None)>> ELSE <<>>) /\ D!Answer
        /\ \E s \in {calls[i].arg, world} :
              view' = [view EXCEPT !.run = IF ok THEN s ELSE @, !.calm = D!Calmly(i, ok)]
    BY <2>1 DEF D!RunArrives, D!On
  <2> QED
    BY <2>2, DeploymentConsole DEF D!Answer
<1> DEFINE r == IF ok THEN s ELSE view.run
           b == view.calm /\ ok /\ calls[i].last
<1>2. view' = [view EXCEPT !.run = r, !.calm = b]
  BY <1>1 DEF D!Calmly
<1>3. calls[i].arg \in {"running", "ended"}
  <2>1. Flying("firstRun", calls[i].arg, calls)
    BY DEF Flying
  <2> QED
    BY <2>1 DEF RunPageInv, RunShape
<1>4. r \in {"running", "ended", None} /\ b \in BOOLEAN
  BY <1>3 DEF RunPageInv, RunShape
<1> HIDE DEF r, b
<1>5. DOMAIN view' = DOMAIN view /\ view'.run = r /\ view'.es = view.es /\ view'.calm = b
  BY <1>2 DEF RunPageInv, RunShape
<1>6. view.es = "none"
  <2>1. InFlight({"firstRun"})
    BY DEF InFlight
  <2> QED
    BY <2>1 DEF RunPageInv, MountInTurn
<1>7. /\ AreCalls(calls') /\ Lone({"firstRun", "history"}, calls')
      /\ \A o, a : Flying(o, a, calls') => Flying(o, a, calls) \/ o = "history"
  <2>1. CASE ok
    <3>1. Reply(i, <<Call("history", None)>>)
      BY <1>1, <2>1
    <3> QED
      BY <3>1, ReplyOne, LoneReply DEF RunPageInv, RunShape, MountInTurn
  <2>2. CASE ~ok
    <3>1. Reply(i, <<>>)
      BY <1>1, <2>2
    <3> QED
      BY <3>1, ReplyNone, LoneReplyNone DEF RunPageInv, RunShape, MountInTurn
  <2> QED
    BY <2>1, <2>2
<1>8. RunShape'
  BY <1>1, <1>4, <1>5, <1>7 DEF RunPageInv, RunShape
<1>9. MountInTurn' /\ EndIsTold'
  BY <1>5, <1>6, <1>7 DEF MountInTurn, EndIsTold
<1> QED
  BY <1>1, <1>8, <1>9 DEF RunPageInv

LEMMA StreamOpened ==
  ASSUME RunPageInv, None # "RunDetail", NEW i \in DOMAIN calls, NEW ok \in BOOLEAN,
         D!HistoryArrives(i, ok)
  PROVE  RunPageInv'
<1> DEFINE e == IF ok THEN "open" ELSE view.es
<1>1. /\ calls[i].op = "history" /\ Reply(i, <<>>) /\ UNCHANGED <<page, world>>
      /\ view' = IF ok THEN [view EXCEPT !.es = "open"] ELSE view
  <2>1. page = "RunDetail"
    BY DEF RunPageInv
  <2>2. /\ i \in D!Indices("history") /\ D!Reply(i, <<>>) /\ UNCHANGED <<page, world>>
        /\ view' = IF ok THEN [view EXCEPT !.es = "open"] ELSE view
    BY <2>1 DEF D!HistoryArrives, D!On
  <2> QED
    BY <2>2, DeploymentConsole
<1>2. view.es = "none"
  <2>1. InFlight({"history"})
    BY <1>1 DEF InFlight
  <2> QED
    BY <2>1 DEF RunPageInv, MountInTurn
<1>3. e \in {"none", "open"}
  BY <1>2
<1>4. DOMAIN view' = DOMAIN view /\ view'.run = view.run /\ view'.es = e /\ view'.calm = view.calm
  BY <1>1 DEF RunPageInv, RunShape
<1> HIDE DEF e
<1>5. /\ AreCalls(calls') /\ Lone({"firstRun", "history"}, calls')
      /\ \A o, a : Flying(o, a, calls') => Flying(o, a, calls)
      /\ ~InFlight({"firstRun", "history"})'
  BY <1>1, ReplyNone, LoneReplyNone DEF RunPageInv, RunShape, MountInTurn
<1>6. ~InFlight({"firstRun"})' /\ ~InFlight({"history"})'
  BY <1>5 DEF InFlight
<1>7. RunShape'
  BY <1>1, <1>3, <1>4, <1>5 DEF RunPageInv, RunShape
<1>8. MountInTurn' /\ EndIsTold'
  BY <1>3, <1>4, <1>5, <1>6 DEF MountInTurn, EndIsTold
<1> QED
  BY <1>1, <1>7, <1>8 DEF RunPageInv

LEMMA StreamEnds ==
  ASSUME RunPageInv, D!StreamDone PROVE RunPageInv'
<1>1. /\ view.es = "open" /\ world = "ended" /\ UNCHANGED <<page, world>>
      /\ view' = [view EXCEPT !.es = "done"] /\ Send(<<Call("run", "ended")>>)
  <2>1. D!loadRun = Call("run", world)
    BY DeploymentConsole DEF D!loadRun
  <2> QED
    BY <2>1, DeploymentConsole DEF D!StreamDone, D!Answer
<1>2. DOMAIN view' = DOMAIN view /\ view'.run = view.run /\ view'.es = "done"
      /\ view'.calm = view.calm
  BY <1>1 DEF RunPageInv, RunShape
<1>3. /\ AreCalls(calls') /\ Asks("run", "ended", calls') /\ Latest("run", calls')
      /\ \A o, a : Flying(o, a, calls') => Flying(o, a, calls) \/ (o = "run" /\ a = "ended")
  BY <1>1, SendOne, SendAsks, SendLatest DEF RunPageInv, RunShape
<1>4. Lone({"firstRun", "history"}, calls')
  BY <1>1, LoneSend DEF RunPageInv, RunShape, MountInTurn
<1>5. RunShape'
  BY <1>1, <1>2, <1>3 DEF RunPageInv, RunShape
<1>6. MountInTurn'
  BY <1>1, <1>2, <1>3, <1>4, FlightFlies DEF RunPageInv, MountInTurn
<1>7. EndIsTold'
  BY <1>1, <1>2, <1>3 DEF EndIsTold
<1> QED
  BY <1>1, <1>5, <1>6, <1>7 DEF RunPageInv

\* The stream breaks, or the run ends before its stream says so.
LEMMA RunGoesOn ==
  ASSUME RunPageInv, D!RunEnds \/ D!StreamFails PROVE RunPageInv'
<1>1. UNCHANGED <<page, calls>> /\ world' \in {"running", "ended"}
      /\ \A o : LeftAlone(o)
  BY AllLeft DEF D!RunEnds, D!StreamFails, D!Answer, RunPageInv, RunShape
<1>2. /\ DOMAIN view' = DOMAIN view /\ view'.run = view.run /\ view'.calm = view.calm
      /\ view'.es \in {"none", "open", "done", "lost"}
      /\ view'.es # "none" => view.es # "none"
  BY DEF D!RunEnds, D!StreamFails, RunPageInv, RunShape
<1>3. view'.es = "done" => view.es = "done" /\ world' = world
  BY DEF D!RunEnds, D!StreamFails, D!Answer, RunPageInv, RunShape, EndIsTold
<1>4. RunShape'
  BY <1>1, <1>2 DEF RunPageInv, RunShape
<1>5. MountInTurn'
  BY <1>1, <1>2 DEF RunPageInv, MountInTurn, InFlight
<1>6. EndIsTold'
  BY <1>1, <1>2, <1>3 DEF RunPageInv, EndIsTold
<1> QED
  BY <1>1, <1>4, <1>5, <1>6 DEF RunPageInv

LEMMA RunClicked ==
  ASSUME RunPageInv, D!handleCancel \/ D!handleRollback PROVE RunPageInv'
<1>1. PICK op \in {"cancelRun", "rollbackRun"} :
        UNCHANGED <<page, view, world>> /\ Send(<<Call(op, None)>>)
  BY DeploymentConsole DEF D!handleCancel, D!handleRollback, D!User
<1>2. AreCalls(calls') /\ \A o : o # op => LeftAlone(o)
  BY <1>1, SendOne, SendLeaves DEF RunPageInv, RunShape
<1>3. Lone({"firstRun", "history"}, calls')
  BY <1>1, LoneSend DEF RunPageInv, RunShape, MountInTurn
<1>4. LeftAlone("run") /\ LeftAlone("firstRun") /\ LeftAlone("history")
  BY <1>1, <1>2
<1>5. RunShape'
  BY <1>1, <1>2, <1>4 DEF RunPageInv, RunShape, LeftAlone
<1>6. MountInTurn'
  BY <1>1, <1>3, <1>4, FlightFlies DEF RunPageInv, MountInTurn, LeftAlone
<1>7. EndIsTold'
  BY <1>1, <1>4 DEF RunPageInv, EndIsTold, LeftAlone
<1> QED
  BY <1>1, <1>5, <1>6, <1>7 DEF RunPageInv

LEMMA RunTold ==
  ASSUME RunPageInv, NEW i \in DOMAIN calls,
         \/ D!RollbackAnswered(i) \/ \E ok \in BOOLEAN : D!CancelAnswered(i, ok)
  PROVE  RunPageInv'
<1>1. /\ UNCHANGED <<page, view, world>> /\ calls[i].op \in {"cancelRun", "rollbackRun"}
      /\ Reply(i, <<>>) \/ Reply(i, <<Call("run", world)>>)
  <2>1. CASE D!RollbackAnswered(i)
    BY <2>1, DeploymentConsole DEF D!RollbackAnswered, D!Answer
  <2>2. ASSUME NEW ok \in BOOLEAN, D!CancelAnswered(i, ok)
        PROVE  /\ UNCHANGED <<page, view, world>> /\ calls[i].op = "cancelRun"
               /\ Reply(i, <<>>) \/ Reply(i, <<Call("run", world)>>)
    <3>1. D!loadRun = Call("run", world)
      BY DeploymentConsole DEF D!loadRun
    <3> QED
      BY <2>2, <3>1, DeploymentConsole DEF D!CancelAnswered, D!Answer
  <2> QED
    BY <2>1, <2>2
<1>2. world \in {"running", "ended"}
  BY DEF RunPageInv, RunShape
<1>3. /\ AreCalls(calls') /\ LeftAlone("firstRun") /\ LeftAlone("history")
      /\ Lone({"firstRun", "history"}, calls')
      /\ \A a : Flying("run", a, calls') => Flying("run", a, calls) \/ a = world
      /\ Asks("run", "ended", calls) /\ world = "ended" => Asks("run", "ended", calls')
      /\ Latest("run", calls) => Latest("run", calls')
  <2>1. CASE Reply(i, <<>>)
    <3>1. LeftAlone("run") /\ LeftAlone("firstRun") /\ LeftAlone("history")
      BY <1>1, <2>1, ReplyNoneLeaves DEF RunPageInv, RunShape
    <3> QED
      BY <2>1, <3>1, ReplyNone, LoneReplyNone DEF RunPageInv, RunShape, MountInTurn, LeftAlone
  <2>2. CASE Reply(i, <<Call("run", world)>>)
    <3>1. LeftAlone("firstRun") /\ LeftAlone("history")
      BY <1>1, <2>2, ReplyOneLeaves DEF RunPageInv, RunShape
    <3>2. /\ AreCalls(calls')
          /\ \A a : Flying("run", a, calls') => Flying("run", a, calls) \/ a = world
      BY <2>2, ReplyOne DEF RunPageInv, RunShape
    <3>3. Asks("run", world, calls') /\ Latest("run", calls')
      BY <2>2, ReplyAsks, ReplyOneLatest DEF RunPageInv, RunShape
    <3>4. Lone({"firstRun", "history"}, calls')
      BY <2>2, LoneReply DEF RunPageInv, RunShape, MountInTurn
    <3> QED
      BY <3>1, <3>2, <3>3, <3>4
  <2> QED
    BY <1>1, <2>1, <2>2
<1>4. RunShape'
  BY <1>1, <1>2, <1>3 DEF RunPageInv, RunShape, LeftAlone
<1>5. MountInTurn'
  BY <1>1, <1>3, FlightFlies DEF RunPageInv, MountInTurn, LeftAlone
<1>6. EndIsTold'
  BY <1>1, <1>3 DEF RunPageInv, EndIsTold
<1> QED
  BY <1>1, <1>4, <1>5, <1>6 DEF RunPageInv

-----------------------------------------------------------------------------
(* The four views together *)

LEMMA OnePage ==
  ASSUME \/ TableInv' \/ CardsInv' \/ RunsPageInv' \/ RunPageInv'
  PROVE  DeploymentInv'
<1>1. /\ TableInv' => page' = "Components"
      /\ CardsInv' => page' = "Global"
      /\ RunsPageInv' => page' = "Runs"
      /\ RunPageInv' => page' = "RunDetail"
  BY DEF TableInv, CardsInv, RunsPageInv, RunPageInv
<1> QED
  BY <1>1 DEF DeploymentInv

LEMMA OutsideDeployment ==
  ASSUME page' \notin D!Views PROVE DeploymentInv'
  BY DEF D!Views, DeploymentInv

LEMMA DeploymentEntered ==
  ASSUME D!DeploymentConstants, D!Enter PROVE DeploymentInv'
<1>1. ASSUME NEW enabled \in SUBSET Components, D!load(enabled) PROVE DeploymentInv'
  BY <1>1, ComponentsMounted, OnePage
<1>2. CASE D!EnterGlobal
  BY <1>2, GlobalMounted, OnePage
<1>3. CASE D!EnterRuns
  BY <1>3, RunsMounted, OnePage
<1>4. CASE D!EnterRunDetail
  BY <1>4, RunMounted, OnePage
<1> QED
  BY <1>1, <1>2, <1>3, <1>4 DEF D!Enter

LEMMA DeploymentUnchanged ==
  ASSUME DeploymentInv, UNCHANGED console PROVE DeploymentInv'
<1>1. UNCHANGED <<page, view, calls, world>>
  BY DEF console
<1>2. CASE page = "Components"
  <2>1. TableInv
    BY <1>2 DEF DeploymentInv
  <2>2. /\ ComponentsShape' /\ ComponentsCalls' /\ ComponentsBusy'
    BY <1>1, <2>1 DEF TableInv, ComponentsShape, ComponentsCalls, ComponentsBusy, InFlight
  <2>3. HostsOfRow' /\ ParamsOfPipe'
    BY <1>1, <2>1 DEF TableInv, HostsOfRow, ParamsOfPipe, InFlight
  <2>4. SwitchesInTurn'
    BY <1>1, <2>1 DEF TableInv, SwitchesInTurn, InFlight
  <2> QED
    BY <1>1, <1>2, <2>2, <2>3, <2>4, OnePage DEF TableInv
<1>3. CASE page = "Global"
  <2>1. CardsInv
    BY <1>3 DEF DeploymentInv
  <2>2. CardsInv'
    BY <1>1, <2>1 DEF CardsInv, GlobalShape, GlobalBusy, ConfigServed, InFlight
  <2> QED
    BY <2>2, OnePage
<1>4. CASE page = "Runs"
  <2>1. RunsPageInv
    BY <1>4 DEF DeploymentInv
  <2>2. D!buildBody' = D!buildBody
    BY <1>1 DEF D!buildBody
  <2>3. RunsShape' /\ RunsBusy' /\ FormHosts' /\ PlanOfForm'
    BY <1>1, <2>1, <2>2 DEF RunsPageInv, RunsShape, RunsBusy, FormHosts, PlanOfForm, InFlight
  <2> QED
    BY <1>1, <1>4, <2>3, OnePage DEF RunsPageInv
<1>5. CASE page = "RunDetail"
  <2>1. RunPageInv
    BY <1>5 DEF DeploymentInv
  <2>2. RunPageInv'
    BY <1>1, <2>1 DEF RunPageInv, RunShape, MountInTurn, EndIsTold, InFlight
  <2> QED
    BY <2>2, OnePage
<1>6. CASE page \notin D!Views
  BY <1>1, <1>6, OutsideDeployment
<1> QED
  BY <1>2, <1>3, <1>4, <1>5, <1>6 DEF D!Views

-----------------------------------------------------------------------------
(* The handlers, view by view *)

LEMMA TableClicks ==
  ASSUME D!DeploymentConstants, DeploymentInv,
         \/ \E c \in Components :
               \/ D!toggleEnabled(c) \/ D!openHosts(c) \/ D!openOverride(c)
               \/ D!openTasks(c) \/ \E p : D!loadOverrideRows(p)
         \/ D!CloseTop \/ D!saveHosts \/ D!restoreDefaults \/ D!saveOverride
  PROVE  DeploymentInv'
<1>1. page = "Components"
  BY DEF D!toggleEnabled, D!openHosts, D!openOverride, D!openTasks, D!loadOverrideRows,
         D!CloseTop, D!saveHosts, D!restoreDefaults, D!saveOverride, D!Table, D!Shown, D!On
<1>2. TableInv
  BY <1>1 DEF DeploymentInv
<1>3. ASSUME NEW c \in Components,
             \/ D!toggleEnabled(c) \/ D!openHosts(c) \/ D!openOverride(c)
             \/ D!openTasks(c) \/ \E p : D!loadOverrideRows(p)
      PROVE  TableInv'
  BY <1>2, <1>3, SwitchTurned, HostsOpened, ParamsOpened, TasksAsked, PipePicked
<1>4. CASE D!CloseTop \/ D!saveHosts \/ D!restoreDefaults \/ D!saveOverride
  BY <1>2, <1>4, DialogClosedByUser, HostsSent, DefaultsAsked, ParamsSent, OnePage
<1> QED
  BY <1>3, <1>4, OnePage

LEMMA TableAnswers ==
  ASSUME D!DeploymentConstants, DeploymentInv,
         NEW i \in DOMAIN calls, NEW ok \in BOOLEAN,
         \/ D!ComponentsArrive(i, ok) \/ D!TargetsArrive(i, ok) \/ D!HostsSaved(i, ok)
         \/ D!OverrideArrives(i, ok) \/ D!DefaultsArrive(i, ok) \/ D!OverrideSaved(i, ok)
         \/ D!TasksArrive(i, ok) \/ \E taken \in BOOLEAN : D!EnabledAnswered(i, ok, taken)
  PROVE  DeploymentInv'
<1>1. page = "Components"
  BY DEF D!ComponentsArrive, D!TargetsArrive, D!HostsSaved, D!OverrideArrives,
         D!DefaultsArrive, D!OverrideSaved, D!TasksArrive, D!EnabledAnswered, D!On
<1>2. TableInv
  BY <1>1 DEF DeploymentInv
<1>3. CASE D!ComponentsArrive(i, ok) \/ D!TargetsArrive(i, ok) \/ D!HostsSaved(i, ok)
  BY <1>2, <1>3, ComponentsListed, HostsShown, HostsStored, OnePage
<1>4. CASE D!OverrideArrives(i, ok) \/ D!DefaultsArrive(i, ok) \/ D!OverrideSaved(i, ok)
  BY <1>2, <1>4, RowsOfPipeCome, DefaultsCome, ParamsStored, OnePage
<1>5. CASE D!TasksArrive(i, ok) \/ \E taken \in BOOLEAN : D!EnabledAnswered(i, ok, taken)
  BY <1>2, <1>5, TasksShown, SwitchAnswered, OnePage
<1> QED
  BY <1>3, <1>4, <1>5

LEMMA CardsMove ==
  ASSUME DeploymentInv,
         \/ D!save \/ D!initialize \/ D!verify \/ D!CloseAlert
         \/ \E i \in DOMAIN calls :
               \/ D!ConfigSaved(i) \/ D!loadOffline(i)
               \/ \E ok \in BOOLEAN :
                     D!ConfigArrives(i, ok) \/ D!InstallAnswered(i, ok) \/ D!VerifyAnswered(i, ok)
  PROVE  DeploymentInv'
<1>1. page = "Global"
  BY DEF D!save, D!initialize, D!verify, D!CloseAlert, D!ConfigSaved, D!loadOffline,
         D!ConfigArrives, D!InstallAnswered, D!VerifyAnswered, D!On
<1>2. CardsInv
  BY <1>1 DEF DeploymentInv
<1>3. CASE D!save \/ D!initialize \/ D!verify \/ D!CloseAlert
  BY <1>2, <1>3, CardClicked, AlertClosed, OnePage
<1>4. ASSUME NEW i \in DOMAIN calls, D!ConfigSaved(i) \/ D!loadOffline(i)
      PROVE  DeploymentInv'
  BY <1>2, <1>4, ConfigStored, BundleShown, OnePage
<1>5. ASSUME NEW i \in DOMAIN calls, NEW ok \in BOOLEAN,
             D!ConfigArrives(i, ok) \/ D!InstallAnswered(i, ok) \/ D!VerifyAnswered(i, ok)
      PROVE  DeploymentInv'
  BY <1>2, <1>5, ConfigShown, BundleInstalled, BundleVerified, OnePage
<1> QED
  BY <1>3, <1>4, <1>5

LEMMA RunsClicks ==
  ASSUME D!DeploymentConstants, DeploymentInv,
         \/ \E c \in Components : D!onComponentChange(c)
         \/ \E m \in Modes : D!PickMode(m)
         \/ D!loadRuns \/ D!openDialog \/ D!CloseDialog \/ D!PickDryRun
         \/ D!doPreview \/ D!doSubmit
  PROVE  DeploymentInv'
<1>1. page = "Runs"
  BY DEF D!onComponentChange, D!PickMode, D!loadRuns, D!openDialog, D!CloseDialog,
         D!PickDryRun, D!doPreview, D!doSubmit, D!Form, D!On
<1>2. RunsPageInv
  BY <1>1 DEF DeploymentInv
<1>3. ASSUME NEW c \in Components, D!onComponentChange(c) PROVE DeploymentInv'
  BY <1>2, <1>3, ComponentPicked, OnePage
<1>4. ASSUME NEW m \in Modes, D!PickMode(m) PROVE DeploymentInv'
  BY <1>2, <1>4, ModePicked, OnePage
<1>5. CASE D!loadRuns \/ D!CloseDialog
  BY <1>2, <1>5, RunsListed, OnePage
<1>6. CASE D!openDialog \/ D!PickDryRun \/ D!doPreview \/ D!doSubmit
  BY <1>2, <1>6, DialogOpens, DryRunPicked, FormSent, OnePage
<1> QED
  BY <1>3, <1>4, <1>5, <1>6

LEMMA RunsAnswers ==
  ASSUME DeploymentInv, NEW i \in DOMAIN calls,
         \/ D!RunsArrive(i)
         \/ \E ok \in BOOLEAN : \/ D!ChoicesArrive(i, ok) \/ D!PreviewArrives(i, ok)
                                \/ D!FormTargetsArrive(i, ok) \/ D!RunCreated(i, ok)
  PROVE  DeploymentInv'
<1>1. page = "Runs"
  BY DEF D!RunsArrive, D!ChoicesArrive, D!PreviewArrives, D!FormTargetsArrive,
         D!RunCreated, D!On
<1>2. RunsPageInv
  BY <1>1 DEF DeploymentInv
<1>3. CASE D!RunsArrive(i) \/ \E ok \in BOOLEAN : D!ChoicesArrive(i, ok)
  BY <1>2, <1>3, RunsListed, OnePage
<1>4. ASSUME NEW ok \in BOOLEAN,
             D!PreviewArrives(i, ok) \/ D!FormTargetsArrive(i, ok) \/ D!RunCreated(i, ok)
      PROVE  DeploymentInv'
  BY <1>2, <1>4, PreviewShown, FormTargetsCome, RunStarted, OnePage
<1> QED
  BY <1>3, <1>4

LEMMA RunMoves ==
  ASSUME DeploymentInv,
         \/ D!handleCancel \/ D!handleRollback
         \/ D!RunEnds \/ D!StreamDone \/ D!StreamFails
         \/ \E i \in DOMAIN calls :
               D!RollbackAnswered(i) \/ \E ok \in BOOLEAN : D!CancelAnswered(i, ok)
  PROVE  DeploymentInv'
<1>1. page = "RunDetail"
  BY DEF D!handleCancel, D!handleRollback, D!RunEnds, D!StreamDone, D!StreamFails,
         D!RollbackAnswered, D!CancelAnswered, D!On
<1>2. RunPageInv
  BY <1>1 DEF DeploymentInv
<1> QED
  BY <1>2, RunClicked, RunGoesOn, StreamEnds, RunTold, OnePage

\* The mount of a run goes on when its view is gone; no view of deployment is there then.
LEMMA MountGoesOn ==
  ASSUME D!DeploymentConstants, DeploymentInv, NEW i \in DOMAIN calls, NEW ok \in BOOLEAN,
         D!RunArrives(i, ok) \/ D!HistoryArrives(i, ok)
  PROVE  DeploymentInv'
<1>1. None # "RunDetail" /\ None \notin D!Views
  BY DEF D!DeploymentConstants, D!Views
<1>2. page' = page /\ page \in {"RunDetail", None}
  BY DEF D!RunArrives, D!HistoryArrives, D!Answer, D!On
<1>3. CASE page = "RunDetail"
  <2>1. RunPageInv
    BY <1>3 DEF DeploymentInv
  <2>2. CASE D!RunArrives(i, ok)
    <3>1. calls[i].op = "run" \/ calls[i].op = "firstRun"
      BY <2>2 DEF D!RunArrives
    <3> QED
      BY <1>1, <2>1, <2>2, <3>1, RunShown, RunFirstShown, OnePage
  <2>3. CASE D!HistoryArrives(i, ok)
    BY <1>1, <2>1, <2>3, StreamOpened, OnePage
  <2> QED
    BY <2>2, <2>3
<1>4. CASE page = None
  BY <1>1, <1>2, <1>4, OutsideDeployment
<1> QED
  BY <1>2, <1>3, <1>4

LEMMA DeploymentVisit ==
  ASSUME D!DeploymentConstants, DeploymentInv, [D!Enter \/ D!Leave \/ D!Next]_console
  PROVE  DeploymentInv'
<1>1. CASE D!Enter
  BY <1>1, DeploymentEntered
<1>2. CASE D!Leave
  <2>1. page' = None
    BY <1>2 DEF D!Leave, D!LeavePlain, D!LeaveRunDetail, D!LeaveWith
  <2> QED
    BY <2>1, OutsideDeployment DEF D!DeploymentConstants
<1>3. CASE D!UserActs
  <2>1. \/ \E c \in Components :
             \/ D!toggleEnabled(c) \/ D!openHosts(c) \/ D!openOverride(c)
             \/ D!openTasks(c) \/ \E p : D!loadOverrideRows(p)
        \/ D!CloseTop \/ D!saveHosts \/ D!restoreDefaults \/ D!saveOverride
        \/ D!save \/ D!initialize \/ D!verify \/ D!CloseAlert
        \/ \E c \in Components : D!onComponentChange(c)
        \/ \E m \in Modes : D!PickMode(m)
        \/ D!loadRuns \/ D!openDialog \/ D!CloseDialog \/ D!PickDryRun
        \/ D!doPreview \/ D!doSubmit
        \/ D!handleCancel \/ D!handleRollback
    BY <1>3 DEF D!UserActs
  <2> QED
    BY <2>1, TableClicks, CardsMove, RunsClicks, RunMoves
<1>4. CASE D!Arrivals
  <2>1. ASSUME NEW i \in DOMAIN calls, NEW ok \in BOOLEAN,
               \/ D!ComponentsArrive(i, ok) \/ D!TargetsArrive(i, ok) \/ D!HostsSaved(i, ok)
               \/ D!OverrideArrives(i, ok) \/ D!DefaultsArrive(i, ok) \/ D!OverrideSaved(i, ok)
               \/ D!TasksArrive(i, ok) \/ D!ConfigArrives(i, ok) \/ D!InstallAnswered(i, ok)
               \/ D!VerifyAnswered(i, ok) \/ D!ChoicesArrive(i, ok) \/ D!PreviewArrives(i, ok)
               \/ D!FormTargetsArrive(i, ok) \/ D!RunCreated(i, ok) \/ D!RunArrives(i, ok)
               \/ D!HistoryArrives(i, ok) \/ D!CancelAnswered(i, ok)
               \/ \E taken \in BOOLEAN : D!EnabledAnswered(i, ok, taken)
        PROVE  DeploymentInv'
    BY <2>1, TableAnswers, CardsMove, RunsAnswers, RunMoves, MountGoesOn
  <2>2. ASSUME NEW i \in DOMAIN calls,
               \/ D!ConfigSaved(i) \/ D!loadOffline(i) \/ D!RunsArrive(i)
               \/ D!RollbackAnswered(i)
        PROVE  DeploymentInv'
    BY <2>2, CardsMove, RunsAnswers, RunMoves
  <2>3. CASE D!RunEnds \/ D!StreamDone \/ D!StreamFails
    BY <2>3, RunMoves
  <2> QED
    BY <1>4, <2>1, <2>2, <2>3 DEF D!Arrivals
<1>5. CASE UNCHANGED console
  BY <1>5, DeploymentUnchanged
<1> QED
  BY <1>1, <1>2, <1>3, <1>4, <1>5 DEF D!Next

-----------------------------------------------------------------------------
(* What the views promise *)

LEMMA DeploymentTypes ==
  ASSUME DeploymentInv PROVE D!TypeOK
<1>1. CASE page = "Components"
  <2>1. ComponentsShape
    BY <1>1 DEF DeploymentInv, TableInv
  <2>2. /\ view.params.pipe \in D!Pipes \cup {None} /\ view.params.rows \in D!Pipes \cup {None}
        /\ view.params.saving \in BOOLEAN
    BY <2>1 DEF ComponentsShape
  <2> QED
    BY <1>1, <2>1, <2>2 DEF D!TypeOK, D!On, ComponentsShape, DialogNames
<1>2. CASE page = "Global"
  BY <1>2 DEF DeploymentInv, CardsInv, D!TypeOK, D!On, GlobalShape
<1>3. CASE page = "Runs"
  BY <1>3 DEF DeploymentInv, RunsPageInv, D!TypeOK, D!On, RunsShape
<1>4. CASE page = "RunDetail"
  BY <1>4 DEF DeploymentInv, RunPageInv, D!TypeOK, D!On, RunShape
<1>5. CASE page \notin D!Views
  BY <1>5 DEF D!TypeOK, D!On, D!Views
<1> QED
  BY <1>1, <1>2, <1>3, <1>4, <1>5 DEF D!Views

LEMMA DeploymentBusyEnds ==
  ASSUME DeploymentInv PROVE D!BusyEnds
<1>1. page = "Components" => ComponentsBusy
  BY DEF DeploymentInv, TableInv
<1>2. page = "Global" => GlobalBusy
  BY DEF DeploymentInv, CardsInv
<1>3. page = "Runs" => RunsBusy
  BY DEF DeploymentInv, RunsPageInv
<1>4. InFlight({"install"}) \/ Flying("offline", "install", calls) =>
        InFlight({"install", "offline"})
  BY DEF InFlight, Flying
<1> QED
  BY <1>1, <1>2, <1>3, <1>4, DeploymentConsole
     DEF D!BusyEnds, D!On, ComponentsBusy, GlobalBusy, RunsBusy

LEMMA DeploymentWrites ==
  ASSUME DeploymentInv PROVE D!WritesOwnSubject
<1>1. ASSUME page = "Components", view.calm, NEW i \in DOMAIN calls
      PROVE  /\ calls[i].op = "putTargets" => calls[i].arg.of = calls[i].arg.hosts
             /\ calls[i].op = "putOverride" =>
                  calls[i].arg.early \/ calls[i].arg.rows \in {calls[i].arg.of, None}
  <2>1. Flying(calls[i].op, calls[i].arg, calls)
    BY DEF Flying
  <2> QED
    BY <1>1, <2>1 DEF DeploymentInv, TableInv, HostsOfRow, ParamsOfPipe
<1>2. ASSUME page = "Global", view.calm, NEW i \in DOMAIN calls, calls[i].op = "putConfig"
      PROVE  calls[i].arg = "server"
  <2>1. Flying("putConfig", calls[i].arg, calls)
    BY <1>2 DEF Flying
  <2> QED
    BY <1>2, <2>1 DEF DeploymentInv, CardsInv, ConfigServed
<1>3. ASSUME page = "Runs", view.calm, NEW i \in DOMAIN calls,
             calls[i].op \in {"createRun", "preview"}
      PROVE  OwnHosts(calls[i].arg.component, calls[i].arg.hosts)
  <2>1. \/ Flying("createRun", calls[i].arg, calls) \/ Flying("preview", calls[i].arg, calls)
    BY <1>3 DEF Flying
  <2> QED
    BY <1>3, <2>1 DEF DeploymentInv, RunsPageInv, FormHosts
<1> QED
  BY <1>1, <1>2, <1>3, DeploymentConsole DEF D!WritesOwnSubject, D!On, OwnHosts

LEMMA SwitchesShowServer ==
  ASSUME DeploymentInv PROVE D!SwitchesMatchServer
<1> SUFFICES ASSUME page = "Components", view.listed, view.calm, ~InFlight({"enable"})
             PROVE  view.enabled = world
  BY DeploymentConsole DEF D!SwitchesMatchServer, D!On
<1>1. SwitchChain(calls, world, view.enabled)
  BY DEF DeploymentInv, TableInv, SwitchesInTurn
<1>2. Switches(calls) = {}
  BY DEF Switches, InFlight
<1> QED
  BY <1>1, <1>2 DEF SwitchChain

LEMMA DeploymentPromises ==
  ASSUME DeploymentInv
  PROVE  /\ D!TypeOK /\ D!BusyEnds /\ D!WritesOwnSubject /\ D!SwitchesMatchServer
         /\ D!PreviewOfForm /\ D!BadgeAfterStream
<1>1. D!PreviewOfForm
  BY DEF D!PreviewOfForm, D!On, DeploymentInv, RunsPageInv, PlanOfForm
<1>2. D!BadgeAfterStream
  <2>1. Latest("run", calls) => InFlight({"run"})
    BY DEF Latest, InFlight
  <2> QED
    BY <2>1, DeploymentConsole
       DEF D!BadgeAfterStream, D!On, DeploymentInv, RunPageInv, EndIsTold
<1> QED
  BY <1>1, <1>2, DeploymentTypes, DeploymentBusyEnds, DeploymentWrites, SwitchesShowServer

\* The views of deployment alone.
DeploymentVisits == Init /\ [][D!Enter \/ D!Leave \/ D!Next]_console

LEMMA DeploymentInvariant ==
  ASSUME D!DeploymentConstants PROVE DeploymentVisits => []DeploymentInv
<1>1. Init => DeploymentInv
  <2>1. None \notin D!Views
    BY DEF D!DeploymentConstants
  <2> QED
    BY <2>1 DEF Init, DeploymentInv, D!Views
<1>2. DeploymentInv /\ [D!Enter \/ D!Leave \/ D!Next]_console => DeploymentInv'
  BY DeploymentVisit
<1> QED
  BY <1>1, <1>2, PTL DEF DeploymentVisits

\* Once no save of the switches is on its way, the table shows what the server has
\* enabled: each save flips one row and sends the names of all, so unless answers
\* crossed or were lost the chain of saves leads from the server to the table.
THEOREM SwitchesFollowServer ==
  ASSUME D!DeploymentConstants
  PROVE  DeploymentVisits => []D!SwitchesMatchServer
  BY DeploymentInvariant, DeploymentPromises, PTL

\* Hosts and parameters are saved for the component they were shown for, the global
\* configuration only as it was loaded, and a run is planned and started with the
\* hosts of its own component, as long as no answer was overtaken.
THEOREM DeploymentWritesOwnSubject ==
  ASSUME D!DeploymentConstants
  PROVE  DeploymentVisits => []D!WritesOwnSubject
  BY DeploymentInvariant, DeploymentPromises, PTL

\* The plan shown in the dialog is that of the operation and the component now picked.
THEOREM PlanIsOfForm ==
  ASSUME D!DeploymentConstants
  PROVE  DeploymentVisits => []D!PreviewOfForm
  BY DeploymentInvariant, DeploymentPromises, PTL

\* A run whose log stream has ended is no longer shown as running once the question
\* asked at the end of the stream is answered.
THEOREM BadgeFollowsStream ==
  ASSUME D!DeploymentConstants
  PROVE  DeploymentVisits => []D!BadgeAfterStream
  BY DeploymentInvariant, DeploymentPromises, PTL

\* No overlay, button or card of the views of deployment spins without a call that
\* will end it, or a box whose closing does.
THEOREM DeploymentNeverStuck ==
  ASSUME D!DeploymentConstants
  PROVE  DeploymentVisits => []D!BusyEnds
  BY DeploymentInvariant, DeploymentPromises, PTL
=============================================================================
