------------------------ MODULE BuildSchedulerProofs ------------------------
(***************************************************************************)
(* Theorems about BuildScheduler for every number of pipelines, slots,     *)
(* requests and crashes.                                                   *)
(***************************************************************************)
EXTENDS BuildScheduler, SequenceTheorems, FiniteSetTheorems, TLAPS

-----------------------------------------------------------------------------
(* Facts about the queue *)

\* What Scheduler.Cancel's splice leaves at each position.
LEMMA RemoveAtIndices ==
  ASSUME NEW S, NEW s \in Seq(S), NEW i \in DOMAIN s
  PROVE  /\ RemoveAt(s, i) \in Seq(S)
         /\ DOMAIN RemoveAt(s, i) = 1..(Len(s)-1)
         /\ \A j \in 1..(Len(s)-1) :
              RemoveAt(s, i)[j] = s[IF j < i THEN j ELSE j+1]
<1> DEFINE a == SubSeq(s, 1, i-1)
           b == SubSeq(s, i+1, Len(s))
<1>1. /\ Len(s) \in Nat /\ DOMAIN s = 1..Len(s) /\ i \in 1..Len(s)
      /\ \A j \in 1..Len(s) : s[j] \in S
  BY LenProperties, ElementOfSeq
<1>2. /\ a \in Seq(S) /\ Len(a) = i-1
      /\ \A j \in 1..(i-1) : a[j] = s[j]
  <2>1. \A j \in 1..(i-1) : s[j] \in S
    BY <1>1
  <2>2. 1 \in Int /\ i-1 \in Int
    BY <1>1
  <2>3. /\ a \in Seq(S)
        /\ Len(a) = IF 1 <= i-1 THEN (i-1)-1+1 ELSE 0
        /\ \A j \in 1..((i-1)-1+1) : a[j] = s[1+j-1]
    BY <2>1, <2>2, SubSeqProperties
  <2> QED BY <2>3, <1>1
<1>3. /\ b \in Seq(S) /\ Len(b) = Len(s) - i
      /\ \A j \in 1..(Len(s)-i) : b[j] = s[i+j]
  <2>1. \A j \in (i+1)..Len(s) : s[j] \in S
    BY <1>1
  <2>2. i+1 \in Int /\ Len(s) \in Int
    BY <1>1
  <2>3. /\ b \in Seq(S)
        /\ Len(b) = IF i+1 <= Len(s) THEN Len(s)-(i+1)+1 ELSE 0
        /\ \A j \in 1..(Len(s)-(i+1)+1) : b[j] = s[(i+1)+j-1]
    BY <2>1, <2>2, SubSeqProperties
  <2> QED BY <2>3, <1>1
<1>4. RemoveAt(s, i) = a \o b
  BY DEF RemoveAt
<1> HIDE DEF a, b
<1>5. /\ a \o b \in Seq(S) /\ Len(a \o b) = Len(a) + Len(b)
      /\ \A j \in 1..(Len(a)+Len(b)) :
           (a \o b)[j] = IF j <= Len(a) THEN a[j] ELSE b[j - Len(a)]
  BY <1>2, <1>3, ConcatProperties
<1>6. Len(a) + Len(b) = Len(s) - 1
  BY <1>1, <1>2, <1>3
<1>7. DOMAIN (a \o b) = 1..(Len(s)-1)
  BY <1>5, <1>6, LenProperties
<1>8. ASSUME NEW j \in 1..(Len(s)-1)
      PROVE  (a \o b)[j] = s[IF j < i THEN j ELSE j+1]
  <2>1. CASE j < i
    BY <2>1, <1>1, <1>2, <1>5, <1>6
  <2>2. CASE ~(j < i)
    <3>1. j - (i-1) \in 1..(Len(s)-i) /\ i + (j-(i-1)) = j+1 /\ ~(j <= Len(a))
      BY <2>2, <1>1, <1>2
    <3>2. (a \o b)[j] = b[j-(i-1)]
      BY <3>1, <1>2, <1>5, <1>6
    <3> QED BY <3>1, <3>2, <1>3, <2>2
  <2> QED BY <2>1, <2>2
<1> QED BY <1>4, <1>5, <1>7, <1>8

\* The splice keeps every element that differs from the removed one.
LEMMA RemoveAtFacts ==
  ASSUME NEW S, NEW s \in Seq(S), NEW i \in DOMAIN s
  PROVE  /\ RemoveAt(s, i) \in Seq(S)
         /\ Range(RemoveAt(s, i)) \subseteq Range(s)
         /\ \A e \in Range(s) : e # s[i] => e \in Range(RemoveAt(s, i))
<1> DEFINE c == RemoveAt(s, i)
           from(j) == IF j < i THEN j ELSE j+1
<1>1. Len(s) \in Nat /\ DOMAIN s = 1..Len(s) /\ i \in 1..Len(s)
  BY LenProperties
<1>2. /\ c \in Seq(S) /\ DOMAIN c = 1..(Len(s)-1)
      /\ \A j \in 1..(Len(s)-1) : c[j] = s[from(j)]
  BY RemoveAtIndices
<1>3. /\ Range(s) = {s[k] : k \in 1..Len(s)}
      /\ Range(c) = {c[j] : j \in 1..(Len(s)-1)}
  BY <1>1, <1>2, Zenon DEF Range
<1>4. \A j \in 1..(Len(s)-1) : from(j) \in 1..Len(s)
  BY <1>1
<1>5. ASSUME NEW k \in 1..Len(s), k # i
      PROVE  \E j \in 1..(Len(s)-1) : from(j) = k
  <2>1. CASE k < i
    <3>1. k \in 1..(Len(s)-1) /\ from(k) = k
      BY <2>1, <1>1
    <3> QED BY <3>1
  <2>2. CASE k > i
    <3>1. k-1 \in 1..(Len(s)-1) /\ from(k-1) = k
      BY <2>2, <1>1
    <3> QED BY <3>1
  <2> QED BY <1>5, <1>1, <2>1, <2>2
<1> HIDE DEF c, from
<1>6. c \in Seq(S) /\ Range(c) \subseteq Range(s)
  BY <1>2, <1>3, <1>4, Zenon
<1>7. \A e \in Range(s) : e # s[i] => e \in Range(c)
  BY <1>2, <1>3, <1>5, Zenon
<1> QED BY <1>6, <1>7 DEF c

\* Popping the head of the queue (tryDispatch).
LEMMA TailFacts ==
  ASSUME NEW S, NEW s \in Seq(S), s # <<>>
  PROVE  /\ Head(s) \in S /\ Tail(s) \in Seq(S)
         /\ Range(Tail(s)) \subseteq Range(s)
         /\ \A e \in Range(s) : e # Head(s) => e \in Range(Tail(s))
<1>1. /\ Head(s) \in S /\ Tail(s) \in Seq(S) /\ Head(s) = s[1]
      /\ Len(s) \in Nat /\ DOMAIN s = 1..Len(s)
      /\ DOMAIN Tail(s) = 1..(Len(s)-1)
      /\ \A j \in 1..(Len(s)-1) : Tail(s)[j] = s[j+1]
  BY HeadTailProperties, LenProperties
<1>2. ASSUME NEW e \in Range(s), e # Head(s)
      PROVE  e \in Range(Tail(s))
  <2>1. PICK k \in 1..Len(s) : s[k] = e
    BY <1>1 DEF Range
  <2>2. k-1 \in 1..(Len(s)-1) /\ Tail(s)[k-1] = e
    BY <2>1, <1>1, <1>2
  <2> QED BY <2>2, <1>1 DEF Range
<1>3. Range(Tail(s)) \subseteq Range(s)
  BY <1>1 DEF Range
<1> QED BY <1>1, <1>2, <1>3

\* Appending to the queue (Enqueue).
LEMMA AppendFacts ==
  ASSUME NEW S, NEW s \in Seq(S), NEW e \in S
  PROVE  /\ Append(s, e) \in Seq(S) /\ Append(s, e) # <<>>
         /\ Range(Append(s, e)) = Range(s) \cup {e}
<1>1. /\ Append(s, e) \in Seq(S)
      /\ Len(s) \in Nat /\ DOMAIN s = 1..Len(s)
      /\ DOMAIN Append(s, e) = 1..(Len(s)+1)
      /\ \A j \in 1..Len(s) : Append(s, e)[j] = s[j]
      /\ Append(s, e)[Len(s)+1] = e
  BY AppendProperties, LenProperties
<1>2. Append(s, e) # <<>>
  BY <1>1
<1>3. Range(Append(s, e)) = Range(s) \cup {e}
  BY <1>1 DEF Range
<1> QED BY <1>1, <1>2, <1>3

LEMMA EmptyRange ==
  ASSUME NEW S, NEW s \in Seq(S)
  PROVE  Range(s) = {} <=> s = <<>>
<1>1. Range(s) = {s[j] : j \in 1..Len(s)} /\ Len(s) \in Nat
  BY RangeEquality, LenProperties
<1>2. CASE s = <<>>
  <2>1. Len(s) = 0
    BY <1>2, EmptySeq
  <2>2. 1..Len(s) = {}
    BY <2>1
  <2> QED BY <2>2, <1>1, <1>2
<1>3. CASE s # <<>>
  <2>1. 1 \in 1..Len(s)
    BY <1>1, <1>3, EmptySeq
  <2>2. s[1] \in Range(s)
    BY <2>1, <1>1
  <2> QED BY <2>2, <1>3
<1> QED BY <1>2, <1>3

\* The recovered queue holds exactly the rows that were read.
LEMMA ByCreationFacts ==
  ASSUME NEW S \in SUBSET Pids, NEW q \in ByCreation(S)
  PROVE  /\ q \in Seq(Pids) /\ Range(q) = S
<1>1. IsFiniteSet(S) /\ Cardinality(S) \in Nat
  BY SchedulerAssumption, FS_Subset, FS_CardinalityType
<1>2. /\ q \in [1..Cardinality(S) -> S]
      /\ \A t \in S : \E j \in 1..Cardinality(S) : q[j] = t
  BY DEF ByCreation, Bijection, Injection, Surjection
<1>3. q \in Seq(S)
  BY <1>1, <1>2, SeqDef
<1>4. q \in Seq(Pids)
  BY <1>3, SeqMonotonic
<1>5. Range(q) = S
  BY <1>2 DEF Range
<1> QED BY <1>4, <1>5

-----------------------------------------------------------------------------
(* Types *)

\* A goroutine that is executing and a request that has started hold the id of
\* a pipeline: what TypeOK lacks to be inductive, since Enqueue appends
\* cjob[c] to the queue and Begin writes the row of job[g].
Assigned ==
  /\ \A g \in Goroutines : Live(g) => job[g] \in Pids
  /\ \A c \in Clients : cpc[c] # "idle" => cjob[c] \in Pids

Typed == TypeOK /\ Assigned

LEMMA TypedInit == Init => Typed
<1> SUFFICES ASSUME Init PROVE Typed
  OBVIOUS
<1>1. <<>> \in Seq(Pids)
  OBVIOUS
<1> QED BY <1>1, SchedulerAssumption
        DEF Init, Typed, TypeOK, Assigned, Live, Status, ExecPC, ClientPC, Loops

LEMMA TypedStep == Typed /\ [Next]_vars => Typed'
<1> SUFFICES ASSUME TypeOK, Assigned, [Next]_vars
             PROVE  TypeOK' /\ Assigned'
  BY DEF Typed
<1> USE SchedulerAssumption
    DEF Assigned, TypeOK, Live, Status, ExecPC, ClientPC, Loops, rows, sched, execs, reqs
<1>1. CASE UNCHANGED vars
  BY <1>1 DEF vars
<1>2. ASSUME NEW l \in Loops, NEW g \in Goroutines, DispatchNext(l, g)
      PROVE  TypeOK' /\ Assigned'
  <2>1. Head(queue) \in Pids /\ Tail(queue) \in Seq(Pids)
    BY <1>2, TailFacts DEF DispatchNext
  <2>2. queue' \in Seq(Pids)
    BY <1>2, <2>1 DEF DispatchNext
  <2> QED BY <1>2, <2>1, <2>2 DEF DispatchNext, StartExecutor
<1>3. ASSUME NEW l \in Loops, DispatchDone(l)
      PROVE  TypeOK' /\ Assigned'
  BY <1>3 DEF DispatchDone
<1>4. ASSUME NEW g \in Goroutines, ExecStep(g)
      PROVE  TypeOK' /\ Assigned'
  <2>1. CASE Begin(g)         BY <2>1 DEF Begin
  <2>2. CASE LoadFails(g)     BY <2>2 DEF LoadFails
  <2>3. CASE ContextFails(g)  BY <2>3 DEF ContextFails
  <2>4. CASE EngineStart(g)   BY <2>4 DEF EngineStart
  <2>5. CASE EngineReturns(g)
    <3>1. /\ pc' \in [Goroutines -> ExecPC] /\ \A h \in Goroutines : Live(h)' => Live(h)
          /\ verdict' \in [Goroutines -> Status]
      BY <2>5 DEF EngineReturns, Results
    <3> QED BY <2>5, <3>1 DEF EngineReturns
  <2>6. CASE CancelOldImageReady(g) BY <2>6 DEF CancelOldImageReady
  <2>7. CASE Recheck(g)       BY <2>7 DEF Recheck
  <2>8. CASE SaveVerdict(g)   BY <2>8 DEF SaveVerdict
  <2>9. CASE Exit(g)          BY <2>9 DEF Exit, LockAndDispatch, Release
  <2> QED BY <1>4, <2>1, <2>2, <2>3, <2>4, <2>5, <2>6, <2>7, <2>8, <2>9 DEF ExecStep
<1>5. ASSUME NEW c \in Clients, ClientStep(c)
      PROVE  TypeOK' /\ Assigned'
  <2>1. ASSUME NEW p \in Pids, Create(c, p)
        PROVE  TypeOK' /\ Assigned'
    <3>1. Cardinality({q \in Pids : status[q] # "none"}) + 1 \in Nat
      BY FS_Subset, FS_CardinalityType
    <3> QED BY <2>1, <3>1 DEF Create, At
  <2>2. CASE Enqueue(c)
    <3>1. queue' \in Seq(Pids)
      BY <2>2, AppendFacts DEF Enqueue
    <3> QED BY <2>2, <3>1 DEF Enqueue, LockAndDispatch, At
  <2>3. ASSUME NEW p \in Pids, DeployRead(c, p)
        PROVE  TypeOK' /\ Assigned'
    BY <2>3 DEF DeployRead, At
  <2>4. CASE DeploySave(c)
    BY <2>4 DEF DeploySave
  <2>5. ASSUME NEW p \in Pids, Cancel(c, p)
        PROVE  TypeOK' /\ Assigned'
    <3>1. queue' \in Seq(Pids)
      BY <2>5, RemoveAtFacts DEF Cancel
    <3>2. status' \in [Pids -> Status]
      BY <2>5 DEF Cancel
    <3>3. canceled' \in [Goroutines -> BOOLEAN]
      <4>1. \A g \in Goroutines : (canceled[g] \/ running[p] = g) \in BOOLEAN
        OBVIOUS
      <4>2. [g \in Goroutines |-> canceled[g] \/ running[p] = g] \in [Goroutines -> BOOLEAN]
        BY <4>1, Zenon
      <4>3. \/ canceled' = canceled
            \/ canceled' = [g \in Goroutines |-> canceled[g] \/ running[p] = g]
        BY <2>5, Zenon DEF Cancel
      <4> QED BY <4>2, <4>3
    <3>4. /\ cpc' = [cpc EXCEPT ![c] = "cancel"] /\ cjob' = [cjob EXCEPT ![c] = p]
          /\ UNCHANGED <<createdAt, up, crashes, running, maxSlots, dispatching, pc, job, verdict>>
      BY <2>5, Zenon DEF Cancel, At
    <3> QED BY <3>1, <3>2, <3>3, <3>4
  <2>6. CASE CancelMark(c)
    BY <2>6 DEF CancelMark, At
  <2> QED BY <1>5, <2>1, <2>2, <2>3, <2>4, <2>5, <2>6 DEF ClientStep
<1>6. ASSUME NEW n \in Limits, SetConcurrency(n)
      PROVE  TypeOK' /\ Assigned'
  BY <1>6 DEF SetConcurrency, LockAndDispatch
<1>7. CASE Crash
  <2>1. queue' \in Seq(Pids)
    BY <1>7 DEF Crash
  <2>2. /\ dispatching' \in SUBSET Loops /\ running' \in [Pids -> Goroutines \cup {NoGo}]
        /\ cpc' \in [Clients -> ClientPC] /\ cjob' \in [Clients -> Pids \cup {NoPid}]
        /\ \A c \in Clients : cpc'[c] = "idle"
    BY <1>7 DEF Crash
  <2>3. /\ pc' \in [Goroutines -> ExecPC] /\ job' \in [Goroutines -> Pids \cup {NoPid}]
        /\ canceled' \in [Goroutines -> BOOLEAN] /\ verdict' \in [Goroutines -> Status]
        /\ \A g \in Goroutines : pc'[g] = "idle"
    BY <1>7 DEF Crash, NoExecs
  <2>4. up' \in BOOLEAN
    BY <1>7, Zenon DEF Crash
  <2>5. crashes' \in Nat
    BY <1>7 DEF Crash
  <2>6. UNCHANGED <<status, createdAt, maxSlots>>
    BY <1>7 DEF Crash
  <2> QED BY <2>1, <2>2, <2>3, <2>4, <2>5, <2>6
<1>8. CASE Restart
  <2>1. queue' \in Seq(Pids)
    BY <1>8, ByCreationFacts DEF Restart, Requeued, WithStatus
  <2> QED BY <1>8, <2>1 DEF Restart
<1> QED BY <1>1, <1>2, <1>3, <1>4, <1>5, <1>6, <1>7, <1>8 DEF Next, DispatchStep

\* Every variable keeps its type, and the queue only ever holds pipeline ids.
THEOREM TypeCorrect == Spec => []TypeOK
<1>1. Typed => TypeOK
  BY DEF Typed
<1> QED BY <1>1, TypedInit, TypedStep, PTL DEF Spec

LEMMA TypedAlways == Spec => []Typed
<1> QED BY TypedInit, TypedStep, PTL DEF Spec
-----------------------------------------------------------------------------
(* Slots *)

LEMMA SlotsOwnedStep == Typed /\ SlotsOwned /\ [Next]_vars => SlotsOwned'
<1> SUFFICES ASSUME TypeOK, Assigned, SlotsOwned, [Next]_vars
             PROVE  SlotsOwned'
  BY DEF Typed
<1>1. ASSUME NEW l \in Loops, NEW g \in Goroutines, DispatchNext(l, g)
      PROVE  SlotsOwned'
  \* g was idle, so no entry of the map named it
  <2>1. \A p \in Pids : running[p] # g
    BY <1>1, SchedulerAssumption DEF DispatchNext, SlotsOwned
  <2> QED BY <1>1, <2>1 DEF DispatchNext, StartExecutor, SlotsOwned, Live, TypeOK
<1>2. ASSUME NEW g \in Goroutines, Exit(g)
      PROVE  SlotsOwned'
  \* the only entry that names g is the one it deletes
  <2>1. \A p \in Pids : running[p] = g => p = job[g]
    BY SchedulerAssumption DEF SlotsOwned
  <2> QED BY <1>2, <2>1 DEF Exit, Release, SlotsOwned, Live, TypeOK
<1>3. ASSUME NEW g \in Goroutines, ExecStep(g), ~Exit(g)
      PROVE  SlotsOwned'
  <2>1. UNCHANGED <<running, job>> /\ \A h \in Goroutines : Live(h) => Live(h)'
    BY <1>3 DEF ExecStep, Begin, LoadFails, ContextFails, EngineStart, EngineReturns,
                Results, CancelOldImageReady, Recheck, SaveVerdict, sched, Live, TypeOK
  <2> QED BY <2>1 DEF SlotsOwned, TypeOK
<1>4. CASE Crash
  BY <1>4 DEF Crash, SlotsOwned
<1>5. CASE \/ UNCHANGED vars \/ Restart
           \/ \E l \in Loops : DispatchDone(l)
           \/ \E c \in Clients : ClientStep(c)
           \/ \E n \in Limits : SetConcurrency(n)
  <2>1. UNCHANGED <<running, pc, job>>
    BY <1>5 DEF vars, sched, execs, Restart, DispatchDone, ClientStep, Create, DeployRead,
                Cancel, Enqueue, DeploySave, CancelMark, SetConcurrency
  <2> QED BY <2>1 DEF SlotsOwned, Live
<1> QED BY <1>1, <1>2, <1>3, <1>4, <1>5 DEF Next, DispatchStep

\* No slot leaks, however often a pipeline is dispatched, overtaken by a second
\* dispatch of the same id, canceled or cut off by a crash.
THEOREM SlotsNeverLeak == Spec => []SlotsOwned
<1>1. Init => SlotsOwned
  BY DEF Init, SlotsOwned
<1> QED BY <1>1, TypedAlways, SlotsOwnedStep, PTL DEF Spec

-----------------------------------------------------------------------------
(* Dispatching *)

LEMMA WorkConservingStep ==
  Typed /\ WorkConserving /\ [Next]_vars => WorkConserving'
<1> SUFFICES ASSUME TypeOK, Assigned, WorkConserving, [Next]_vars,
                    up', dispatching' = {}
             PROVE  queue' = <<>> \/ ~SlotFree'
  BY DEF Typed, WorkConserving
<1>1. ASSUME NEW l \in Loops, NEW g \in Goroutines, DispatchNext(l, g)
      PROVE  FALSE
  BY <1>1 DEF DispatchNext
<1>2. ASSUME NEW l \in Loops, DispatchDone(l)
      PROVE  queue' = <<>> \/ ~SlotFree'
  BY <1>2 DEF DispatchDone, SlotFree, Occupied
<1>3. ASSUME LockAndDispatch
      PROVE  FALSE
  BY <1>3 DEF LockAndDispatch
<1>4. ASSUME NEW c \in Clients, NEW p \in Pids, Cancel(c, p)
      PROVE  queue' = <<>> \/ ~SlotFree'
  <2>1. UNCHANGED <<up, running, maxSlots, dispatching>>
    BY <1>4 DEF Cancel
  <2>2. CASE ~SlotFree
    BY <2>1, <2>2 DEF SlotFree, Occupied
  <2>3. CASE queue = <<>>
    <3>1. Range(queue) = {}
      BY <2>3, EmptyRange DEF TypeOK
    <3>2. p \notin Range(queue)
      BY <3>1
    <3> QED BY <1>4, <2>3, <3>2 DEF Cancel
  <2> QED BY <2>1, <2>2, <2>3 DEF WorkConserving
<1>5. CASE Restart
  <2>1. Requeued = {} /\ queue' \in ByCreation(Requeued)
    BY <1>5 DEF Restart
  <2>2. queue' \in Seq(Pids) /\ Range(queue') = {}
    BY <2>1, ByCreationFacts DEF Requeued, WithStatus
  <2>3. queue' = <<>>
    BY <2>2, EmptyRange
  <2> QED BY <2>3
<1>6. CASE Crash
  BY <1>6 DEF Crash
<1>7. CASE \/ UNCHANGED vars
           \/ \E g \in Goroutines : ExecStep(g) /\ ~Exit(g)
           \/ \E c \in Clients : \/ \E p \in Pids : Create(c, p) \/ DeployRead(c, p)
                                 \/ DeploySave(c) \/ CancelMark(c)
  <2>1. UNCHANGED <<up, queue, running, maxSlots, dispatching>>
    BY <1>7 DEF vars, sched, ExecStep, Begin, LoadFails, ContextFails, EngineStart,
                EngineReturns, CancelOldImageReady, Recheck, SaveVerdict, Create,
                DeployRead, DeploySave, CancelMark
  <2> QED BY <2>1 DEF WorkConserving, SlotFree, Occupied
<1> QED BY <1>1, <1>2, <1>3, <1>4, <1>5, <1>6, <1>7
        DEF Next, DispatchStep, ExecStep, Exit, ClientStep, Enqueue, SetConcurrency

\* Work waits only for a slot: every action that frees one, or adds work, goes
\* through a dispatch loop, and the loop ends only when one of the two ran out.
THEOREM AlwaysWorkConserving == Spec => []WorkConserving
<1>1. Init => WorkConserving
  BY DEF Init, WorkConserving
<1> QED BY <1>1, TypedAlways, WorkConservingStep, PTL DEF Spec
-----------------------------------------------------------------------------
(* Rows *)

\* What a goroutine is about to save is never PENDING, RUNNING or DEPLOYING.
VerdictFinal ==
  \A g \in Goroutines :
    pc[g] = "save" => verdict[g] \in {"SUCCESS", "FAILED", "IMAGE_READY", "CANCELED"}

LEMMA VerdictFinalStep == Typed /\ VerdictFinal /\ [Next]_vars => VerdictFinal'
<1> SUFFICES ASSUME TypeOK, VerdictFinal, [Next]_vars
             PROVE  VerdictFinal'
  BY DEF Typed
<1> USE DEF TypeOK, VerdictFinal
<1>1. ASSUME NEW l \in Loops, NEW g \in Goroutines, DispatchNext(l, g)
      PROVE  VerdictFinal'
  BY <1>1 DEF DispatchNext, StartExecutor
<1>2. ASSUME NEW g \in Goroutines, ExecStep(g)
      PROVE  VerdictFinal'
  <2>1. CASE EngineReturns(g)
    BY <2>1 DEF EngineReturns, Results
  <2>2. CASE \/ ContextFails(g) \/ CancelOldImageReady(g) \/ Recheck(g)
    BY <2>2 DEF ContextFails, CancelOldImageReady, Recheck
  <2>3. CASE \/ Begin(g) \/ LoadFails(g) \/ EngineStart(g) \/ SaveVerdict(g) \/ Exit(g)
    BY <2>3 DEF Begin, LoadFails, EngineStart, SaveVerdict, Exit
  <2> QED BY <1>2, <2>1, <2>2, <2>3 DEF ExecStep
<1>3. CASE Crash
  BY <1>3 DEF Crash, NoExecs
<1>4. CASE \/ UNCHANGED vars \/ Restart
           \/ \E l \in Loops : DispatchDone(l)
           \/ \E c \in Clients : ClientStep(c)
           \/ \E n \in Limits : SetConcurrency(n)
  <2>1. UNCHANGED <<pc, verdict>>
    BY <1>4 DEF vars, execs, Restart, DispatchDone, ClientStep, Create, DeployRead,
                Cancel, Enqueue, DeploySave, CancelMark, SetConcurrency
  <2> QED BY <2>1
<1> QED BY <1>1, <1>2, <1>3, <1>4 DEF Next, DispatchStep

LEMMA VerdictFinalAlways == Spec => []VerdictFinal
<1>1. Init => VerdictFinal
  BY DEF Init, VerdictFinal
<1> QED BY <1>1, TypedAlways, VerdictFinalStep, PTL DEF Spec

Running(p) ==
  \E g \in Goroutines :
    job[g] = p /\ pc[g] \in {"context", "run", "cancel_old", "recheck", "save"}

LEMMA RunningOwnedStep ==
  Typed /\ VerdictFinal /\ RunningOwned /\ [Next]_vars => RunningOwned'
<1> SUFFICES ASSUME TypeOK, Assigned, VerdictFinal, RunningOwned, [Next]_vars, up',
                    NEW p \in Pids, status'[p] = "RUNNING"
             PROVE  Running(p)'
  BY DEF Typed, RunningOwned, Running, WithStatus
<1> USE DEF TypeOK, Running
<1>1. ASSUME NEW l \in Loops, NEW g \in Goroutines, DispatchNext(l, g)
      PROVE  Running(p)'
  <2>1. status[p] = "RUNNING" /\ up /\ pc[g] = "idle"
    BY <1>1 DEF DispatchNext, Live, rows
  <2>2. PICK h \in Goroutines : job[h] = p /\ pc[h] \in {"context", "run", "cancel_old", "recheck", "save"}
    BY <2>1 DEF RunningOwned
  <2> QED BY <1>1, <2>1, <2>2 DEF DispatchNext, StartExecutor
<1>2. ASSUME NEW g \in Goroutines, ExecStep(g)
      PROVE  Running(p)'
  <2>1. CASE Begin(g) /\ job[g] = p
    BY <2>1 DEF Begin
  <2>2. CASE ~(Begin(g) /\ job[g] = p)
    <3>1. up /\ status[p] = "RUNNING"
      BY <1>2, <2>2 DEF ExecStep, Begin, LoadFails, ContextFails, EngineStart, EngineReturns,
         CancelOldImageReady, Recheck, SaveVerdict, Exit, VerdictFinal, rows
    <3>2. PICK h \in Goroutines : job[h] = p /\ pc[h] \in {"context", "run", "cancel_old", "recheck", "save"}
      BY <3>1 DEF RunningOwned
    <3>3. CASE SaveVerdict(g)
      <4>1. job[g] # p
        BY <3>3 DEF SaveVerdict, VerdictFinal
      <4> QED BY <3>2, <3>3, <4>1 DEF SaveVerdict
    <3>4. CASE EngineReturns(g)
      BY <3>2, <3>4 DEF EngineReturns, Results
    <3>5. CASE Exit(g) \/ LoadFails(g) \/ Begin(g)
      BY <3>2, <3>5 DEF Exit, LoadFails, Begin
    <3>6. CASE ContextFails(g) \/ EngineStart(g) \/ CancelOldImageReady(g) \/ Recheck(g)
      BY <3>2, <3>6 DEF ContextFails, EngineStart, CancelOldImageReady, Recheck
    <3> QED BY <1>2, <3>3, <3>4, <3>5, <3>6 DEF ExecStep
  <2> QED BY <2>1, <2>2
<1>3. CASE Crash
  BY <1>3 DEF Crash
<1>4. CASE Restart
  BY <1>4 DEF Restart, Stranded, WithStatus
<1>5. CASE \/ UNCHANGED vars
           \/ \E l \in Loops : DispatchDone(l)
           \/ \E c \in Clients : ClientStep(c)
           \/ \E n \in Limits : SetConcurrency(n)
  <2>1. UNCHANGED <<pc, job, up>>
    BY <1>5 DEF vars, execs, DispatchDone, ClientStep, Create, DeployRead,
                Cancel, Enqueue, DeploySave, CancelMark, SetConcurrency
  <2>2. status[p] = "RUNNING"
    BY <1>5 DEF vars, rows, DispatchDone, ClientStep, Create, DeployRead,
                Cancel, Enqueue, DeploySave, CancelMark, SetConcurrency
  <2> QED BY <2>1, <2>2 DEF RunningOwned
<1> QED BY <1>1, <1>2, <1>3, <1>4, <1>5 DEF Next, DispatchStep

\* No row is left RUNNING without an executor, whichever requests and goroutines
\* overlap, and across crashes.
THEOREM RunningAlwaysOwned == Spec => []RunningOwned
<1>1. Init => RunningOwned
  BY DEF Init, RunningOwned
<1> QED BY <1>1, TypedAlways, VerdictFinalAlways, RunningOwnedStep, PTL DEF Spec
-----------------------------------------------------------------------------
(* Submissions *)

Tracked(p) ==
  \/ p \in Range(queue)
  \/ \E g \in Goroutines : pc[g] = "load" /\ job[g] = p
  \/ \E c \in Clients : cpc[c] = "enqueue" /\ cjob[c] = p

LEMMA PendingTrackedStep ==
  ASSUME DbFaults = FALSE
  PROVE  Typed /\ VerdictFinal /\ PendingTracked /\ [Next]_vars => PendingTracked'
<1> SUFFICES ASSUME TypeOK, Assigned, VerdictFinal, PendingTracked, [Next]_vars, up',
                    NEW p \in Pids, status'[p] = "PENDING"
             PROVE  Tracked(p)'
  BY DEF Typed, PendingTracked, Tracked, WithStatus
<1>old. ASSUME up, status[p] = "PENDING" PROVE Tracked(p)
  BY <1>old DEF PendingTracked, Tracked, WithStatus
<1>1. ASSUME NEW l \in Loops, NEW g \in Goroutines, DispatchNext(l, g)
      PROVE  Tracked(p)'
  <2>1. /\ Tracked(p) /\ pc[g] = "idle" /\ queue # <<>>
        /\ pc' = [pc EXCEPT ![g] = "load"] /\ job' = [job EXCEPT ![g] = Head(queue)]
        /\ UNCHANGED <<cpc, cjob>>
        /\ queue' = Tail(queue) \/ queue' = queue
    BY <1>1, <1>old DEF DispatchNext, StartExecutor, Live, rows, reqs
  <2>2. CASE p \in Range(queue)
    <3>1. CASE p = Head(queue)
      BY <2>1, <3>1 DEF Tracked, TypeOK
    <3>2. CASE p # Head(queue)
      <4>1. p \in Range(queue')
        BY <2>1, <2>2, <3>2, TailFacts DEF TypeOK
      <4> QED BY <4>1 DEF Tracked
    <3> QED BY <3>1, <3>2
  <2>3. CASE \E h \in Goroutines : pc[h] = "load" /\ job[h] = p
    BY <2>1, <2>3 DEF Tracked, TypeOK
  <2>4. CASE \E c \in Clients : cpc[c] = "enqueue" /\ cjob[c] = p
    BY <2>1, <2>4 DEF Tracked
  <2> QED BY <2>1, <2>2, <2>3, <2>4 DEF Tracked
<1>2. ASSUME NEW g \in Goroutines, ExecStep(g)
      PROVE  Tracked(p)'
  \* the goroutine's own row leaves PENDING when it leaves "load"
  <2>1. /\ UNCHANGED <<queue, cpc, cjob>> /\ up
        /\ \A h \in Goroutines : h # g => pc'[h] = pc[h] /\ job'[h] = job[h]
    BY <1>2 DEF ExecStep, Begin, LoadFails, ContextFails, EngineStart, EngineReturns,
       CancelOldImageReady, Recheck, SaveVerdict, Exit, Release, sched, reqs, TypeOK
  <2>2. status[p] = "PENDING" /\ ~(pc[g] = "load" /\ job[g] = p)
    BY <1>2 DEF ExecStep, Begin, LoadFails, ContextFails, EngineStart, EngineReturns,
       CancelOldImageReady, Recheck, SaveVerdict, Exit, rows, TypeOK, VerdictFinal
  <2>3. Tracked(p)
    BY <2>1, <2>2, <1>old
  <2> QED BY <2>1, <2>2, <2>3 DEF Tracked
<1>3. ASSUME NEW c \in Clients, ClientStep(c)
      PROVE  Tracked(p)'
  <2>1. ASSUME NEW q \in Pids, Create(c, q)
        PROVE  Tracked(p)'
    <3>1. /\ UNCHANGED <<queue, pc, job>> /\ up /\ cpc[c] = "idle"
          /\ cpc' = [cpc EXCEPT ![c] = "enqueue"] /\ cjob' = [cjob EXCEPT ![c] = q]
          /\ status' = [status EXCEPT ![q] = "PENDING"]
      BY <2>1 DEF Create, At, Serving, sched, execs
    <3>2. CASE p = q
      BY <3>1, <3>2 DEF Tracked, TypeOK
    <3>3. CASE p # q
      <4>1. Tracked(p)
        BY <3>1, <3>3, <1>old DEF TypeOK
      <4> QED BY <3>1, <4>1 DEF Tracked, TypeOK
    <3> QED BY <3>2, <3>3
  <2>2. CASE Enqueue(c)
    <3>1. /\ UNCHANGED <<pc, job>> /\ Tracked(p) /\ cjob[c] \in Pids
          /\ cpc' = [cpc EXCEPT ![c] = "idle"] /\ cjob' = [cjob EXCEPT ![c] = NoPid]
          /\ queue' = Append(queue, cjob[c])
      BY <2>2, <1>old DEF Enqueue, At, Serving, rows, execs, Assigned
    <3>2. Range(queue') = Range(queue) \cup {cjob[c]}
      BY <3>1, AppendFacts DEF TypeOK
    <3> QED BY <3>1, <3>2 DEF Tracked, TypeOK
  <2>3. ASSUME NEW q \in Pids, Cancel(c, q)
        PROVE  Tracked(p)'
    <3>1. /\ UNCHANGED <<pc, job>> /\ up /\ cpc[c] = "idle"
          /\ cpc' = [cpc EXCEPT ![c] = "cancel"] /\ cjob' = [cjob EXCEPT ![c] = q]
      BY <2>3 DEF Cancel, At, Serving
    <3>2. CASE q \in Range(queue)
      <4>1. PICK i \in DOMAIN queue : queue[i] = q /\ queue' = RemoveAt(queue, i)
        BY <2>3, <3>2 DEF Cancel
      <4>2. status' = [status EXCEPT ![q] = "CANCELED"]
        BY <2>3, <3>2 DEF Cancel
      <4>3. p # q /\ status[p] = "PENDING"
        BY <4>2 DEF TypeOK
      <4>4. p \in Range(queue) => p \in Range(queue')
        BY <4>1, <4>3, RemoveAtFacts DEF TypeOK
      <4>5. Tracked(p)
        BY <3>1, <4>3, <1>old
      <4> QED BY <3>1, <4>4, <4>5 DEF Tracked, TypeOK
    <3>3. CASE q \notin Range(queue)
      <4>1. UNCHANGED <<queue, status>>
        BY <2>3, <3>3 DEF Cancel
      <4>2. Tracked(p)
        BY <3>1, <4>1, <1>old
      <4> QED BY <3>1, <4>1, <4>2 DEF Tracked, TypeOK
    <3> QED BY <3>2, <3>3
  <2>4. CASE \/ \E q \in Pids : DeployRead(c, q)
             \/ DeploySave(c) \/ CancelMark(c)
    <3>1. /\ UNCHANGED <<queue, pc, job>> /\ up /\ cpc[c] # "enqueue"
          /\ \A d \in Clients : d # c => cpc'[d] = cpc[d] /\ cjob'[d] = cjob[d]
      BY <2>4 DEF DeployRead, DeploySave, CancelMark, At, Serving, sched, execs, TypeOK
    <3>2. status[p] = "PENDING"
      BY <2>4 DEF DeployRead, DeploySave, CancelMark, rows, TypeOK
    <3>3. Tracked(p)
      BY <3>1, <3>2, <1>old
    <3> QED BY <3>1, <3>3 DEF Tracked
  <2> QED BY <1>3, <2>1, <2>2, <2>3, <2>4 DEF ClientStep
<1>4. CASE Crash
  BY <1>4 DEF Crash
<1>5. CASE Restart
  <2>1. status[p] = "PENDING" /\ queue' \in ByCreation(Requeued)
    BY <1>5 DEF Restart, TypeOK
  <2>2. Range(queue') = Requeued
    BY <2>1, ByCreationFacts DEF Requeued, WithStatus
  <2> QED BY <2>1, <2>2 DEF Tracked, Requeued, WithStatus
<1>6. CASE \/ UNCHANGED vars
           \/ \E l \in Loops : DispatchDone(l)
           \/ \E n \in Limits : SetConcurrency(n)
  <2>1. UNCHANGED <<status, up, queue, pc, job, cpc, cjob>>
    BY <1>6 DEF vars, rows, sched, execs, reqs, DispatchDone, SetConcurrency
  <2> QED BY <2>1, <1>old DEF Tracked
<1> QED BY <1>1, <1>2, <1>3, <1>4, <1>5, <1>6 DEF Next, DispatchStep

\* As long as row reads succeed, no submitted pipeline is lost: neither in the
\* window between its commit and its enqueueing nor between its dispatch and
\* its first save, even when Init's unlocked loop re-reads a popped head, and
\* every restart finds it again.
THEOREM NoSubmissionLost ==
  ASSUME DbFaults = FALSE
  PROVE  Spec => []PendingTracked
<1>1. Init => PendingTracked
  BY DEF Init, PendingTracked, WithStatus
<1>2. Typed /\ VerdictFinal /\ PendingTracked /\ [Next]_vars => PendingTracked'
  BY PendingTrackedStep
<1> QED BY <1>1, <1>2, TypedAlways, VerdictFinalAlways, PTL DEF Spec

\* A confirmed pipeline is queued, about to be, or just dispatched, in a process
\* that was never restarted (its recovery does not look for DEPLOYING rows).
ConfirmedTracked ==
  /\ up
  /\ \A p \in Pids : status[p] = "DEPLOYING" => Tracked(p)

LEMMA ConfirmedTrackedStep ==
  ASSUME DbFaults = FALSE, MaxCrashes = 0
  PROVE  Typed /\ VerdictFinal /\ ConfirmedTracked /\ [Next]_vars => ConfirmedTracked'
<1> SUFFICES ASSUME TypeOK, Assigned, VerdictFinal, ConfirmedTracked, [Next]_vars
             PROVE  ConfirmedTracked'
  BY DEF Typed
<1>up. up /\ up'
  <2>1. up /\ ~(crashes < MaxCrashes)
    BY DEF ConfirmedTracked, TypeOK
  <2>2. ASSUME NEW g \in Goroutines, ExecStep(g) PROVE UNCHANGED up
    BY <2>2 DEF ExecStep, Begin, LoadFails, ContextFails, EngineStart, EngineReturns,
       CancelOldImageReady, Recheck, SaveVerdict, Exit
  <2>3. ASSUME NEW c \in Clients, ClientStep(c) PROVE UNCHANGED up
    BY <2>3 DEF ClientStep, Create, DeployRead, Cancel, Enqueue, DeploySave, CancelMark
  <2>4. ASSUME DispatchStep PROVE UNCHANGED up
    BY <2>4 DEF DispatchStep, DispatchNext, DispatchDone
  <2>5. ASSUME NEW n \in Limits, SetConcurrency(n) PROVE UNCHANGED up
    BY <2>5 DEF SetConcurrency
  <2>6. ~Crash /\ ~Restart
    BY <2>1 DEF Crash, Restart
  <2>7. CASE UNCHANGED vars
    BY <2>1, <2>7 DEF vars
  <2> QED BY <2>1, <2>2, <2>3, <2>4, <2>5, <2>6, <2>7 DEF Next
<1> SUFFICES ASSUME NEW p \in Pids, status'[p] = "DEPLOYING"
             PROVE  Tracked(p)'
  BY <1>up DEF ConfirmedTracked
<1>old. ASSUME status[p] = "DEPLOYING" PROVE Tracked(p)
  BY <1>old DEF ConfirmedTracked
<1>1. ASSUME NEW l \in Loops, NEW g \in Goroutines, DispatchNext(l, g)
      PROVE  Tracked(p)'
  <2>1. /\ Tracked(p) /\ pc[g] = "idle" /\ queue # <<>>
        /\ pc' = [pc EXCEPT ![g] = "load"] /\ job' = [job EXCEPT ![g] = Head(queue)]
        /\ UNCHANGED <<cpc, cjob>>
        /\ queue' = Tail(queue) \/ queue' = queue
    BY <1>1, <1>old DEF DispatchNext, StartExecutor, Live, rows, reqs
  <2>2. CASE p \in Range(queue)
    <3>1. CASE p = Head(queue)
      BY <2>1, <3>1 DEF Tracked, TypeOK
    <3>2. CASE p # Head(queue)
      <4>1. p \in Range(queue')
        BY <2>1, <2>2, <3>2, TailFacts DEF TypeOK
      <4> QED BY <4>1 DEF Tracked
    <3> QED BY <3>1, <3>2
  <2>3. CASE \E h \in Goroutines : pc[h] = "load" /\ job[h] = p
    BY <2>1, <2>3 DEF Tracked, TypeOK
  <2>4. CASE \E c \in Clients : cpc[c] = "enqueue" /\ cjob[c] = p
    BY <2>1, <2>4 DEF Tracked
  <2> QED BY <2>1, <2>2, <2>3, <2>4 DEF Tracked
<1>2. ASSUME NEW g \in Goroutines, ExecStep(g)
      PROVE  Tracked(p)'
  \* the goroutine's own row leaves DEPLOYING when it leaves "load"
  <2>1. /\ UNCHANGED <<queue, cpc, cjob>> /\ up
        /\ \A h \in Goroutines : h # g => pc'[h] = pc[h] /\ job'[h] = job[h]
    BY <1>2 DEF ExecStep, Begin, LoadFails, ContextFails, EngineStart, EngineReturns,
       CancelOldImageReady, Recheck, SaveVerdict, Exit, Release, sched, reqs, TypeOK
  <2>2. status[p] = "DEPLOYING" /\ ~(pc[g] = "load" /\ job[g] = p)
    <3>1. CASE Begin(g)
      BY <3>1 DEF Begin, TypeOK
    <3>2. CASE SaveVerdict(g)
      <4>1. verdict[g] # "DEPLOYING" /\ pc[g] # "load"
        BY <3>2 DEF SaveVerdict, VerdictFinal
      <4> QED BY <3>2, <4>1 DEF SaveVerdict, TypeOK
    <3>3. CASE CancelOldImageReady(g)
      BY <3>3 DEF CancelOldImageReady
    <3>4. CASE \/ ContextFails(g) \/ EngineStart(g) \/ EngineReturns(g)
               \/ Recheck(g) \/ Exit(g)
      BY <3>4 DEF ContextFails, EngineStart, EngineReturns, Recheck, Exit, rows
    <3>5. ~LoadFails(g)
      BY DEF LoadFails
    <3> QED BY <1>2, <3>1, <3>2, <3>3, <3>4, <3>5 DEF ExecStep
  <2>3. Tracked(p)
    BY <2>2, <1>old
  <2>4. CASE p \in Range(queue)
    BY <2>1, <2>4 DEF Tracked
  <2>5. CASE \E h \in Goroutines : pc[h] = "load" /\ job[h] = p
    BY <2>1, <2>2, <2>5 DEF Tracked
  <2>6. CASE \E c \in Clients : cpc[c] = "enqueue" /\ cjob[c] = p
    BY <2>1, <2>6 DEF Tracked
  <2> QED BY <2>3, <2>4, <2>5, <2>6 DEF Tracked
<1>3. ASSUME NEW c \in Clients, ClientStep(c)
      PROVE  Tracked(p)'
  <2>1. ASSUME NEW q \in Pids, Create(c, q)
        PROVE  Tracked(p)'
    <3>1. /\ UNCHANGED <<queue, pc, job>> /\ up /\ cpc[c] = "idle"
          /\ cpc' = [cpc EXCEPT ![c] = "enqueue"] /\ cjob' = [cjob EXCEPT ![c] = q]
          /\ status' = [status EXCEPT ![q] = "PENDING"]
      BY <2>1 DEF Create, At, Serving, sched, execs
    <3>2. p # q
      BY <3>1 DEF TypeOK
    <3>3. Tracked(p)
      BY <3>1, <3>2, <1>old DEF TypeOK
    <3> QED BY <3>1, <3>3 DEF Tracked, TypeOK
  <2>2. CASE Enqueue(c)
    <3>1. /\ UNCHANGED <<pc, job>> /\ Tracked(p) /\ cjob[c] \in Pids
          /\ cpc' = [cpc EXCEPT ![c] = "idle"] /\ cjob' = [cjob EXCEPT ![c] = NoPid]
          /\ queue' = Append(queue, cjob[c])
      BY <2>2, <1>old DEF Enqueue, At, Serving, rows, execs, Assigned
    <3>2. Range(queue') = Range(queue) \cup {cjob[c]}
      BY <3>1, AppendFacts DEF TypeOK
    <3> QED BY <3>1, <3>2 DEF Tracked, TypeOK
  <2>3. ASSUME NEW q \in Pids, Cancel(c, q)
        PROVE  Tracked(p)'
    <3>1. /\ UNCHANGED <<pc, job>> /\ up /\ cpc[c] = "idle"
          /\ cpc' = [cpc EXCEPT ![c] = "cancel"] /\ cjob' = [cjob EXCEPT ![c] = q]
      BY <2>3 DEF Cancel, At, Serving
    <3>2. CASE q \in Range(queue)
      <4>1. PICK i \in DOMAIN queue : queue[i] = q /\ queue' = RemoveAt(queue, i)
        BY <2>3, <3>2 DEF Cancel
      <4>2. status' = [status EXCEPT ![q] = "CANCELED"]
        BY <2>3, <3>2 DEF Cancel
      <4>3. p # q /\ status[p] = "DEPLOYING"
        BY <4>2 DEF TypeOK
      <4>4. p \in Range(queue) => p \in Range(queue')
        BY <4>1, <4>3, RemoveAtFacts DEF TypeOK
      <4>5. Tracked(p)
        BY <3>1, <4>3, <1>old
      <4> QED BY <3>1, <4>4, <4>5 DEF Tracked, TypeOK
    <3>3. CASE q \notin Range(queue)
      <4>1. UNCHANGED <<queue, status>>
        BY <2>3, <3>3 DEF Cancel
      <4>2. Tracked(p)
        BY <3>1, <4>1, <1>old
      <4> QED BY <3>1, <4>1, <4>2 DEF Tracked, TypeOK
    <3> QED BY <3>2, <3>3
  <2>4. CASE \E q \in Pids : DeployRead(c, q)
    <3>1. /\ UNCHANGED <<queue, pc, job, status>> /\ cpc[c] # "enqueue"
          /\ \A d \in Clients : d # c => cpc'[d] = cpc[d] /\ cjob'[d] = cjob[d]
      BY <2>4 DEF DeployRead, At, sched, execs, rows, TypeOK
    <3> QED BY <3>1, <1>old DEF Tracked
  <2>5. CASE DeploySave(c)
    <3>1. /\ UNCHANGED <<queue, pc, job, cjob>> /\ cpc[c] # "enqueue"
          /\ cpc' = [cpc EXCEPT ![c] = "enqueue"]
          /\ status' = [status EXCEPT ![cjob[c]] = "DEPLOYING"] /\ cjob[c] \in Pids
      BY <2>5 DEF DeploySave, sched, execs, Assigned
    <3>2. CASE p = cjob[c]
      BY <3>1, <3>2 DEF Tracked, TypeOK
    <3>3. CASE p # cjob[c]
      <4>1. Tracked(p)
        BY <3>1, <3>3, <1>old DEF TypeOK
      <4> QED BY <3>1, <4>1 DEF Tracked, TypeOK
    <3> QED BY <3>2, <3>3
  <2>6. CASE CancelMark(c)
    <3>1. /\ UNCHANGED <<queue, pc, job>> /\ cpc[c] # "enqueue"
          /\ \A d \in Clients : d # c => cpc'[d] = cpc[d] /\ cjob'[d] = cjob[d]
          /\ status[p] = "DEPLOYING"
      BY <2>6 DEF CancelMark, At, sched, execs, TypeOK
    <3> QED BY <3>1, <1>old DEF Tracked
  <2> QED BY <1>3, <2>1, <2>2, <2>3, <2>4, <2>5, <2>6 DEF ClientStep
<1>4. CASE Crash \/ Restart
  BY <1>4, <1>up DEF Crash, Restart
<1>5. CASE \/ UNCHANGED vars
           \/ \E l \in Loops : DispatchDone(l)
           \/ \E n \in Limits : SetConcurrency(n)
  <2>1. UNCHANGED <<status, queue, pc, job, cpc, cjob>>
    BY <1>5 DEF vars, rows, sched, execs, reqs, DispatchDone, SetConcurrency
  <2> QED BY <2>1, <1>old DEF Tracked
<1> QED BY <1>1, <1>2, <1>3, <1>4, <1>5 DEF Next, DispatchStep

\* As long as row reads succeed and the process lives, no confirmed deployment is
\* lost, however many requests confirm one pipeline at once.
THEOREM NoConfirmationLost ==
  ASSUME DbFaults = FALSE, MaxCrashes = 0
  PROVE  Spec => []DeployTracked
<1>1. Init => ConfirmedTracked
  BY DEF Init, ConfirmedTracked
<1>2. Typed /\ VerdictFinal /\ ConfirmedTracked /\ [Next]_vars => ConfirmedTracked'
  BY ConfirmedTrackedStep
<1>3. ConfirmedTracked => DeployTracked
  BY DEF ConfirmedTracked, DeployTracked, Tracked, Live
<1> QED BY <1>1, <1>2, <1>3, TypedAlways, VerdictFinalAlways, PTL DEF Spec

-----------------------------------------------------------------------------
(***************************************************************************)
(* When no pipeline asks for a confirmation each pipeline lives once.  It  *)
(* is in the queue, or about to enter it, or with one goroutine, never in  *)
(* two of these places, and so no more builds run than there are slots and *)
(* a finished row is not touched again.                                    *)
(***************************************************************************)

\* The program's own setting: SetConcurrency has no caller outside the tests.
Automatic ==
  /\ Approval = {} /\ RacyInit = FALSE /\ Limits = {}

-----------------------------------------------------------------------------
(* Queues without repetition *)

Once(s) == \A i, j \in DOMAIN s : s[i] = s[j] => i = j

LEMMA TailOnce ==
  ASSUME NEW S, NEW s \in Seq(S), s # <<>>, Once(s)
  PROVE  Once(Tail(s)) /\ Head(s) \notin Range(Tail(s))
<1>1. /\ Tail(s) \in Seq(S) /\ Head(s) = s[1]
      /\ Len(s) \in Nat \ {0} /\ DOMAIN s = 1..Len(s)
      /\ DOMAIN Tail(s) = 1..(Len(s)-1)
      /\ \A j \in 1..(Len(s)-1) : Tail(s)[j] = s[j+1]
  BY HeadTailProperties, LenProperties, EmptySeq
<1>2. \A j \in 1..(Len(s)-1) : j+1 \in 1..Len(s) /\ j+1 # 1
  BY <1>1
<1>3. Head(s) \notin Range(Tail(s))
  <2>1. Range(Tail(s)) = {Tail(s)[j] : j \in 1..(Len(s)-1)}
    BY <1>1, Zenon DEF Range
  <2>2. SUFFICES ASSUME NEW j \in 1..(Len(s)-1), Head(s) = Tail(s)[j]
                 PROVE  FALSE
    BY <2>1, Zenon
  <2>3. s[1] = s[j+1] /\ 1 \in DOMAIN s /\ j+1 \in DOMAIN s
    BY <1>1, <2>2
  <2>4. 1 = j+1
    BY <2>3, Zenon DEF Once
  <2> QED BY <2>4
<1>4. Once(Tail(s))
  <2> SUFFICES ASSUME NEW i \in 1..(Len(s)-1), NEW j \in 1..(Len(s)-1),
                      Tail(s)[i] = Tail(s)[j]
               PROVE  i = j
    BY <1>1, Zenon DEF Once
  <2>1. s[i+1] = s[j+1]
    BY <1>1
  <2>2. i+1 = j+1
    BY <2>1, <1>1, <1>2, Zenon DEF Once
  <2> QED BY <2>2
<1> QED BY <1>3, <1>4

LEMMA AppendOnce ==
  ASSUME NEW S, NEW s \in Seq(S), NEW e \in S, e \notin Range(s), Once(s)
  PROVE  Once(Append(s, e))
<1>1. /\ Len(s) \in Nat /\ DOMAIN s = 1..Len(s)
      /\ DOMAIN Append(s, e) = 1..(Len(s)+1)
      /\ \A j \in 1..Len(s) : Append(s, e)[j] = s[j]
      /\ Append(s, e)[Len(s)+1] = e
  BY AppendProperties, LenProperties
<1>2. \A j \in 1..Len(s) : Append(s, e)[j] # e
  <2>1. Range(s) = {s[j] : j \in 1..Len(s)}
    BY RangeEquality
  <2> QED BY <1>1, <2>1, Zenon
<1>3. \A j \in 1..(Len(s)+1) : j \in 1..Len(s) \/ j = Len(s)+1
  BY <1>1
<1> QED BY <1>1, <1>2, <1>3, Zenon DEF Once

LEMMA RemoveAtOnce ==
  ASSUME NEW S, NEW s \in Seq(S), NEW i \in DOMAIN s, Once(s)
  PROVE  Once(RemoveAt(s, i)) /\ s[i] \notin Range(RemoveAt(s, i))
<1> DEFINE c == RemoveAt(s, i)
           from(j) == IF j < i THEN j ELSE j+1
<1>1. Len(s) \in Nat /\ DOMAIN s = 1..Len(s) /\ i \in 1..Len(s)
  BY LenProperties
<1>2. DOMAIN c = 1..(Len(s)-1) /\ \A j \in 1..(Len(s)-1) : c[j] = s[from(j)]
  BY RemoveAtIndices
<1>3. \A j, k \in 1..(Len(s)-1) :
        /\ from(j) \in 1..Len(s) /\ from(j) # i
        /\ from(j) = from(k) => j = k
  BY <1>1
<1> HIDE DEF c, from
<1>4. Once(c)
  BY <1>1, <1>2, <1>3, Zenon DEF Once
<1>5. s[i] \notin Range(c)
  <2>1. SUFFICES ASSUME NEW j \in 1..(Len(s)-1), s[i] = s[from(j)]
                 PROVE  FALSE
    BY <1>2, Zenon DEF Range
  <2> QED BY <2>1, <1>1, <1>3, Zenon DEF Once
<1> QED BY <1>4, <1>5 DEF c

LEMMA ByCreationOnce ==
  ASSUME NEW S \in SUBSET Pids, NEW q \in ByCreation(S)
  PROVE  Once(q)
<1> QED BY DEF ByCreation, Bijection, Injection, IsInjective, Once
LEMMA EmptyOnce == Range(<<>>) = {} /\ Once(<<>>)
<1>1. <<>> \in Seq({}) /\ Len(<<>>) = 0 /\ DOMAIN <<>> = 1..0
  BY EmptySeq, LenProperties
<1>2. 1..0 = {}
  OBVIOUS
<1>3. Range(<<>>) = {}
  BY <1>1, EmptyRange
<1> QED BY <1>1, <1>2, <1>3 DEF Once

-----------------------------------------------------------------------------
(* The invariant *)

Alive == {"RUNNING", "CANCELED"}
Unborn == {"PENDING", "CANCELED"}

\* Nothing pauses, so nothing can be confirmed; only a row is ever canceled.
NoPause ==
  /\ \A c \in Clients : cpc[c] # "deploy"
  /\ \A c \in Clients : cpc[c] = "cancel" => status[cjob[c]] # "none"
  /\ \A g \in Goroutines : pc[g] # "cancel_old" /\ verdict[g] # "IMAGE_READY"
  /\ \A p \in Pids : status[p] \notin {"IMAGE_READY", "DEPLOYING"}

\* A queued pipeline is there once and has not begun.
QueuedOnce ==
  /\ Once(queue)
  /\ \A p \in Range(queue) : status[p] \in Unborn

\* A pipeline about to be queued is nowhere else.
SubmittedOnce ==
  \A c \in Clients : cpc[c] = "enqueue" =>
    /\ cjob[c] \notin Range(queue)
    /\ \A d \in Clients : cpc[d] = "enqueue" /\ cjob[d] = cjob[c] => d = c
    /\ \A g \in Goroutines : Live(g) => job[g] # cjob[c]
    /\ status[cjob[c]] \in Unborn

\* A dispatched pipeline is with one goroutine, which holds its slot, and its
\* row agrees with how far the goroutine has come.
RunOnce ==
  \A g \in Goroutines : Live(g) =>
    /\ job[g] \notin Range(queue)
    /\ \A h \in Goroutines : Live(h) /\ job[h] = job[g] => h = g
    /\ running[job[g]] = g
    /\ pc[g] = "load" => status[job[g]] \in Unborn
    /\ pc[g] \in {"context", "run", "recheck", "save"} => status[job[g]] \in Alive
    /\ status[job[g]] # "none"

\* A process that is down has nothing in memory.
DownEmpty ==
  ~up => /\ queue = <<>>
         /\ \A g \in Goroutines : ~Live(g)
         /\ \A c \in Clients : cpc[c] = "idle"

LivesOnce == NoPause /\ QueuedOnce /\ SubmittedOnce /\ RunOnce /\ DownEmpty

\* The map never holds more entries than there are slots.
SlotsBounded == maxSlots = DefaultSlots /\ Cardinality(Occupied) <= maxSlots

-----------------------------------------------------------------------------
(* The invariant is inductive *)

LEMMA DispatchLives ==
  ASSUME Automatic, TypeOK, Assigned, LivesOnce,
         NEW l \in Loops, NEW g \in Goroutines, DispatchNext(l, g)
  PROVE  LivesOnce'
<1> DEFINE p == Head(queue)
<1>1. /\ up /\ ~Live(g) /\ queue # <<>> /\ queue' = Tail(queue)
      /\ running' = [running EXCEPT ![p] = g]
      /\ pc' = [pc EXCEPT ![g] = "load"] /\ job' = [job EXCEPT ![g] = p]
      /\ UNCHANGED <<status, up, verdict, cpc, cjob>>
  BY DEF DispatchNext, StartExecutor, Automatic, rows, reqs
<1>2. /\ p \in Pids /\ p \in Range(queue) /\ p \notin Range(queue')
      /\ Range(queue') \subseteq Range(queue) /\ Once(queue')
  <2>1. p \in Range(queue)
    <3>1. 1 \in 1..Len(queue) /\ p = queue[1]
      BY <1>1, HeadTailProperties, EmptySeq DEF TypeOK
    <3> QED BY <3>1, RangeEquality DEF TypeOK
  <2> QED BY <1>1, <2>1, TailFacts, TailOnce DEF TypeOK, LivesOnce, QueuedOnce
<1> HIDE DEF p
<1>3. /\ status[p] \in Unborn
      /\ \A h \in Goroutines : Live(h) => job[h] # p
      /\ \A c \in Clients : cpc[c] = "enqueue" => cjob[c] # p
  BY <1>2 DEF LivesOnce, QueuedOnce, RunOnce, SubmittedOnce
<1>4. \A h \in Goroutines : /\ h # g => pc'[h] = pc[h] /\ job'[h] = job[h]
                            /\ h = g => pc'[h] = "load" /\ job'[h] = p
  BY <1>1 DEF TypeOK
<1>5. \A q \in Pids : /\ q # p => running'[q] = running[q]
                      /\ q = p => running'[q] = g
  BY <1>1 DEF TypeOK
<1>6. NoPause'
  BY <1>1, <1>4 DEF LivesOnce, NoPause
<1>7. QueuedOnce'
  BY <1>1, <1>2 DEF LivesOnce, QueuedOnce
<1>8. SubmittedOnce'
  BY <1>1, <1>2, <1>3, <1>4 DEF LivesOnce, SubmittedOnce, Live
<1>9. RunOnce'
  <2> SUFFICES ASSUME NEW h \in Goroutines, Live(h)'
               PROVE  /\ job'[h] \notin Range(queue')
                      /\ \A k \in Goroutines : Live(k)' /\ job'[k] = job'[h] => k = h
                      /\ running'[job'[h]] = h
                      /\ pc'[h] = "load" => status'[job'[h]] \in Unborn
                      /\ pc'[h] \in {"context", "run", "recheck", "save"} => status'[job'[h]] \in Alive
                      /\ status'[job'[h]] # "none"
    BY DEF RunOnce
  <2>1. CASE h = g
    BY <2>1, <1>1, <1>2, <1>3, <1>4, <1>5 DEF Live, Unborn
  <2>2. CASE h # g
    <3>1. Live(h) /\ job'[h] = job[h] /\ pc'[h] = pc[h] /\ job[h] # p /\ job[h] \in Pids
      BY <2>2, <1>3, <1>4 DEF Live, Assigned
    <3> QED BY <3>1, <2>2, <1>1, <1>2, <1>3, <1>4, <1>5 DEF LivesOnce, RunOnce, Live
  <2> QED BY <2>1, <2>2
<1>10. DownEmpty'
  BY <1>1 DEF DownEmpty
<1> QED BY <1>6, <1>7, <1>8, <1>9, <1>10 DEF LivesOnce

\* A goroutine moves on; at most its own row changes.
LEMMA ExecLives ==
  ASSUME Automatic, TypeOK, Assigned, VerdictFinal, LivesOnce,
         NEW g \in Goroutines, ExecStep(g)
  PROVE  LivesOnce'
<1> DEFINE p == job[g]
<1>1. /\ up /\ Live(g) /\ p \in Pids
      /\ UNCHANGED <<up, queue, cpc, cjob>>
      /\ \A h \in Goroutines : h # g => pc'[h] = pc[h] /\ job'[h] = job[h]
  BY DEF ExecStep, Begin, LoadFails, ContextFails, EngineStart, EngineReturns,
     CancelOldImageReady, Recheck, SaveVerdict, Exit, Release, sched, reqs, TypeOK, Live, Assigned
<1>2. /\ \A q \in Pids : q # p => status'[q] = status[q]
      /\ status'[p] \notin {"IMAGE_READY", "DEPLOYING", "none"}
  <2>1. status[p] \notin {"IMAGE_READY", "DEPLOYING", "none"}
    BY <1>1 DEF LivesOnce, NoPause, RunOnce
  <2>2. CASE Begin(g)
    BY <2>2, <1>1 DEF Begin, TypeOK
  <2>3. CASE SaveVerdict(g)
    <3>1. verdict[g] \in {"SUCCESS", "FAILED", "CANCELED"}
      BY <2>3 DEF SaveVerdict, VerdictFinal, LivesOnce, NoPause
    <3> QED BY <2>3, <3>1, <1>1 DEF SaveVerdict, TypeOK
  <2>4. CASE ~Begin(g) /\ ~SaveVerdict(g)
    <3>1. UNCHANGED status
      BY <2>4 DEF ExecStep, LoadFails, ContextFails, EngineStart, EngineReturns,
         CancelOldImageReady, Recheck, Exit, rows, LivesOnce, NoPause
    <3> QED BY <3>1, <2>1
  <2> QED BY <2>2, <2>3, <2>4
<1>3. \A q \in Pids : q # p => running'[q] = running[q]
  BY DEF ExecStep, Begin, LoadFails, ContextFails, EngineStart, EngineReturns,
     CancelOldImageReady, Recheck, SaveVerdict, Exit, Release, sched, TypeOK
<1>4. \/ pc'[g] = "idle"
      \/ /\ job'[g] = p /\ running'[p] = running[p] /\ pc'[g] # "load"
         /\ pc'[g] \in {"context", "run", "recheck", "save"} => status'[p] \in Alive
  <2>1. CASE Exit(g)
    BY <2>1 DEF Exit, TypeOK
  <2>2. CASE Begin(g)
    BY <2>2 DEF Begin, sched, TypeOK, Alive, Assigned, Live
  <2>3. CASE SaveVerdict(g) \/ LoadFails(g)
    BY <2>3 DEF SaveVerdict, LoadFails, sched, TypeOK
  <2>4. CASE ContextFails(g) \/ EngineStart(g) \/ EngineReturns(g) \/ Recheck(g)
    <3>1. pc[g] \in {"context", "run", "recheck"} /\ UNCHANGED <<status, job, running>>
      BY <2>4 DEF ContextFails, EngineStart, EngineReturns, Recheck, rows, sched
    <3>2. pc'[g] \in {"run", "recheck", "save"}
      BY <2>4 DEF ContextFails, EngineStart, EngineReturns, Recheck, Results, Automatic, TypeOK
    <3> QED BY <3>1, <3>2 DEF LivesOnce, RunOnce, Live
  <2> QED BY <2>1, <2>2, <2>3, <2>4 DEF ExecStep, CancelOldImageReady, LivesOnce, NoPause
<1>5. \A h \in Goroutines : pc'[h] # "cancel_old" /\ verdict'[h] # "IMAGE_READY"
  <2>1. CASE EngineReturns(g)
    BY <2>1 DEF EngineReturns, Results, Automatic, LivesOnce, NoPause, TypeOK
  <2>2. CASE ~EngineReturns(g)
    BY <2>2 DEF ExecStep, Begin, LoadFails, ContextFails, EngineStart,
       CancelOldImageReady, Recheck, SaveVerdict, Exit, LivesOnce, NoPause, TypeOK
  <2> QED BY <2>1, <2>2
<1>6. /\ running[p] = g /\ p \notin Range(queue)
      /\ \A h \in Goroutines : Live(h) /\ job[h] = p => h = g
      /\ \A c \in Clients : cpc[c] = "enqueue" => cjob[c] # p
  BY <1>1 DEF LivesOnce, RunOnce, SubmittedOnce
<1> HIDE DEF p
<1>7. NoPause'
  <2>1. \A q \in Pids : status[q] # "none" => status'[q] # "none"
    BY <1>2
  <2> QED BY <2>1, <1>1, <1>2, <1>5 DEF LivesOnce, NoPause, Assigned
<1>8. QueuedOnce'
  <2>1. \A q \in Range(queue) : q \in Pids
    BY RangeOfSeq DEF TypeOK
  <2> QED BY <2>1, <1>1, <1>2, <1>6 DEF LivesOnce, QueuedOnce
<1>9. SubmittedOnce'
  <2> SUFFICES ASSUME NEW c \in Clients, cpc[c] = "enqueue"
               PROVE  /\ cjob[c] \notin Range(queue)
                      /\ \A d \in Clients : cpc[d] = "enqueue" /\ cjob[d] = cjob[c] => d = c
                      /\ \A h \in Goroutines : Live(h)' => job'[h] # cjob[c]
                      /\ status'[cjob[c]] \in Unborn
    BY <1>1 DEF SubmittedOnce
  <2>1. cjob[c] # p /\ cjob[c] \in Pids
    BY <1>6 DEF Assigned
  <2>2. \A h \in Goroutines : Live(h)' => job'[h] # cjob[c]
    BY <2>1, <1>1, <1>4 DEF LivesOnce, SubmittedOnce, Live
  <2> QED BY <2>1, <2>2, <1>2 DEF LivesOnce, SubmittedOnce
<1>10. RunOnce'
  <2> SUFFICES ASSUME NEW h \in Goroutines, Live(h)'
               PROVE  /\ job'[h] \notin Range(queue)
                      /\ \A k \in Goroutines : Live(k)' /\ job'[k] = job'[h] => k = h
                      /\ running'[job'[h]] = h
                      /\ pc'[h] = "load" => status'[job'[h]] \in Unborn
                      /\ pc'[h] \in {"context", "run", "recheck", "save"} => status'[job'[h]] \in Alive
                      /\ status'[job'[h]] # "none"
    BY <1>1 DEF RunOnce
  <2>1. CASE h = g
    BY <2>1, <1>1, <1>2, <1>4, <1>6 DEF Live
  <2>2. CASE h # g
    <3>1. Live(h) /\ job'[h] = job[h] /\ pc'[h] = pc[h] /\ job[h] # p /\ job[h] \in Pids
      BY <2>2, <1>1, <1>6 DEF Live, Assigned
    <3>2. \A k \in Goroutines : Live(k)' /\ job'[k] = job'[h] => k = h
      BY <3>1, <1>1, <1>4 DEF LivesOnce, RunOnce, Live
    <3> QED BY <3>1, <3>2, <1>2, <1>3 DEF LivesOnce, RunOnce
  <2> QED BY <2>1, <2>2
<1>11. DownEmpty'
  BY <1>1 DEF DownEmpty
<1> QED BY <1>7, <1>8, <1>9, <1>10, <1>11 DEF LivesOnce

\* What every request leaves alone.
LEMMA RequestFrame ==
  ASSUME TypeOK, NEW c \in Clients, ClientStep(c)
  PROVE  /\ up /\ UNCHANGED <<up, running, maxSlots, pc, job, verdict>>
         /\ \A d \in Clients : d # c => cpc'[d] = cpc[d] /\ cjob'[d] = cjob[d]
<1> QED BY DEF ClientStep, Create, DeployRead, Cancel, Enqueue, DeploySave, CancelMark,
            At, Serving, LockAndDispatch, sched, execs, TypeOK

LEMMA ClientLives ==
  ASSUME Automatic, TypeOK, Assigned, LivesOnce, NEW c \in Clients, ClientStep(c)
  PROVE  LivesOnce'
<1>1. /\ up /\ UNCHANGED <<up, running, pc, job, verdict>>
      /\ \A d \in Clients : d # c => cpc'[d] = cpc[d] /\ cjob'[d] = cjob[d]
  BY RequestFrame
<1>2. DownEmpty'
  BY <1>1 DEF DownEmpty
<1>3. \A q \in Range(queue) : q \in Pids
  BY RangeOfSeq DEF TypeOK
<1>4. ASSUME NEW p \in Pids, Create(c, p)
      PROVE  LivesOnce'
  <2>1. /\ status[p] = "none" /\ UNCHANGED queue
        /\ status' = [status EXCEPT ![p] = "PENDING"]
        /\ cpc' = [cpc EXCEPT ![c] = "enqueue"] /\ cjob' = [cjob EXCEPT ![c] = p]
    BY <1>4 DEF Create, At, sched
  \* a row that did not exist is nowhere
  <2>2. /\ p \notin Range(queue)
        /\ \A g \in Goroutines : Live(g) => job[g] # p
        /\ \A d \in Clients : cpc[d] = "enqueue" => cjob[d] # p
    BY <2>1 DEF LivesOnce, QueuedOnce, RunOnce, SubmittedOnce, Unborn
  <2>3. \A q \in Pids : /\ q # p => status'[q] = status[q]
                        /\ q = p => status'[q] = "PENDING"
    BY <2>1 DEF TypeOK
  <2>4. cpc'[c] = "enqueue" /\ cjob'[c] = p
    BY <2>1 DEF TypeOK
  <2>5. NoPause'
    BY <1>1, <2>3, <2>4 DEF LivesOnce, NoPause, Assigned
  <2>6. QueuedOnce'
    BY <1>3, <2>1, <2>2, <2>3 DEF LivesOnce, QueuedOnce
  <2>7. SubmittedOnce'
    BY <1>1, <2>1, <2>2, <2>3, <2>4 DEF LivesOnce, SubmittedOnce, Live, Unborn, Assigned
  <2>8. RunOnce'
    BY <1>1, <2>1, <2>2, <2>3 DEF LivesOnce, RunOnce, Live, Assigned
  <2> QED BY <1>2, <2>5, <2>6, <2>7, <2>8 DEF LivesOnce
<1>5. CASE Enqueue(c)
  <2> DEFINE p == cjob[c]
  <2>1. /\ cpc[c] = "enqueue" /\ p \in Pids /\ UNCHANGED status
        /\ queue' = Append(queue, p) /\ cpc' = [cpc EXCEPT ![c] = "idle"]
    BY <1>5 DEF Enqueue, At, rows, Assigned
  <2>2. /\ p \notin Range(queue) /\ status[p] \in Unborn
        /\ \A g \in Goroutines : Live(g) => job[g] # p
        /\ \A d \in Clients : d # c /\ cpc[d] = "enqueue" => cjob[d] # p
    BY <2>1 DEF LivesOnce, SubmittedOnce
  <2>3. Range(queue') = Range(queue) \cup {p} /\ Once(queue')
    BY <2>1, <2>2, AppendFacts, AppendOnce DEF TypeOK, LivesOnce, QueuedOnce
  <2>4. cpc'[c] = "idle"
    BY <2>1 DEF TypeOK
  <2> HIDE DEF p
  <2>5. NoPause'
    BY <1>1, <2>1, <2>4 DEF LivesOnce, NoPause
  <2>6. QueuedOnce'
    BY <2>1, <2>2, <2>3 DEF LivesOnce, QueuedOnce
  <2>7. SubmittedOnce'
    BY <1>1, <2>1, <2>2, <2>3, <2>4 DEF LivesOnce, SubmittedOnce, Live
  <2>8. RunOnce'
    BY <1>1, <2>1, <2>2, <2>3 DEF LivesOnce, RunOnce, Live
  <2> QED BY <1>2, <2>5, <2>6, <2>7, <2>8 DEF LivesOnce
<1>6. ASSUME NEW p \in Pids, Cancel(c, p) \/ (CancelMark(c) /\ p = cjob[c])
      PROVE  LivesOnce'
  \* the queue may lose p, the row of p may become CANCELED
  <2>1. /\ queue' \in Seq(Pids) /\ Range(queue') \subseteq Range(queue)
        /\ Once(queue')
    <3>1. CASE UNCHANGED queue
      BY <3>1 DEF TypeOK, LivesOnce, QueuedOnce
    <3>2. CASE \E i \in DOMAIN queue : queue' = RemoveAt(queue, i)
      BY <3>2, RemoveAtFacts, RemoveAtOnce DEF TypeOK, LivesOnce, QueuedOnce
    <3> QED BY <1>6, <3>1, <3>2 DEF Cancel, CancelMark, sched
  <2>2. \A q \in Pids : status'[q] \in {status[q], "CANCELED"}
    BY <1>6 DEF Cancel, CancelMark, TypeOK
  <2>3. /\ cpc'[c] \notin {"enqueue", "deploy"}
        /\ cpc'[c] = "cancel" => cjob'[c] = p /\ status[p] # "none"
    BY <1>6 DEF Cancel, CancelMark, At, TypeOK
  <2>4. NoPause'
    BY <1>1, <2>2, <2>3 DEF LivesOnce, NoPause, Assigned
  <2>5. QueuedOnce'
    BY <1>3, <2>1, <2>2 DEF LivesOnce, QueuedOnce, Unborn
  <2>6. SubmittedOnce'
    BY <1>1, <2>1, <2>2, <2>3 DEF LivesOnce, SubmittedOnce, Live, Unborn, Assigned
  <2>7. RunOnce'
    BY <1>1, <2>1, <2>2 DEF LivesOnce, RunOnce, Live, Unborn, Alive, Assigned
  <2> QED BY <1>2, <2>4, <2>5, <2>6, <2>7 DEF LivesOnce
<1>7. ~DeploySave(c) /\ \A p \in Pids : ~DeployRead(c, p)
  BY DEF DeploySave, DeployRead, LivesOnce, NoPause
<1>8. CancelMark(c) => cjob[c] \in Pids
  BY DEF CancelMark, Assigned
<1> QED BY <1>4, <1>5, <1>6, <1>7, <1>8 DEF ClientStep

LEMMA LivesStep ==
  ASSUME Automatic
  PROVE  Typed /\ VerdictFinal /\ LivesOnce /\ [Next]_vars => LivesOnce'
<1> SUFFICES ASSUME TypeOK, Assigned, VerdictFinal, LivesOnce, [Next]_vars
             PROVE  LivesOnce'
  BY DEF Typed
<1>1. ASSUME NEW l \in Loops, NEW g \in Goroutines, DispatchNext(l, g)
      PROVE  LivesOnce'
  BY <1>1, DispatchLives
<1>2. ASSUME NEW g \in Goroutines, ExecStep(g)
      PROVE  LivesOnce'
  BY <1>2, ExecLives
<1>3. ASSUME NEW c \in Clients, ClientStep(c)
      PROVE  LivesOnce'
  BY <1>3, ClientLives
<1>4. CASE Crash
  <2>1. /\ ~up' /\ queue' = <<>> /\ UNCHANGED status
        /\ \A g \in Goroutines : pc'[g] = "idle" /\ verdict'[g] = "none"
        /\ \A c \in Clients : cpc'[c] = "idle"
    BY <1>4 DEF Crash, NoExecs, rows
  <2>2. Range(queue') = {} /\ Once(queue')
    BY <2>1, EmptyOnce DEF Once
  <2> QED BY <2>1, <2>2 DEF LivesOnce, NoPause, QueuedOnce, SubmittedOnce, RunOnce, DownEmpty, Live
<1>5. CASE Restart
  <2>1. /\ up' /\ UNCHANGED <<pc, verdict, cpc>>
        /\ \A g \in Goroutines : ~Live(g)
        /\ \A c \in Clients : cpc[c] = "idle"
    BY <1>5 DEF Restart, execs, reqs, LivesOnce, DownEmpty
  <2>2. Range(queue') = Requeued /\ Once(queue')
    BY <1>5, ByCreationFacts, ByCreationOnce DEF Restart, Requeued, WithStatus
  <2>3. \A p \in Pids : /\ status[p] = "RUNNING" => status'[p] = "FAILED"
                        /\ status[p] # "RUNNING" => status'[p] = status[p]
    BY <1>5 DEF Restart, Stranded, WithStatus
  <2>4. NoPause'
    BY <2>1, <2>3 DEF LivesOnce, NoPause
  <2>5. QueuedOnce'
    BY <2>2, <2>3 DEF QueuedOnce, Requeued, WithStatus, Unborn
  <2> QED BY <2>1, <2>4, <2>5 DEF LivesOnce, SubmittedOnce, RunOnce, DownEmpty, Live
<1>6. CASE UNCHANGED vars \/ \E l \in Loops : DispatchDone(l)
  <2>1. UNCHANGED <<status, up, queue, running, pc, job, verdict, cpc, cjob>>
    BY <1>6 DEF vars, rows, sched, execs, reqs, DispatchDone
  <2> QED BY <2>1 DEF LivesOnce, NoPause, QueuedOnce, SubmittedOnce, RunOnce, DownEmpty, Live, Once
<1> QED BY <1>1, <1>2, <1>3, <1>4, <1>5, <1>6 DEF Next, DispatchStep, Automatic

LEMMA LivesAlways ==
  ASSUME Automatic
  PROVE  Spec => []LivesOnce
<1>1. Init => LivesOnce
  <2> QED BY EmptyOnce DEF Init, LivesOnce, NoPause, QueuedOnce, SubmittedOnce, RunOnce, DownEmpty, Live
<1>2. Typed /\ VerdictFinal /\ LivesOnce /\ [Next]_vars => LivesOnce'
  BY LivesStep
<1> QED BY <1>1, <1>2, TypedAlways, VerdictFinalAlways, PTL DEF Spec

-----------------------------------------------------------------------------
(* No more builds than slots *)

LEMMA OccupiedFinite ==
  /\ IsFiniteSet(Occupied) /\ Cardinality(Occupied) \in Nat
<1> QED BY SchedulerAssumption, FS_Subset, FS_CardinalityType DEF Occupied

LEMMA SlotsBoundedStep ==
  ASSUME Automatic
  PROVE  Typed /\ SlotsBounded /\ [Next]_vars => SlotsBounded'
<1> SUFFICES ASSUME TypeOK, SlotsBounded, [Next]_vars
             PROVE  SlotsBounded'
  BY DEF Typed
<1> USE SchedulerAssumption, OccupiedFinite
<1>1. ASSUME NEW l \in Loops, NEW g \in Goroutines, DispatchNext(l, g)
      PROVE  SlotsBounded'
  <2> DEFINE more == Occupied \cup {Head(queue)}
  <2>1. Occupied' \subseteq more /\ UNCHANGED maxSlots
    BY <1>1 DEF DispatchNext, StartExecutor, Occupied, TypeOK
  <2>2. IsFiniteSet(more) /\ Cardinality(more) \in Nat /\ Cardinality(more) <= Cardinality(Occupied) + 1
    <3>1. IsFiniteSet(more) /\ (\/ Cardinality(more) = Cardinality(Occupied)
                               \/ Cardinality(more) = Cardinality(Occupied) + 1)
      BY FS_AddElement
    <3> QED BY <3>1
  <2>3. Cardinality(Occupied') \in Nat /\ Cardinality(Occupied') <= Cardinality(more)
    BY <2>1, <2>2, FS_Subset, FS_CardinalityType
  <2>4. Cardinality(Occupied) < maxSlots
    BY <1>1 DEF DispatchNext, SlotFree
  <2>5. maxSlots' = maxSlots /\ maxSlots \in Nat /\ maxSlots = DefaultSlots
    BY <2>1 DEF SlotsBounded, TypeOK
  <2> HIDE DEF more
  <2>6. Cardinality(Occupied') <= maxSlots
    BY <2>2, <2>3, <2>4, <2>5
  <2> QED BY <2>5, <2>6 DEF SlotsBounded
<1>2. ASSUME Occupied' \subseteq Occupied, maxSlots' = maxSlots
      PROVE  SlotsBounded'
  <2>1. Cardinality(Occupied') \in Nat /\ Cardinality(Occupied') <= Cardinality(Occupied)
    BY <1>2, FS_Subset, FS_CardinalityType
  <2> QED BY <2>1, <1>2 DEF SlotsBounded, TypeOK
<1>3. ASSUME NEW g \in Goroutines, ExecStep(g)
      PROVE  SlotsBounded'
  <2>1. Occupied' \subseteq Occupied /\ maxSlots' = maxSlots
    BY <1>3 DEF ExecStep, Begin, LoadFails, ContextFails, EngineStart, EngineReturns,
       CancelOldImageReady, Recheck, SaveVerdict, Exit, Release, sched, Occupied, TypeOK
  <2> QED BY <2>1, <1>2
<1>4. ASSUME NEW c \in Clients, ClientStep(c)
      PROVE  SlotsBounded'
  BY <1>4, RequestFrame DEF SlotsBounded, Occupied
<1>5. CASE Crash
  BY <1>2, <1>5 DEF Crash, Occupied
<1>6. CASE Restart
  BY <1>6 DEF Restart, SlotsBounded, Occupied
<1>7. CASE UNCHANGED vars \/ \E l \in Loops : DispatchDone(l)
  BY <1>7 DEF vars, sched, DispatchDone, SlotsBounded, Occupied
<1> QED BY <1>1, <1>3, <1>4, <1>5, <1>6, <1>7 DEF Next, DispatchStep, Automatic

LEMMA SlotsBoundedAlways ==
  ASSUME Automatic
  PROVE  Spec => []SlotsBounded
<1>1. Init => SlotsBounded
  <2> SUFFICES ASSUME Init PROVE SlotsBounded
    OBVIOUS
  <2>1. Occupied = {} /\ maxSlots = DefaultSlots
    BY DEF Init, Occupied
  <2>2. Cardinality(Occupied) = 0
    BY <2>1, FS_EmptySet
  <2> QED BY <2>1, <2>2, SchedulerAssumption DEF SlotsBounded
<1>2. Typed /\ SlotsBounded /\ [Next]_vars => SlotsBounded'
  BY SlotsBoundedStep
<1> QED BY <1>1, <1>2, TypedAlways, PTL DEF Spec

\* Distinct goroutines hold distinct entries of the running map.
LEMMA BusyAtMostOccupied ==
  ASSUME TypeOK, Assigned, LivesOnce, NEW G \in SUBSET Goroutines, \A g \in G : Live(g)
  PROVE  Cardinality(G) <= Cardinality(Occupied)
<1> DEFINE f == [g \in G |-> job[g]]
<1>1. \A g \in G : f[g] \in Occupied
  BY SchedulerAssumption DEF Occupied, Assigned, LivesOnce, RunOnce
<1>2. \A g, h \in G : f[g] = f[h] => g = h
  BY DEF LivesOnce, RunOnce
<1>3. f \in Injection(G, Occupied)
  BY <1>1, <1>2 DEF Injection, IsInjective
<1> QED BY <1>3, OccupiedFinite, FS_Injection

\* design.md Property 4 holds of pipelines that deploy automatically: builds in
\* progress never outnumber the slots, across cancellations and crashes.  (With
\* confirmations it does not: run sched_overrun.)
THEOREM BuildsNeverOverrun ==
  ASSUME Automatic
  PROVE  Spec => []BuildsBounded
<1>1. Typed /\ LivesOnce /\ SlotsBounded => BuildsBounded
  <2> SUFFICES ASSUME TypeOK, Assigned, LivesOnce, SlotsBounded
               PROVE  BuildsBounded
    BY DEF Typed
  <2> DEFINE B == {g \in Goroutines : pc[g] \notin {"idle", "load", "exit"}}
  <2>1. Cardinality(B) <= Cardinality(Occupied)
    BY BusyAtMostOccupied DEF Live
  <2>2. Cardinality(B) \in Nat
    BY SchedulerAssumption, FS_Subset, FS_CardinalityType
  <2> QED BY <2>1, <2>2, OccupiedFinite DEF BuildsBounded, SlotsBounded, TypeOK
<1> QED BY <1>1, TypedAlways, LivesAlways, SlotsBoundedAlways, PTL

\* A finished pipeline is not run, failed or confirmed again; only a
\* cancellation that arrives late writes its row.
THEOREM FinishedUntouched ==
  ASSUME Automatic
  PROVE  Spec => FinishedOnlyCanceled
<1> DEFINE Kept == \A p \in Pids : status[p] \in {"SUCCESS", "FAILED"} =>
                     status'[p] \in {status[p], "CANCELED"}
<1>1. Typed /\ LivesOnce /\ [Next]_vars => [Kept]_vars
  <2> SUFFICES ASSUME TypeOK, Assigned, LivesOnce, [Next]_vars,
                      NEW p \in Pids, status[p] \in {"SUCCESS", "FAILED"}
               PROVE  status'[p] \in {status[p], "CANCELED"}
    BY DEF Typed
  <2>1. CASE \E l \in Loops : (\E g \in Goroutines : DispatchNext(l, g)) \/ DispatchDone(l)
    BY <2>1 DEF DispatchNext, DispatchDone, rows
  <2>2. ASSUME NEW g \in Goroutines, ExecStep(g)
        PROVE  status'[p] \in {status[p], "CANCELED"}
    <3>1. CASE Begin(g) \/ SaveVerdict(g)
      \* the goroutine's own row is not finished yet
      <4>1. job[g] # p
        BY <3>1 DEF Begin, SaveVerdict, LivesOnce, RunOnce, Live, Unborn, Alive
      <4> QED BY <3>1, <4>1 DEF Begin, SaveVerdict, TypeOK
    <3>2. CASE ~Begin(g) /\ ~SaveVerdict(g)
      BY <2>2, <3>2 DEF ExecStep, LoadFails, ContextFails, EngineStart, EngineReturns,
         CancelOldImageReady, Recheck, Exit, rows, LivesOnce, NoPause
    <3> QED BY <3>1, <3>2
  <2>3. ASSUME NEW c \in Clients, ClientStep(c)
        PROVE  status'[p] \in {status[p], "CANCELED"}
    BY <2>3 DEF ClientStep, Create, DeployRead, Cancel, Enqueue, DeploySave, CancelMark,
       rows, TypeOK, LivesOnce, NoPause
  <2>4. CASE Crash
    BY <2>4 DEF Crash, rows
  <2>5. CASE Restart
    BY <2>5 DEF Restart, Stranded, WithStatus
  <2>6. CASE UNCHANGED vars \/ \E n \in Limits : SetConcurrency(n)
    BY <2>6 DEF vars, rows, SetConcurrency
  <2> QED BY <2>1, <2>2, <2>3, <2>4, <2>5, <2>6 DEF Next, DispatchStep
<1> QED BY <1>1, TypedAlways, LivesAlways, PTL DEF Spec, FinishedOnlyCanceled

-----------------------------------------------------------------------------
(* The scheduler implements BuildQueue *)

\* With reads that succeed, a goroutine exits only after its verdict is saved.
ExitDecided ==
  \A g \in Goroutines : pc[g] = "exit" => status[job[g]] # "PENDING"

LEMMA ExitDecidedAlways ==
  ASSUME Automatic, DbFaults = FALSE
  PROVE  Spec => []ExitDecided
<1>1. Init => ExitDecided
  BY DEF Init, ExitDecided
<1>2. ASSUME Typed, VerdictFinal, LivesOnce, ExitDecided, [Next]_vars,
             NEW g \in Goroutines, pc'[g] = "exit"
      PROVE  status'[job'[g]] # "PENDING"
  <2> USE DEF Typed, TypeOK
  <2>1. ASSUME NEW h \in Goroutines, ExecStep(h)
        PROVE  status'[job'[g]] # "PENDING"
    <3>1. CASE SaveVerdict(h)
      BY <1>2, <3>1 DEF SaveVerdict, VerdictFinal, ExitDecided, Assigned, Live
    <3>2. CASE ~SaveVerdict(h)
      <4>1. pc[g] = "exit" /\ job'[g] = job[g]
        BY <1>2, <2>1, <3>2 DEF ExecStep, Begin, LoadFails, ContextFails, EngineStart,
           EngineReturns, Results, CancelOldImageReady, Recheck, Exit
      <4>2. status'[job[g]] \in {status[job[g]], "RUNNING", "CANCELED"}
        BY <1>2, <4>1, <2>1, <3>2 DEF ExecStep, Begin, LoadFails, ContextFails, EngineStart,
           EngineReturns, CancelOldImageReady, Recheck, Exit, rows, Assigned, Live
      <4> QED BY <4>1, <4>2, <1>2 DEF ExitDecided
    <3> QED BY <3>1, <3>2
  <2>2. ASSUME NEW c \in Clients, ClientStep(c)
        PROVE  status'[job'[g]] # "PENDING"
    <3>1. UNCHANGED <<pc, job>>
      BY <1>2, <2>2, RequestFrame
    <3>2. status[job[g]] \notin {"none", "PENDING"} /\ job[g] \in Pids
      BY <1>2, <3>1 DEF ExitDecided, LivesOnce, RunOnce, Live, Assigned
    <3>3. status'[job[g]] # "PENDING"
      BY <1>2, <3>2, <2>2 DEF ClientStep, Create, DeployRead, Cancel, Enqueue, DeploySave,
         CancelMark, rows
    <3> QED BY <3>1, <3>3
  <2>3. CASE \/ UNCHANGED vars \/ Crash \/ Restart \/ DispatchStep
             \/ \E n \in Limits : SetConcurrency(n)
    <3>1. pc[g] = "exit" /\ job'[g] = job[g]
      BY <1>2, <2>3 DEF vars, execs, Crash, NoExecs, Restart, DispatchStep, DispatchNext,
         StartExecutor, DispatchDone, SetConcurrency
    <3>2. status'[job[g]] \in {status[job[g]], "FAILED"}
      BY <3>1, <2>3, <1>2 DEF vars, rows, Crash, Restart, DispatchStep, DispatchNext,
         DispatchDone, SetConcurrency, Assigned, Live
    <3> QED BY <3>1, <3>2, <1>2 DEF ExitDecided
  <2> QED BY <1>2, <2>1, <2>2, <2>3 DEF Next
<1>3. Typed /\ VerdictFinal /\ LivesOnce /\ ExitDecided /\ [Next]_vars => ExitDecided'
  BY <1>2 DEF ExitDecided
<1> QED BY <1>1, <1>3, TypedAlways, VerdictFinalAlways, LivesAlways, PTL DEF Spec

Active(p) == \E g \in Goroutines : Live(g) /\ job[g] = p

Waiting(p) ==
  \/ status[p] = "PENDING" \/ p \in Range(queue)
  \/ \E c \in Clients : cpc[c] = "enqueue" /\ cjob[c] = p

LEMMA StageCases ==
  ASSUME NEW p
  PROVE  /\ StageOf(p) \in {"new", "waiting", "active", "done"}
         /\ StageOf(p) = "active" <=> Active(p)
         /\ StageOf(p) = "waiting" <=> ~Active(p) /\ Waiting(p)
         /\ StageOf(p) = "new" <=> ~Active(p) /\ ~Waiting(p) /\ status[p] = "none"
         /\ StageOf(p) = "done" <=> ~Active(p) /\ ~Waiting(p) /\ status[p] # "none"
<1> QED BY DEF StageOf, Active, Waiting

\* The same three facts say that a pipeline's stage is the same after a step.
LEMMA SameStage ==
  ASSUME NEW p,
         Active(p)' <=> Active(p),
         ~Active(p) => (Waiting(p)' <=> Waiting(p)),
         ~Active(p) /\ ~Waiting(p) => (status'[p] = "none" <=> status[p] = "none")
  PROVE  StageOf(p)' = StageOf(p)
<1> QED BY DEF StageOf, Active, Waiting

\* Dispatching starts a waiting pipeline in a free slot.
LEMMA DispatchStarts ==
  ASSUME Automatic, TypeOK, Assigned, LivesOnce, SlotsBounded,
         NEW l \in Loops, NEW g \in Goroutines, DispatchNext(l, g)
  PROVE  \E p \in Pids :
           /\ StageOf(p) = "waiting" /\ StageOf(p)' = "active"
           /\ \A q \in Pids \ {p} : StageOf(q)' = StageOf(q)
           /\ Cardinality({q \in Pids : StageOf(q) = "active"}) < DefaultSlots
<1>0. PICK p \in Pids : p = Head(queue)
  BY TailFacts DEF DispatchNext, TypeOK
<1>1. /\ ~Live(g) /\ queue # <<>> /\ queue' = Tail(queue)
      /\ pc' = [pc EXCEPT ![g] = "load"] /\ job' = [job EXCEPT ![g] = p]
      /\ UNCHANGED <<status, cpc, cjob>> /\ SlotFree
  BY <1>0 DEF DispatchNext, StartExecutor, Automatic, rows, reqs
<1>2. /\ p \in Range(queue)
      /\ \A q : q # p => (q \in Range(queue') <=> q \in Range(queue))
  <2>1. 1 \in 1..Len(queue) /\ p = queue[1]
    BY <1>0, <1>1, HeadTailProperties, EmptySeq DEF TypeOK
  <2> QED BY <1>0, <1>1, <2>1, TailFacts, RangeEquality DEF TypeOK
<1>3. \A h \in Goroutines : /\ h # g => pc'[h] = pc[h] /\ job'[h] = job[h]
                            /\ h = g => pc'[h] = "load" /\ job'[h] = p
  BY <1>1 DEF TypeOK
<1>4. StageOf(p) = "waiting" /\ StageOf(p)' = "active"
  <2>1. ~Active(p) /\ Waiting(p)
    BY <1>2 DEF LivesOnce, RunOnce, Active, Waiting
  <2>2. Active(p)'
    BY <1>3 DEF Active, Live
  <2> QED BY <2>1, <2>2, StageCases DEF StageOf, Active
<1>5. ASSUME NEW q \in Pids \ {p}
      PROVE  StageOf(q)' = StageOf(q)
  <2>1. Active(q)' <=> Active(q)
    BY <1>1, <1>3 DEF Active, Live
  <2>2. Waiting(q)' <=> Waiting(q)
    BY <1>1, <1>2 DEF Waiting
  <2> QED BY <2>1, <2>2, <1>1, SameStage
<1>6. Cardinality({q \in Pids : StageOf(q) = "active"}) < DefaultSlots
  <2> DEFINE A == {q \in Pids : StageOf(q) = "active"}
  <2>1. A \subseteq Occupied
    BY StageCases, SchedulerAssumption DEF Active, LivesOnce, RunOnce, Occupied
  <2>2. Cardinality(A) \in Nat /\ Cardinality(A) <= Cardinality(Occupied)
    BY <2>1, OccupiedFinite, FS_Subset, FS_CardinalityType
  <2> HIDE DEF A
  <2>3. Cardinality(A) < DefaultSlots
    BY <2>2, <1>1, OccupiedFinite, SchedulerAssumption DEF SlotFree, SlotsBounded
  <2> QED BY <2>3 DEF A
<1> QED BY <1>2, <1>4, <1>5, <1>6

\* A goroutine's steps keep its pipeline active until it exits.
LEMMA ExecFinishes ==
  ASSUME Automatic, TypeOK, Assigned, LivesOnce, ExitDecided,
         NEW g \in Goroutines, ExecStep(g)
  PROVE  \/ \A q \in Pids : StageOf(q)' = StageOf(q)
         \/ \E p \in Pids : /\ StageOf(p) = "active" /\ StageOf(p)' = "done"
                            /\ \A q \in Pids \ {p} : StageOf(q)' = StageOf(q)
<1>0. PICK p \in Pids : p = job[g]
  BY DEF ExecStep, Begin, LoadFails, ContextFails, EngineStart, EngineReturns,
     CancelOldImageReady, Recheck, SaveVerdict, Exit, Live, Assigned
<1>1. /\ Live(g) /\ UNCHANGED <<queue, cpc, cjob>>
      /\ \A h \in Goroutines : h # g => pc'[h] = pc[h] /\ job'[h] = job[h]
      /\ \A q \in Pids : q # p => status'[q] = status[q]
  BY <1>0 DEF ExecStep, Begin, LoadFails, ContextFails, EngineStart, EngineReturns,
     CancelOldImageReady, Recheck, SaveVerdict, Exit, Release, rows, sched, reqs, TypeOK,
     Live, Assigned, LivesOnce, NoPause
<1>2. Active(p) /\ StageOf(p) = "active"
  BY <1>0, <1>1, StageCases DEF Active
<1>3. \/ Exit(g) /\ ~Live(g)' /\ UNCHANGED status
      \/ Live(g)' /\ job'[g] = job[g]
  BY DEF ExecStep, Begin, LoadFails, ContextFails, EngineStart, EngineReturns, Results,
     CancelOldImageReady, Recheck, SaveVerdict, Exit, rows, TypeOK, Live
<1>4. ASSUME NEW q \in Pids \ {p}
      PROVE  StageOf(q)' = StageOf(q)
  <2>1. Active(q)' <=> Active(q)
    BY <1>0, <1>1, <1>3 DEF Active, Live
  <2>2. (Waiting(q)' <=> Waiting(q)) /\ status'[q] = status[q]
    BY <1>1 DEF Waiting
  <2> QED BY <2>1, <2>2, SameStage
<1>5. CASE Live(g)' /\ job'[g] = job[g]
  <2>1. StageOf(p)' = "active"
    BY <1>0, <1>5 DEF StageOf
  <2> QED BY <1>2, <1>4, <2>1
<1>6. CASE Exit(g) /\ ~Live(g)' /\ UNCHANGED status
  <2>1. ~Active(p)'
    BY <1>0, <1>1, <1>6 DEF LivesOnce, RunOnce, Active, Live
  <2>2. /\ p \notin Range(queue) /\ status[p] \notin {"none", "PENDING"}
        /\ \A c \in Clients : cpc[c] = "enqueue" => cjob[c] # p
    BY <1>0, <1>1, <1>6 DEF Exit, ExitDecided, LivesOnce, RunOnce, SubmittedOnce
  <2>3. ~Waiting(p)' /\ status'[p] # "none"
    BY <2>2, <1>1, <1>6 DEF Waiting
  <2>4. StageOf(p)' = "done"
    BY <2>1, <2>3 DEF StageOf, Active, Waiting
  <2> QED BY <1>1, <1>2, <1>4, <2>4
<1> QED BY <1>3, <1>5, <1>6

AllSame == \A q \in Pids : StageOf(q)' = StageOf(q)

\* A request submits a new pipeline, withdraws a queued one, or leaves the
\* stages alone; a row that is marked CANCELED is not one that still waits
\* unseen, because every PENDING row is tracked.
LEMMA RequestStages ==
  ASSUME Automatic, TypeOK, Assigned, LivesOnce, PendingTracked,
         NEW c \in Clients, ClientStep(c)
  PROVE  \/ AllSame
         \/ \E p \in Pids :
              /\ \A q \in Pids \ {p} : StageOf(q)' = StageOf(q)
              /\ \/ /\ StageOf(p) = "new" /\ StageOf(p)' = "waiting"
                    /\ status'[p] # "CANCELED"
                 \/ /\ StageOf(p) = "waiting" /\ StageOf(p)' = "done"
                    /\ status'[p] = "CANCELED"
<1>1. /\ up /\ UNCHANGED <<pc, job>>
      /\ \A d \in Clients : d # c => cpc'[d] = cpc[d] /\ cjob'[d] = cjob[d]
  BY RequestFrame
<1>2. \A q : Active(q)' <=> Active(q)
  BY <1>1 DEF Active, Live
<1>3. ASSUME NEW p \in Pids, Create(c, p)
      PROVE  /\ \A q \in Pids \ {p} : StageOf(q)' = StageOf(q)
             /\ StageOf(p) = "new" /\ StageOf(p)' = "waiting" /\ status'[p] # "CANCELED"
  <2>1. /\ status[p] = "none" /\ UNCHANGED queue /\ cpc[c] = "idle"
        /\ status' = [status EXCEPT ![p] = "PENDING"]
        /\ cpc' = [cpc EXCEPT ![c] = "enqueue"] /\ cjob' = [cjob EXCEPT ![c] = p]
    BY <1>3 DEF Create, At, sched
  <2>2. ~Active(p) /\ ~Waiting(p)
    BY <2>1 DEF Active, Waiting, LivesOnce, QueuedOnce, RunOnce, SubmittedOnce, Unborn
  <2>3. status'[p] = "PENDING" /\ \A q \in Pids \ {p} : status'[q] = status[q]
    BY <2>1 DEF TypeOK
  <2>4. StageOf(p) = "new" /\ StageOf(p)' = "waiting"
    <3>1. ~Active(p)' /\ Waiting(p)'
      BY <1>2, <2>2, <2>3 DEF Waiting
    <3> QED BY <2>1, <2>2, <3>1 DEF StageOf, Active, Waiting
  <2>5. ASSUME NEW q \in Pids \ {p}
        PROVE  StageOf(q)' = StageOf(q)
    <3>1. cpc'[c] = "enqueue" /\ cjob'[c] = p
      BY <2>1 DEF TypeOK
    <3>2. Waiting(q)' <=> Waiting(q)
      BY <1>1, <2>1, <2>3, <3>1 DEF Waiting
    <3> QED BY <1>2, <2>3, <3>2, SameStage
  <2> QED BY <2>3, <2>4, <2>5
<1>4. CASE Enqueue(c)
  <2>0. PICK p \in Pids : p = cjob[c]
    BY <1>4 DEF Enqueue, Assigned
  <2>1. /\ cpc[c] = "enqueue" /\ UNCHANGED status /\ queue' = Append(queue, p)
        /\ cpc' = [cpc EXCEPT ![c] = "idle"]
    BY <1>4, <2>0 DEF Enqueue, At, rows
  <2>2. Range(queue') = Range(queue) \cup {p}
    BY <2>1, AppendFacts DEF TypeOK
  <2>3. cpc'[c] = "idle"
    BY <2>1 DEF TypeOK
  <2>4. ASSUME NEW q \in Pids
        PROVE  StageOf(q)' = StageOf(q)
    <3>1. Waiting(q)' <=> Waiting(q)
      BY <1>1, <2>0, <2>1, <2>2, <2>3 DEF Waiting
    <3> QED BY <1>2, <2>1, <3>1, SameStage
  <2> QED BY <2>4 DEF AllSame
<1>5. ASSUME NEW p \in Pids, Cancel(c, p), p \in Range(queue)
      PROVE  /\ \A q \in Pids \ {p} : StageOf(q)' = StageOf(q)
             /\ StageOf(p) = "waiting" /\ StageOf(p)' = "done" /\ status'[p] = "CANCELED"
  <2>1. PICK i \in DOMAIN queue : queue[i] = p /\ queue' = RemoveAt(queue, i)
    BY <1>5 DEF Cancel
  <2>2. p \notin Range(queue') /\ \A q : q # p => (q \in Range(queue') <=> q \in Range(queue))
    BY <2>1, RemoveAtFacts, RemoveAtOnce DEF TypeOK, LivesOnce, QueuedOnce
  <2>3. /\ status'[p] = "CANCELED" /\ \A q \in Pids \ {p} : status'[q] = status[q]
        /\ cpc[c] = "idle" /\ cpc'[c] = "cancel"
    BY <1>5 DEF Cancel, At, TypeOK
  <2>4. ~Active(p) /\ Waiting(p) /\ \A d \in Clients : cpc[d] = "enqueue" => cjob[d] # p
    BY <1>5 DEF Active, Waiting, LivesOnce, RunOnce, SubmittedOnce
  <2>5. ~Active(p)' /\ ~Waiting(p)'
    BY <1>1, <1>2, <2>2, <2>3, <2>4 DEF Waiting
  <2>6. StageOf(p) = "waiting" /\ StageOf(p)' = "done"
    BY <2>3, <2>4, <2>5 DEF StageOf, Active, Waiting
  <2>7. ASSUME NEW q \in Pids \ {p}
        PROVE  StageOf(q)' = StageOf(q)
    <3>1. Waiting(q)' <=> Waiting(q)
      BY <1>1, <2>2, <2>3 DEF Waiting
    <3> QED BY <1>2, <2>3, <3>1, SameStage
  <2> QED BY <2>3, <2>6, <2>7
<1>6. ASSUME NEW p \in Pids, Cancel(c, p), p \notin Range(queue)
      PROVE  AllSame
  <2>1. UNCHANGED <<queue, status>> /\ cpc[c] = "idle" /\ cpc'[c] = "cancel"
    BY <1>6 DEF Cancel, At, TypeOK
  <2>2. ASSUME NEW q \in Pids
        PROVE  StageOf(q)' = StageOf(q)
    <3>1. Waiting(q)' <=> Waiting(q)
      BY <1>1, <2>1 DEF Waiting
    <3> QED BY <1>2, <2>1, <3>1, SameStage
  <2> QED BY <2>2 DEF AllSame
<1>7. CASE CancelMark(c)
  <2>0. PICK p \in Pids : p = cjob[c]
    BY <1>7 DEF CancelMark, Assigned
  <2>1. /\ UNCHANGED queue /\ cpc[c] = "cancel" /\ cpc'[c] = "idle"
        /\ status'[p] = "CANCELED" /\ \A q \in Pids \ {p} : status'[q] = status[q]
    BY <1>7, <2>0 DEF CancelMark, At, sched, TypeOK
  <2>2. status[p] # "none"
    BY <2>0, <2>1 DEF LivesOnce, NoPause
  <2>3. ~Active(p) => (Waiting(p)' <=> Waiting(p))
    <3>1. SUFFICES ASSUME ~Active(p), status[p] = "PENDING"
                   PROVE  \/ p \in Range(queue)
                          \/ \E d \in Clients : cpc[d] = "enqueue" /\ cjob[d] = p
      BY <1>1, <2>1 DEF Waiting
    <3> QED BY <1>1, <3>1 DEF PendingTracked, WithStatus, Active, Live
  <2>4. ASSUME NEW q \in Pids
        PROVE  StageOf(q)' = StageOf(q)
    <3>1. CASE q = p
      BY <1>2, <2>1, <2>2, <2>3, <3>1, SameStage
    <3>2. CASE q # p
      <4>1. Waiting(q)' <=> Waiting(q)
        BY <1>1, <2>1, <3>2 DEF Waiting
      <4> QED BY <1>2, <2>1, <3>2, <4>1, SameStage
    <3> QED BY <3>1, <3>2
  <2> QED BY <2>4 DEF AllSame
<1>8. ~DeploySave(c) /\ \A p \in Pids : ~DeployRead(c, p)
  BY DEF DeploySave, DeployRead, LivesOnce, NoPause
<1> QED BY <1>3, <1>4, <1>5, <1>6, <1>7, <1>8 DEF ClientStep

LEMMA CrashStages ==
  ASSUME LivesOnce, TypeOK, Crash
  PROVE  \A p \in Pids :
           /\ StageOf(p) = "waiting" =>
                StageOf(p)' = "waiting" \/ (StageOf(p)' = "done" /\ status[p] = "CANCELED")
           /\ StageOf(p) = "active" => StageOf(p)' \in {"waiting", "done"}
           /\ StageOf(p) \in {"new", "done"} => StageOf(p)' = StageOf(p)
<1> SUFFICES ASSUME NEW p \in Pids
             PROVE  /\ StageOf(p) = "waiting" =>
                         StageOf(p)' = "waiting" \/ (StageOf(p)' = "done" /\ status[p] = "CANCELED")
                    /\ StageOf(p) = "active" => StageOf(p)' \in {"waiting", "done"}
                    /\ StageOf(p) \in {"new", "done"} => StageOf(p)' = StageOf(p)
  OBVIOUS
<1>1. UNCHANGED status /\ queue' = <<>>
  BY DEF Crash, rows
<1>2. ~Active(p)' /\ (Waiting(p)' <=> status[p] = "PENDING")
  <2>1. Range(queue') = {}
    BY <1>1, EmptyOnce
  <2> QED BY <1>1, <2>1 DEF Crash, NoExecs, Active, Waiting, Live
<1>3. StageOf(p)' = IF status[p] = "PENDING" THEN "waiting"
                    ELSE IF status[p] = "none" THEN "new" ELSE "done"
  BY <1>1, <1>2 DEF StageOf, Active, Waiting
<1>4. Active(p) => status[p] # "none"
  BY DEF Active, LivesOnce, RunOnce
<1>5. Waiting(p) => status[p] \in Unborn
  BY DEF Waiting, LivesOnce, QueuedOnce, SubmittedOnce, Unborn
<1>6. /\ StageOf(p) = "active" <=> Active(p)
      /\ StageOf(p) = "waiting" <=> ~Active(p) /\ Waiting(p)
      /\ StageOf(p) = "new" <=> ~Active(p) /\ ~Waiting(p) /\ status[p] = "none"
      /\ StageOf(p) = "done" <=> ~Active(p) /\ ~Waiting(p) /\ status[p] # "none"
  BY StageCases
<1>7. ~Waiting(p) => status[p] # "PENDING"
  BY DEF Waiting
<1> QED BY <1>3, <1>4, <1>5, <1>6, <1>7 DEF Unborn

\* What was in the database alone is where it was when it comes back.
LEMMA RestartStages ==
  ASSUME LivesOnce, TypeOK, Restart
  PROVE  AllSame
<1> SUFFICES ASSUME NEW p \in Pids
             PROVE  StageOf(p)' = StageOf(p)
  BY DEF AllSame
<1>1. /\ \A g \in Goroutines : ~Live(g) /\ ~Live(g)'
      /\ \A c \in Clients : cpc[c] = "idle" /\ cpc'[c] = "idle"
      /\ queue = <<>>
  BY DEF Restart, execs, reqs, LivesOnce, DownEmpty, Live
<1>2. Range(queue) = {} /\ Range(queue') = WithStatus("PENDING")
  BY <1>1, EmptyOnce, ByCreationFacts DEF Restart, Requeued, WithStatus
<1>3. /\ status'[p] = "PENDING" <=> status[p] = "PENDING"
      /\ status'[p] = "none" <=> status[p] = "none"
  BY DEF Restart, Stranded, WithStatus
<1>4. Active(p)' <=> Active(p)
  BY <1>1 DEF Active
<1>5. Waiting(p)' <=> Waiting(p)
  BY <1>1, <1>2, <1>3 DEF Waiting, WithStatus
<1> QED BY <1>3, <1>4, <1>5, SameStage

Stages == [p \in Pids |-> StageOf(p)]
Wishes == {p \in Pids : status[p] = "CANCELED"}

\* Every step of the scheduler is a step of BuildQueue or leaves it alone.
LEMMA StepRefines ==
  ASSUME Automatic, Typed, LivesOnce, SlotsBounded, PendingTracked, ExitDecided, [Next]_vars
  PROVE  Abstract!Next \/ UNCHANGED <<Stages, Wishes>>
<1> USE DEF Typed
<1>1. Wishes' \in SUBSET Pids
  BY DEF Wishes
<1>2. ASSUME AllSame PROVE UNCHANGED Stages
  BY <1>2 DEF AllSame, Stages
<1>3. ASSUME NEW p \in Pids, \A q \in Pids \ {p} : StageOf(q)' = StageOf(q)
      PROVE  Stages' = [Stages EXCEPT ![p] = StageOf(p)']
  BY <1>3 DEF Stages
<1> HIDE DEF Typed
<1>4. ASSUME AllSame PROVE Abstract!Next
  BY <1>1, <1>2, <1>4 DEF Abstract!Next, Stages, Wishes
<1>5. ASSUME NEW l \in Loops, NEW g \in Goroutines, DispatchNext(l, g)
      PROVE  Abstract!Next
  <2>1. PICK p \in Pids :
          /\ StageOf(p) = "waiting" /\ StageOf(p)' = "active"
          /\ \A q \in Pids \ {p} : StageOf(q)' = StageOf(q)
          /\ Cardinality({q \in Pids : StageOf(q) = "active"}) < DefaultSlots
    BY <1>5, DispatchStarts DEF Typed
  <2>2. Stages[p] = "waiting" /\ Stages' = [Stages EXCEPT ![p] = "active"]
    BY <2>1, <1>3 DEF Stages
  <2>3. Abstract!In("active") = {q \in Pids : StageOf(q) = "active"}
    BY DEF Abstract!In
  <2>4. Abstract!Move(p, "waiting", "active")
    BY <2>2 DEF Abstract!Move, Stages
  <2>5. Abstract!Start(p)
    <3>1. Abstract!Cardinality(Abstract!In("active")) < DefaultSlots
      <4>1. Abstract!Cardinality(Abstract!In("active")) = Cardinality(Abstract!In("active"))
        BY DEF Abstract!Cardinality, Cardinality
      <4> QED BY <4>1, <2>1, <2>3
    <3> QED BY <3>1, <2>2 DEF Abstract!Start, Abstract!Move, Stages
  <2> QED BY <1>1, <2>5 DEF Abstract!Next, Wishes
<1>6. ASSUME NEW g \in Goroutines, ExecStep(g)
      PROVE  Abstract!Next
  <2>1. CASE AllSame
    BY <2>1, <1>4
  <2>2. CASE \E p \in Pids : /\ StageOf(p) = "active" /\ StageOf(p)' = "done"
                             /\ \A q \in Pids \ {p} : StageOf(q)' = StageOf(q)
    <3>1. PICK p \in Pids : /\ StageOf(p) = "active" /\ StageOf(p)' = "done"
                            /\ \A q \in Pids \ {p} : StageOf(q)' = StageOf(q)
      BY <2>2
    <3>2. Abstract!Finish(p)
      BY <3>1, <1>3 DEF Abstract!Finish, Abstract!Move, Stages
    <3> QED BY <1>1, <3>2 DEF Abstract!Next, Wishes
  <2> QED BY <1>6, <2>1, <2>2, ExecFinishes DEF Typed, AllSame
<1>7. ASSUME NEW c \in Clients, ClientStep(c)
      PROVE  Abstract!Next
  <2>1. CASE AllSame
    BY <2>1, <1>4
  <2>2. ASSUME NEW p \in Pids,
               \A q \in Pids \ {p} : StageOf(q)' = StageOf(q),
               StageOf(p) = "new", StageOf(p)' = "waiting", status'[p] # "CANCELED"
        PROVE  Abstract!Next
    <3>1. Abstract!Submit(p)
      BY <2>2, <1>3 DEF Abstract!Submit, Abstract!Move, Stages
    <3> QED BY <1>1, <3>1 DEF Abstract!Next, Wishes
  <2>3. ASSUME NEW p \in Pids,
               \A q \in Pids \ {p} : StageOf(q)' = StageOf(q),
               StageOf(p) = "waiting", StageOf(p)' = "done", status'[p] = "CANCELED"
        PROVE  Abstract!Next
    <3>1. Abstract!Withdraw(p)
      BY <2>3, <1>3 DEF Abstract!Withdraw, Abstract!Move, Stages
    <3> QED BY <1>1, <3>1 DEF Abstract!Next, Wishes
  <2> QED BY <1>7, <2>1, <2>2, <2>3, RequestStages DEF Typed
<1>8. CASE Crash
  <2>1. Stages' \in [Pids -> Abstract!Stages]
    <3>1. \A p \in Pids : StageOf(p)' \in Abstract!Stages
      BY DEF Abstract!Stages, StageOf
    <3> QED BY <3>1 DEF Stages
  <2>2. Abstract!Crash
    BY <1>8, <2>1, CrashStages DEF Typed, Abstract!Crash, Stages
  <2> QED BY <1>1, <2>2 DEF Abstract!Next, Wishes
<1>9. CASE Restart
  BY <1>4, <1>9, RestartStages DEF Typed
<1>10. CASE UNCHANGED vars \/ \E l \in Loops : DispatchDone(l)
  <2>1. UNCHANGED <<status, queue, pc, job, cpc, cjob>>
    BY <1>10 DEF vars, rows, sched, execs, reqs, DispatchDone
  <2>2. AllSame
    BY <2>1 DEF AllSame, StageOf, Live
  <2> QED BY <2>2, <1>4
<1> QED BY <1>5, <1>6, <1>7, <1>8, <1>9, <1>10 DEF Next, DispatchStep, Automatic

\* The scheduler, with reads that succeed, implements BuildQueue: each pipeline
\* is started at most once, in a free slot, is never dropped while it waits
\* unless its cancellation is on record, and a crash loses no waiting one.
THEOREM SchedulerImplementsBuildQueue ==
  ASSUME Automatic, DbFaults = FALSE
  PROVE  Spec => ImplementsBuildQueue
<1>1. Init => Abstract!Init
  <2> SUFFICES ASSUME Init PROVE Abstract!Init
    OBVIOUS
  <2>1. \A p \in Pids : StageOf(p) = "new" /\ status[p] = "none"
    BY EmptyOnce DEF Init, StageOf, Live
  <2> QED BY <2>1 DEF Abstract!Init
<1>2. Typed /\ LivesOnce /\ SlotsBounded /\ PendingTracked /\ ExitDecided /\ [Next]_vars
        => [Abstract!Next]_<<Stages, Wishes>>
  BY StepRefines
<1>3. Spec => [](Typed /\ LivesOnce /\ SlotsBounded /\ PendingTracked /\ ExitDecided)
  BY TypedAlways, LivesAlways, SlotsBoundedAlways, NoSubmissionLost, ExitDecidedAlways, PTL
<1> QED BY <1>1, <1>2, <1>3, PTL DEF Spec, ImplementsBuildQueue, Abstract!Spec, Stages, Wishes
=============================================================================
