--------------------------- MODULE BuildScheduler ---------------------------
(***************************************************************************)
(* The build scheduler (internal/scheduler/scheduler.go) with the HTTP     *)
(* handlers that drive it (internal/handler/pipeline.go, task.go) and the  *)
(* pipeline rows it shares with them.                                      *)
(*                                                                         *)
(* Three kinds of actors interleave: request goroutines (Clients), one     *)
(* goroutine per dispatched pipeline (Goroutines, a pool that stands for   *)
(* the unbounded `go s.executePipeline`) and the process itself, which may *)
(* crash and restart.  The queue, the running map and the goroutines are   *)
(* lost in a crash, the rows are not.  The scheduler's mutex is held from  *)
(* the lock to the end of tryDispatch's loop ("locked" \in dispatching);   *)
(* the loop run by Init at startup holds no lock ("init").                 *)
(*                                                                         *)
(* Only the status column of a row is kept.  The engine's stage loop is    *)
(* one step with its possible results; PipelineEngine models it.           *)
(***************************************************************************)
EXTENDS Naturals, FiniteSets, Sequences, SequencesExt, Functions

CONSTANTS
  Pids,          \* pipeline ids
  AppOf,         \* [Pids -> application ids]
  Approval,      \* pipelines whose deploy mode pauses after PUSH_IMAGE
  Goroutines,    \* pool of executor goroutines (bound on simultaneous ones)
  Clients,       \* concurrent HTTP requests
  NoPid, NoGo,
  DefaultSlots,  \* setting concurrency_limit, or 5
  Limits,        \* values SetConcurrency is called with
  MaxQueue,      \* bound: no Deploy is accepted beyond this queue length
  MaxCrashes,    \* bound: crashes per behaviour
  DbFaults,      \* TRUE: a row read may fail
  RacyInit       \* TRUE: Init's unlocked loop may lose an update of the queue

ASSUME SchedulerAssumption ==
  /\ Approval \subseteq Pids
  /\ NoPid \notin Pids /\ NoGo \notin Goroutines
  /\ IsFiniteSet(Pids) /\ IsFiniteSet(Goroutines)
  /\ DefaultSlots \in Nat \ {0} /\ Limits \subseteq Nat
  /\ MaxQueue \in Nat /\ MaxCrashes \in Nat
  /\ DbFaults \in BOOLEAN /\ RacyInit \in BOOLEAN

VARIABLES
  status,       \* pipelines.status
  createdAt,    \* pipelines.created_at, as a rank; 0: no such row
  up,           \* the process is running
  crashes,
  queue,        \* s.queue
  running,      \* s.running: the goroutine whose cancel function is stored
  maxSlots,     \* s.maxSlots
  dispatching,  \* which tryDispatch loops are under way
  pc, job,      \* executor goroutines: where, and for which pipeline
  canceled,     \* the executor's context is done
  verdict,      \* the status the executor is about to save
  cpc, cjob     \* request goroutines

rows == <<status, createdAt>>
sched == <<queue, running, maxSlots, dispatching>>
execs == <<pc, job, canceled, verdict>>
reqs == <<cpc, cjob>>
vars == <<rows, up, crashes, sched, execs, reqs>>

Status == {"none", "PENDING", "RUNNING", "IMAGE_READY", "DEPLOYING",
           "SUCCESS", "FAILED", "CANCELED"}
ExecPC == {"idle", "load", "context", "run", "cancel_old", "recheck", "save", "exit"}
ClientPC == {"idle", "enqueue", "deploy", "cancel"}
Loops == {"locked", "init"}

TypeOK ==
  /\ status \in [Pids -> Status]
  /\ createdAt \in [Pids -> Nat]
  /\ up \in BOOLEAN
  /\ crashes \in Nat
  /\ queue \in Seq(Pids)
  /\ running \in [Pids -> Goroutines \cup {NoGo}]
  /\ maxSlots \in Nat
  /\ dispatching \in SUBSET Loops
  /\ pc \in [Goroutines -> ExecPC]
  /\ job \in [Goroutines -> Pids \cup {NoPid}]
  /\ canceled \in [Goroutines -> BOOLEAN]
  /\ verdict \in [Goroutines -> Status]
  /\ cpc \in [Clients -> ClientPC]
  /\ cjob \in [Clients -> Pids \cup {NoPid}]

-----------------------------------------------------------------------------
(* Helpers *)

Occupied == {p \in Pids : running[p] # NoGo}    \* keys of s.running
Live(g) == pc[g] # "idle"
Bug_SlotFree == Cardinality(Occupied) <= maxSlots
SlotFree == Cardinality(Occupied) < maxSlots
Unlocked == "locked" \notin dispatching
Serving == up /\ "init" \notin dispatching      \* routes are registered after Init

\* What Execute may return for p: the pause error of an approval pipeline, an
\* error, or nil.  The engine compares p.Status with DEPLOYING, but the row was
\* set to RUNNING before the call, so an approval pipeline always starts afresh
\* and always pauses.
Results(p) == {"recheck"} \cup (IF p \in Approval THEN {"cancel_old"} ELSE {"SUCCESS"})

-----------------------------------------------------------------------------
(* tryDispatch *)

\* Take the mutex and enter tryDispatch's loop, which releases it.
Bug_LockAndDispatch == Unlocked /\ UNCHANGED dispatching
LockAndDispatch ==
  /\ Unlocked
  /\ dispatching' = dispatching \cup {"locked"}

StartExecutor(g, p) ==
  /\ running' = [running EXCEPT ![p] = g]
  /\ pc' = [pc EXCEPT ![g] = "load"]
  /\ job' = [job EXCEPT ![g] = p]
  /\ canceled' = [canceled EXCEPT ![g] = FALSE]

\* One iteration: pop the head, store the cancel function, start the goroutine.
\* While Init's loop and a locked one overlap, the pop may be lost (data race).
DispatchNext(l, g) ==
  /\ up /\ l \in dispatching
  /\ SlotFree /\ queue # <<>>
  /\ ~Live(g)
  /\ StartExecutor(g, Head(queue))
  /\ \/ queue' = Tail(queue)
     \/ RacyInit /\ dispatching = Loops /\ UNCHANGED queue
  /\ UNCHANGED <<rows, up, crashes, maxSlots, dispatching, verdict, reqs>>

\* The loop's condition fails; a locked caller unlocks.
DispatchDone(l) ==
  /\ up /\ l \in dispatching
  /\ ~(SlotFree /\ queue # <<>>)
  /\ dispatching' = dispatching \ {l}
  /\ UNCHANGED <<rows, up, crashes, queue, running, maxSlots, execs, reqs>>

-----------------------------------------------------------------------------
(* executePipeline *)

\* FindByID, Status = RUNNING, Save.
Begin(g) ==
  /\ up /\ pc[g] = "load"
  /\ status' = [status EXCEPT ![job[g]] = "RUNNING"]
  /\ pc' = [pc EXCEPT ![g] = "context"]
  /\ UNCHANGED <<createdAt, up, crashes, sched, job, canceled, verdict, reqs>>

\* FindByID fails: return at once, the row keeps its status.
LoadFails(g) ==
  /\ up /\ DbFaults /\ pc[g] = "load"
  /\ pc' = [pc EXCEPT ![g] = "exit"]
  /\ UNCHANGED <<rows, up, crashes, sched, job, canceled, verdict, reqs>>

\* buildContext returns nil: FAILED is saved without a look at the row.
ContextFails(g) ==
  /\ up /\ pc[g] = "context"
  /\ verdict' = [verdict EXCEPT ![g] = "FAILED"]
  /\ pc' = [pc EXCEPT ![g] = "save"]
  /\ UNCHANGED <<rows, up, crashes, sched, job, canceled, reqs>>

\* The engine starts; a context already done ends it before its first stage.
EngineStart(g) ==
  /\ up /\ pc[g] = "context"
  /\ pc' = [pc EXCEPT ![g] = IF canceled[g] THEN "recheck" ELSE "run"]
  /\ UNCHANGED <<rows, up, crashes, sched, job, canceled, verdict, reqs>>

\* Execute returns.  A signal that arrives in the last stage may be missed.
EngineReturns(g) ==
  /\ up /\ pc[g] = "run"
  /\ \E r \in Results(job[g]) :
       IF r = "SUCCESS"
       THEN /\ verdict' = [verdict EXCEPT ![g] = "SUCCESS"]
            /\ pc' = [pc EXCEPT ![g] = "save"]
       ELSE /\ pc' = [pc EXCEPT ![g] = r]
            /\ UNCHANGED verdict
  /\ UNCHANGED <<rows, up, crashes, sched, job, canceled, reqs>>

\* CancelOldImageReady(application, p)
CancelOldImageReady(g) ==
  /\ up /\ pc[g] = "cancel_old"
  /\ status' = [p \in Pids |->
       IF /\ p # job[g]
          /\ AppOf[p] = AppOf[job[g]]
          /\ status[p] = "IMAGE_READY"
       THEN "CANCELED" ELSE status[p]]
  /\ verdict' = [verdict EXCEPT ![g] = "IMAGE_READY"]
  /\ pc' = [pc EXCEPT ![g] = "save"]
  /\ UNCHANGED <<createdAt, up, crashes, sched, job, canceled, reqs>>

\* An error: the row is read again to tell a cancellation from a failure; a
\* read that fails tells nothing.
Recheck(g) ==
  /\ up /\ pc[g] = "recheck"
  /\ \E seen \in {status[job[g]]} \cup (IF DbFaults THEN {"none"} ELSE {}) :
       verdict' = [verdict EXCEPT ![g] = IF seen = "CANCELED" THEN "CANCELED" ELSE "FAILED"]
  /\ pc' = [pc EXCEPT ![g] = "save"]
  /\ UNCHANGED <<rows, up, crashes, sched, job, canceled, reqs>>

\* The whole row is saved over whatever it holds by now.
SaveVerdict(g) ==
  /\ up /\ pc[g] = "save"
  /\ status' = [status EXCEPT ![job[g]] = verdict[g]]
  /\ pc' = [pc EXCEPT ![g] = "exit"]
  /\ UNCHANGED <<createdAt, up, crashes, sched, job, canceled, verdict, reqs>>

\* delete(s.running, pipelineID)
Bug_Release(p) == UNCHANGED running
Release(p) == running' = [running EXCEPT ![p] = NoGo]

\* The deferred function: lock, delete the map entry, tryDispatch.
Exit(g) ==
  /\ up /\ pc[g] = "exit"
  /\ LockAndDispatch
  /\ Release(job[g])
  /\ pc' = [pc EXCEPT ![g] = "idle"]
  /\ job' = [job EXCEPT ![g] = NoPid]
  /\ UNCHANGED <<rows, up, crashes, queue, maxSlots, canceled, verdict, reqs>>

-----------------------------------------------------------------------------
(* Requests *)

At(c, where, p) ==
  /\ cpc' = [cpc EXCEPT ![c] = where]
  /\ cjob' = [cjob EXCEPT ![c] = p]

\* CreateAndEnqueue: the PENDING row is committed before it is queued.
Create(c, p) ==
  /\ Serving /\ cpc[c] = "idle" /\ status[p] = "none"
  /\ status' = [status EXCEPT ![p] = "PENDING"]
  /\ createdAt' = [createdAt EXCEPT ![p] =
       Cardinality({q \in Pids : status[q] # "none"}) + 1]
  /\ At(c, "enqueue", p)
  /\ UNCHANGED <<up, crashes, sched, execs>>

\* Mutant: the id is read before the insert has filled it in.
Bug_EnqueueZeroId(c) ==
  /\ Serving /\ cpc[c] = "enqueue"
  /\ LockAndDispatch
  /\ queue' = Append(queue, NoPid)
  /\ At(c, "idle", NoPid)
  /\ UNCHANGED <<rows, up, crashes, running, maxSlots, execs>>

\* Enqueue: lock, append, tryDispatch.
Enqueue(c) ==
  /\ Serving /\ cpc[c] = "enqueue"
  /\ LockAndDispatch
  /\ queue' = Append(queue, cjob[c])
  /\ At(c, "idle", NoPid)
  /\ UNCHANGED <<rows, up, crashes, running, maxSlots, execs>>

\* Deploy reads the row and requires IMAGE_READY ...
DeployRead(c, p) ==
  /\ Serving /\ cpc[c] = "idle" /\ status[p] = "IMAGE_READY"
  /\ Len(queue) < MaxQueue
  /\ At(c, "deploy", p)
  /\ UNCHANGED <<rows, up, crashes, sched, execs>>

\* Mutant: the confirmed pipeline is not enqueued again.
Bug_DeployNotEnqueued(c) ==
  /\ Serving /\ cpc[c] = "deploy"
  /\ status' = [status EXCEPT ![cjob[c]] = "DEPLOYING"]
  /\ At(c, "idle", NoPid)
  /\ UNCHANGED <<createdAt, up, crashes, sched, execs>>

\* ... then saves the row it read as DEPLOYING, and enqueues it again.
DeploySave(c) ==
  /\ Serving /\ cpc[c] = "deploy"
  /\ status' = [status EXCEPT ![cjob[c]] = "DEPLOYING"]
  /\ cpc' = [cpc EXCEPT ![c] = "enqueue"]
  /\ UNCHANGED <<createdAt, up, crashes, sched, execs, cjob>>

\* Scheduler.Cancel: drop the first match from the queue, or else signal the
\* goroutine whose cancel function the map holds.
Cancel(c, p) ==
  /\ Serving /\ cpc[c] = "idle" /\ Unlocked /\ status[p] # "none"
  /\ IF p \in Range(queue)
     THEN /\ \E i \in DOMAIN queue :
               /\ queue[i] = p /\ \A j \in 1..(i-1) : queue[j] # p
               /\ queue' = RemoveAt(queue, i)
          /\ status' = [status EXCEPT ![p] = "CANCELED"]
          /\ UNCHANGED canceled
     ELSE /\ canceled' = [g \in Goroutines |-> canceled[g] \/ running[p] = g]
          /\ UNCHANGED <<queue, status>>
  /\ At(c, "cancel", p)
  /\ UNCHANGED <<createdAt, up, crashes, running, maxSlots, dispatching, pc, job, verdict>>

\* The handler's own UpdateStatus, whatever the row holds by now.
CancelMark(c) ==
  /\ Serving /\ cpc[c] = "cancel"
  /\ status' = [status EXCEPT ![cjob[c]] = "CANCELED"]
  /\ At(c, "idle", NoPid)
  /\ UNCHANGED <<createdAt, up, crashes, sched, execs>>

SetConcurrency(n) ==
  /\ Serving
  /\ LockAndDispatch
  /\ maxSlots' = n
  /\ UNCHANGED <<rows, up, crashes, queue, running, execs, reqs>>

-----------------------------------------------------------------------------
(* The process *)

NoExecs ==
  /\ pc' = [g \in Goroutines |-> "idle"]
  /\ job' = [g \in Goroutines |-> NoPid]
  /\ canceled' = [g \in Goroutines |-> FALSE]
  /\ verdict' = [g \in Goroutines |-> "none"]

Crash ==
  /\ up /\ crashes < MaxCrashes
  /\ up' = FALSE
  /\ crashes' = crashes + 1
  /\ queue' = <<>>
  /\ running' = [p \in Pids |-> NoGo]
  /\ dispatching' = {}
  /\ NoExecs
  /\ cpc' = [c \in Clients |-> "idle"]
  /\ cjob' = [c \in Clients |-> NoPid]
  /\ UNCHANGED <<rows, maxSlots>>

WithStatus(s) == {p \in Pids : status[p] = s}

\* recoverPending: RUNNING rows are stranded, PENDING rows are queued again.
Bug_Stranded == {}
Stranded == WithStatus("RUNNING")
Bug_Requeued == {}
Bug_RequeuedStranded == WithStatus("PENDING") \cup WithStatus("RUNNING")
Requeued == WithStatus("PENDING")

\* GetPending orders by created_at.
ByCreation(S) ==
  {q \in Bijection(1..Cardinality(S), S) :
     \A i, j \in DOMAIN q : i < j => createdAt[q[i]] <= createdAt[q[j]]}

\* Init and recoverPending.
Restart ==
  /\ ~up
  /\ up' = TRUE
  /\ maxSlots' = DefaultSlots
  /\ status' = [p \in Pids |-> IF p \in Stranded THEN "FAILED" ELSE status[p]]
  /\ queue' \in ByCreation(Requeued)
  /\ dispatching' = IF Requeued = {} THEN {} ELSE {"init"}
  /\ UNCHANGED <<createdAt, crashes, running, execs, reqs>>

-----------------------------------------------------------------------------
Init ==
  /\ status = [p \in Pids |-> "none"]
  /\ createdAt = [p \in Pids |-> 0]
  /\ up = TRUE /\ crashes = 0
  /\ queue = <<>>
  /\ running = [p \in Pids |-> NoGo]
  /\ maxSlots = DefaultSlots
  /\ dispatching = {}
  /\ pc = [g \in Goroutines |-> "idle"]
  /\ job = [g \in Goroutines |-> NoPid]
  /\ canceled = [g \in Goroutines |-> FALSE]
  /\ verdict = [g \in Goroutines |-> "none"]
  /\ cpc = [c \in Clients |-> "idle"]
  /\ cjob = [c \in Clients |-> NoPid]

DispatchStep == \E l \in Loops : (\E g \in Goroutines : DispatchNext(l, g)) \/ DispatchDone(l)

ExecStep(g) ==
  \/ Begin(g) \/ LoadFails(g) \/ ContextFails(g) \/ EngineStart(g)
  \/ EngineReturns(g) \/ CancelOldImageReady(g) \/ Recheck(g)
  \/ SaveVerdict(g) \/ Exit(g)

ClientStep(c) ==
  \/ \E p \in Pids : Create(c, p) \/ DeployRead(c, p) \/ Cancel(c, p)
  \/ Enqueue(c) \/ DeploySave(c) \/ CancelMark(c)

Next ==
  \/ DispatchStep
  \/ \E g \in Goroutines : ExecStep(g)
  \/ \E c \in Clients : ClientStep(c)
  \/ \E n \in Limits : SetConcurrency(n)
  \/ Crash
  \/ Restart

Spec == Init /\ [][Next]_vars

\* Goroutines are scheduled, every stage ends (its context has a timeout), a
\* started request is carried on, and Go's mutex does not starve a waiter.  No
\* user is obliged to do anything and no crash to happen.
Fairness ==
  /\ WF_vars(DispatchStep)
  /\ \A g \in Goroutines : WF_vars(ExecStep(g)) /\ SF_vars(Exit(g))
  /\ \A c \in Clients : SF_vars(Enqueue(c)) /\ WF_vars(DeploySave(c)) /\ WF_vars(CancelMark(c))
  /\ WF_vars(Restart)

FairSpec == Spec /\ Fairness

-----------------------------------------------------------------------------
(* Properties *)

\* No slot leaks: an entry of the running map belongs to a live goroutine that
\* executes that very pipeline (tryDispatch against the deferred delete).
SlotsOwned ==
  \A p \in Pids : running[p] # NoGo => Live(running[p]) /\ job[running[p]] = p

\* The scheduler never sleeps on work: with no dispatch loop under way, a
\* waiting pipeline means that all slots are taken.
WorkConserving == up /\ dispatching = {} => queue = <<>> \/ ~SlotFree

\* No submitted pipeline is lost: a PENDING row is queued, about to be queued by
\* the request that created it, or just dispatched, in a process that has been
\* restarted too.
PendingTracked ==
  up => \A p \in WithStatus("PENDING") :
    \/ p \in Range(queue)
    \/ \E g \in Goroutines : pc[g] = "load" /\ job[g] = p
    \/ \E c \in Clients : cpc[c] = "enqueue" /\ cjob[c] = p

\* A confirmed deployment is not lost either, as long as the process lives.
DeployTracked ==
  \A p \in Pids : status[p] = "DEPLOYING" =>
    \/ p \in Range(queue)
    \/ \E g \in Goroutines : Live(g) /\ job[g] = p
    \/ \E c \in Clients : cpc[c] = "enqueue" /\ cjob[c] = p

\* A RUNNING row is being executed: whatever goroutines, requests and restarts
\* interleave, none leaves a build RUNNING that nobody runs.
RunningOwned ==
  up => \A p \in Pids : status[p] = "RUNNING" =>
    \E g \in Goroutines :
      job[g] = p /\ pc[g] \in {"context", "run", "cancel_old", "recheck", "save"}

\* design.md Property 4: no more builds run at once than the limit allows.
BuildsBounded ==
  Cardinality({g \in Goroutines : pc[g] \notin {"idle", "load", "exit"}}) <= maxSlots

\* A finished pipeline is never run or failed a second time: of all the actors
\* that save rows, only Cancel's own write may touch it.
FinishedOnlyCanceled ==
  [][\A p \in Pids : status[p] \in {"SUCCESS", "FAILED"} =>
       status'[p] \in {status[p], "CANCELED"}]_vars

\* design.md's state diagram has no step out of SUCCESS or FAILED.
FinishedIsFinal ==
  [][\A p \in Pids : status[p] \in {"SUCCESS", "FAILED"} => status'[p] = status[p]]_vars

\* requirements.md 5.3: a canceled build stays canceled.
CancelIsFinal ==
  [][\A p \in Pids : status[p] = "CANCELED" => status'[p] = "CANCELED"]_vars

\* scheduler.go: "keep only latest" IMAGE_READY pipeline of an application.
OneImageReadyPerApp ==
  \A p, q \in Pids :
    /\ status[p] = "IMAGE_READY" /\ status[q] = "IMAGE_READY"
    /\ AppOf[p] = AppOf[q]
    => p = q

\* The scheduler implements BuildQueue when no pipeline is confirmed by hand
\* (Approval = {}): each pipeline runs at most once, in one of DefaultSlots
\* slots, and a crash loses none that waits.
StageOf(p) ==
  IF \E g \in Goroutines : Live(g) /\ job[g] = p THEN "active"
  ELSE IF \/ status[p] = "PENDING" \/ p \in Range(queue)
          \/ \E c \in Clients : cpc[c] = "enqueue" /\ cjob[c] = p THEN "waiting"
  ELSE IF status[p] = "none" THEN "new" ELSE "done"

Abstract == INSTANCE BuildQueue WITH
  Jobs <- Pids, Slots <- DefaultSlots,
  stage <- [p \in Pids |-> StageOf(p)],
  wish <- {p \in Pids : status[p] = "CANCELED"}

ImplementsBuildQueue == Abstract!Spec

\* Every submitted or confirmed pipeline comes to rest.
Settles ==
  \A p \in Pids :
    status[p] \in {"PENDING", "RUNNING", "DEPLOYING"} ~>
      status[p] \in {"SUCCESS", "FAILED", "CANCELED", "IMAGE_READY"}
=============================================================================
