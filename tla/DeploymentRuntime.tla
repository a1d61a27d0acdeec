-------------------------- MODULE DeploymentRuntime --------------------------
(***************************************************************************)
(* Deployment runs: the HTTP handler that accepts them                     *)
(* (internal/deploy/handler/handler.go), the lock manager                  *)
(* (engine/runtime/manager.go), the executor goroutine of each run         *)
(* (engine/runtime/executor.go), the rows they share                       *)
(* (deploy/repository) and the recovery done at startup (maintenance.go).  *)
(*                                                                         *)
(* A request is checked by a client's goroutine, becomes a row with the    *)
(* next id, takes a lock or is refused, and is then driven by a goroutine  *)
(* of its own up to the release of the lock.  Cancellation, the deadline   *)
(* and a crash may come between any two steps.  Commands on hosts are      *)
(* external: the dispatch of one component is a step that starts and a     *)
(* step that ends well or badly.  Target selection, rendering and the log  *)
(* stream are left out; LogHub models the latter.                          *)
(***************************************************************************)
EXTENDS Naturals, FiniteSets

CONSTANTS
  MaxRuns,      \* bound: runs created per behaviour
  Clients,      \* concurrent CreateRun requests
  Components,   \* pipeline components of the engine configuration
  Enabled,      \* those enabled in it
  Rank,         \* deploy order: [Components -> Nat], one to one
  Virtuals,     \* virtual component names (some name their only component too)
  Members,      \* [Virtuals -> SUBSET Components], the mappings
  Requests,     \* run options clients ask for
  Retain,       \* setting retain_deployments; 0 disables pruning
  MaxCrashes,   \* bound: crashes per behaviour
  MaxCancels,   \* bound: cancellations and deadlines per behaviour
  StoreFaults,  \* TRUE: a store call may fail (error, or request context gone)
  None

Names == Components \cup Virtuals
Options == [mode : {"deploy", "rollback", "phase"}, scope : {"all", "component"},
            name : Names \cup {"all"}, dry : BOOLEAN]

ASSUME RuntimeAssumption ==
  /\ MaxRuns \in Nat /\ Retain \in Nat /\ MaxCrashes \in Nat /\ MaxCancels \in Nat
  /\ Enabled \subseteq Components /\ IsFiniteSet(Components)
  /\ Rank \in [Components -> Nat]
  /\ \A c, d \in Components : Rank[c] = Rank[d] => c = d
  /\ Members \in [Virtuals -> SUBSET Components]
  /\ Requests \subseteq Options
  /\ \A o \in Requests :                          \* validateOptions
       IF o.scope = "all" THEN o.mode # "phase" /\ o.name = "all" ELSE o.name \in Names
  /\ StoreFaults \in BOOLEAN
  /\ None \notin Options /\ None \notin Nat /\ None \notin Components
  /\ "all" \notin Names /\ "none" \notin Names

Runs == 1..MaxRuns

VARIABLES
  request,   \* clients: the options that passed CreateRun's checks, or None
  row,       \* deployments.status
  state,     \* component_deploy_states.status; no row reads as not_deployed
  full,      \* m.full
  component, \* m.component, None for a missing key
  opts,      \* options of each run
  pc,        \* the goroutine of each run
  scope,     \* the components of the run
  tried,     \* those whose dispatch has ended
  done,      \* components dispatched without error
  current,   \* component being dispatched
  failed,    \* runs that will end as failed
  canceled,  \* runs whose context is done (cancelled or past the deadline)
  shielded,  \* runs that finish under context.Background()
  pruning,   \* a pruning goroutine is under way
  acked,     \* history: runs whose Cancel call returned true
  swept,     \* history: components a cleanup rolled back, not deployed since
  crashes, cancels

table == <<row, state>>
locks == <<full, component>>
work == <<scope, tried, done, current, failed>>
context == <<canceled, shielded>>
history == <<acked, swept, crashes, cancels>>
vars == <<request, table, locks, opts, pc, work, context, pruning, history>>

RowStatus == {"none", "running", "success", "failed", "FAILED"}
Finished == {"success", "failed", "FAILED"}
Executing == {"preparing", "filtering", "working", "dispatching", "undoing",
              "clearing", "finishing", "saving", "recording", "releasing"}

TypeOK ==
  /\ request \in [Clients -> Options \cup {None}]
  /\ row \in [Runs -> RowStatus]
  /\ state \in [Names -> {"not_deployed", "deployed", "failed"}]
  /\ full \in Runs \cup {None}
  /\ component \in [Names -> Runs \cup {None}]
  /\ opts \in [Runs -> Options \cup {None}]
  /\ pc \in [Runs -> Executing \cup {"unused", "created", "over"}]
  /\ scope \in [Runs -> SUBSET Components]
  /\ tried \in [Runs -> SUBSET Components] /\ done \in [Runs -> SUBSET Components]
  /\ current \in [Runs -> Components \cup {None}]
  /\ failed \in SUBSET Runs /\ canceled \in SUBSET Runs /\ shielded \in SUBSET Runs
  /\ acked \in SUBSET Runs /\ swept \in SUBSET Components
  /\ pruning \in BOOLEAN /\ crashes \in Nat /\ cancels \in Nat

-----------------------------------------------------------------------------
(* Helpers *)

Live(r) == pc[r] \in Executing
Whole(r) == opts[r].scope = "all"
DirtyState(n) == state[n] # "not_deployed"

\* A store write of run r's finish: it fails when the context it uses is done.
Writes(r) == {ok \in BOOLEAN : IF r \in canceled \ shielded THEN ~ok ELSE ok \/ StoreFaults}

\* expandScope.  A virtual name wins over a pipeline component of that name.
Scope(o) ==
  IF o.scope = "all" THEN Enabled
  ELSE IF o.name \in Virtuals THEN Members[o.name] \cap Enabled ELSE {o.name}

\* Deployments go up the deploy order, rollbacks down (ComponentOrderForPhase).
Foremost(c, S) == c \in S /\ \A d \in S : Rank[c] <= Rank[d]
Rearmost(c, S) == c \in S /\ \A d \in S : Rank[d] <= Rank[c]
Remaining(r) == scope[r] \ tried[r]
IsUpcoming(c, r) ==
  IF opts[r].mode = "rollback" THEN Rearmost(c, Remaining(r)) ELSE Foremost(c, Remaining(r))

Owners(c) == {v \in Virtuals : c \in Members[v]}
Bug_NeedsCleanup(c) == DirtyState(c)
NeedsCleanup(c) == DirtyState(c) \/ \E v \in Owners(c) : DirtyState(v)

Goto(r, label) == pc' = [pc EXCEPT ![r] = label]
FinishAs(r, ok) ==
  /\ failed' = IF ok THEN failed ELSE failed \cup {r}
  /\ Goto(r, "finishing")

-----------------------------------------------------------------------------
(* CreateRun and Submit *)

\* deployStateBlocks: only a real deployment of one component is checked, and a
\* lookup error lets it pass.
Blocked(o) == o.mode = "deploy" /\ o.scope = "component" /\ ~o.dry /\ DirtyState(o.name)

CreateRun(c) ==
  /\ request[c] = None
  /\ \E o \in Requests :
       /\ ~Blocked(o) \/ StoreFaults
       /\ request' = [request EXCEPT ![c] = o]
  /\ UNCHANGED <<table, locks, opts, pc, work, context, pruning, history>>

\* The row is created before the lock is asked for; ids grow.
Submit(c, r) ==
  /\ request[c] # None
  /\ pc[r] = "unused" /\ \A q \in Runs : q < r => pc[q] # "unused"
  /\ request' = [request EXCEPT ![c] = None]
  /\ opts' = [opts EXCEPT ![r] = request[c]]
  /\ row' = [row EXCEPT ![r] = "running"]
  /\ Goto(r, "created")
  /\ UNCHANGED <<state, locks, work, context, pruning, history>>

Bug_Conflicts(o) ==
  full # None \/ (o.scope = "component" /\ component[o.name] # None)
Conflicts(o) ==
  \/ full # None
  \/ IF o.scope = "all" THEN \E n \in Names : component[n] # None
     ELSE component[o.name] # None

Acquire(r) ==
  /\ pc[r] = "created" /\ ~Conflicts(opts[r])
  /\ IF Whole(r) THEN full' = r /\ UNCHANGED component
     ELSE component' = [component EXCEPT ![opts[r].name] = r] /\ UNCHANGED full
  /\ Goto(r, "preparing")
  /\ UNCHANGED <<request, table, opts, work, context, pruning, history>>

Bug_Refuse(r) ==
  /\ pc[r] = "created" /\ Conflicts(opts[r])
  /\ Goto(r, "over")
  /\ UNCHANGED <<request, table, locks, opts, work, context, pruning, history>>
\* ErrConflict: the row is closed with the request's context.
Refuse(r) ==
  /\ pc[r] = "created" /\ Conflicts(opts[r])
  /\ row' = [row EXCEPT ![r] = "failed"] \/ (StoreFaults /\ UNCHANGED row)
  /\ Goto(r, "over")
  /\ UNCHANGED <<request, state, locks, opts, work, context, pruning, history>>

-----------------------------------------------------------------------------
(* runOne *)

\* Render, save the run directory, load, expand the scope, choose the path.  The
\* save writes the whole row.
PrepareFails(r) ==
  /\ pc[r] = "preparing"
  /\ FinishAs(r, FALSE)
  /\ UNCHANGED <<request, table, locks, opts, scope, tried, done, current, context, pruning, history>>

Prepare(r) ==
  /\ pc[r] = "preparing" /\ Scope(opts[r]) # {} /\ ~opts[r].dry
  /\ opts[r].mode = "phase" => Cardinality(Scope(opts[r])) = 1
  /\ \/ row' = [row EXCEPT ![r] = "running"]
     \/ (StoreFaults \/ r \in canceled) /\ UNCHANGED row
  /\ scope' = [scope EXCEPT ![r] = Scope(opts[r])]
  /\ Goto(r, IF opts[r].mode = "rollback" /\ Whole(r) THEN "filtering" ELSE "working")
  /\ UNCHANGED <<request, state, locks, opts, tried, done, current, failed, context, pruning, history>>

\* runDryRun plans and logs; it fails when a plan cannot be built or the context
\* is done.
DryRun(r) ==
  /\ pc[r] = "preparing" /\ opts[r].dry /\ Scope(opts[r]) # {}
  /\ \E ok \in BOOLEAN : FinishAs(r, ok)
  /\ UNCHANGED <<request, table, locks, opts, scope, tried, done, current, context, pruning, history>>

\* skipUndeployedComponents; every component is kept when the states cannot be read.
SkipUndeployed(r) ==
  /\ pc[r] = "filtering"
  /\ LET keep == {c \in scope[r] : NeedsCleanup(c)} IN
       \/ r \notin canceled /\ keep = {} /\ FinishAs(r, TRUE) /\ UNCHANGED scope
       \/ /\ r \notin canceled /\ keep # {}
          /\ scope' = [scope EXCEPT ![r] = keep]
          /\ Goto(r, "working") /\ UNCHANGED failed
       \/ /\ r \in canceled \/ StoreFaults
          /\ Goto(r, "working") /\ UNCHANGED <<scope, failed>>
  /\ UNCHANGED <<request, table, locks, opts, tried, done, current, context, pruning, history>>

\* What follows the loop: cleanups update the states, a failed deployment of
\* everything undoes the components it deployed.
AfterLoop(r, ok) ==
  /\ failed' = IF ok THEN failed ELSE failed \cup {r}
  /\ Goto(r, IF Whole(r) /\ opts[r].mode = "rollback" THEN "clearing"
             ELSE IF Whole(r) /\ ~ok /\ done[r] # {} THEN "undoing" ELSE "finishing")

\* The context is checked before each component; a single phase is not.
LoopStopped(r) ==
  /\ pc[r] = "working" /\ Remaining(r) # {}
  /\ r \in canceled /\ opts[r].mode # "phase"
  /\ AfterLoop(r, FALSE)
  /\ UNCHANGED <<request, table, locks, opts, scope, tried, done, current, context, pruning, history>>

\* After the last component nothing looks at the context any more.
LoopEnded(r) ==
  /\ pc[r] = "working" /\ Remaining(r) = {}
  /\ AfterLoop(r, r \notin failed)
  /\ UNCHANGED <<request, table, locks, opts, scope, tried, done, current, context, pruning, history>>

Dispatch(r) ==
  /\ pc[r] = "working"
  /\ r \notin canceled \/ opts[r].mode = "phase"
  /\ \E c \in Components :
       /\ IsUpcoming(c, r)
       /\ current' = [current EXCEPT ![r] = c]
       /\ swept' = IF opts[r].mode = "deploy" THEN swept \ {c} ELSE swept
  /\ Goto(r, "dispatching")
  /\ UNCHANGED <<request, table, locks, opts, scope, tried, done, failed, context, pruning,
                 acked, crashes, cancels>>

\* The component's plan ran to its end (a rollback runs the residue phase too).
DispatchSucceeds(r) ==
  /\ pc[r] = "dispatching"
  /\ done' = [done EXCEPT ![r] = @ \cup {current[r]}]
  /\ tried' = [tried EXCEPT ![r] = @ \cup {current[r]}]
  /\ current' = [current EXCEPT ![r] = None]
  /\ swept' = IF Whole(r) /\ opts[r].mode = "rollback" THEN swept \cup {current[r]} ELSE swept
  /\ Goto(r, "working")
  /\ UNCHANGED <<request, table, locks, opts, scope, failed, context, pruning, acked, crashes, cancels>>

Bug_DispatchFails(r) ==
  /\ pc[r] = "dispatching"
  /\ current' = [current EXCEPT ![r] = None]
  /\ Goto(r, "working") /\ failed' = failed \cup {r}
  /\ UNCHANGED <<request, table, locks, opts, scope, tried, done, context, pruning, history>>
\* An action failed or the context ended: a rollback goes on with the next
\* component, everything else stops.
DispatchFails(r) ==
  /\ pc[r] = "dispatching"
  /\ current' = [current EXCEPT ![r] = None]
  /\ tried' = [tried EXCEPT ![r] = @ \cup {current[r]}]
  /\ IF opts[r].mode = "rollback"
     THEN failed' = failed \cup {r} /\ Goto(r, "working")
     ELSE AfterLoop(r, FALSE)
  /\ UNCHANGED <<request, table, locks, opts, scope, done, context, pruning, history>>

\* failRunWithRollback, one component in reverse order; it has a context of its
\* own and goes on whatever the result.
Undo(r) ==
  /\ pc[r] = "undoing"
  /\ \E c \in Components :
       Rearmost(c, done[r]) /\ done' = [done EXCEPT ![r] = @ \ {c}]
  /\ Goto(r, IF done'[r] = {} THEN "finishing" ELSE "undoing")
  /\ UNCHANGED <<request, table, locks, opts, scope, tried, current, failed, context, pruning, history>>

\* markVirtualComponentsCleaned, with the run's own context: the components rolled
\* back, and the virtual ones all of whose components in scope were.
Cleared(r) ==
  done[r] \cup {v \in Virtuals : /\ Members[v] \cap scope[r] # {}
                                 /\ Members[v] \cap scope[r] \subseteq done[r]}
ClearStates(r) ==
  /\ pc[r] = "clearing"
  /\ \E written \in SUBSET Cleared(r) :
       /\ r \in canceled => written = {}
       /\ r \notin canceled /\ ~StoreFaults => written = Cleared(r)
       /\ state' = [n \in Names |-> IF n \in written THEN "not_deployed" ELSE state[n]]
  /\ Goto(r, "finishing")
  /\ UNCHANGED <<request, row, locks, opts, work, context, pruning, history>>

-----------------------------------------------------------------------------
(* failRun and successRun *)

\* finishContext looks at the context once, before the log entry is written.
Finish(r) ==
  /\ pc[r] = "finishing"
  /\ shielded' = IF r \in canceled THEN shielded \cup {r} ELSE shielded
  /\ Goto(r, "saving")
  /\ UNCHANGED <<request, table, locks, opts, work, canceled, pruning, history>>

\* markFinished; its failure is only logged.
SaveVerdict(r) ==
  /\ pc[r] = "saving"
  /\ \E ok \in Writes(r) :
       row' = IF ok THEN [row EXCEPT ![r] = IF r \in failed THEN "failed" ELSE "success"]
              ELSE row
  /\ Goto(r, "recording")
  /\ UNCHANGED <<request, state, locks, opts, work, context, pruning, history>>

Bug_NewStateRow(r) == row[r]
Bug_NewState(r) == IF opts[r].mode = "deploy" THEN "deployed" ELSE "not_deployed"
\* recordComponentDeployState, hub.Close and afterFinish, which starts at most one
\* pruning goroutine.
NewState(r) ==
  IF opts[r].mode = "deploy" THEN IF r \in failed THEN "failed" ELSE "deployed"
  ELSE IF opts[r].mode = "rollback" /\ r \notin failed THEN "not_deployed"
  ELSE state[opts[r].name]
Record(r) ==
  /\ pc[r] = "recording"
  /\ \E ok \in Writes(r) :
       state' = IF ~opts[r].dry /\ ~Whole(r) /\ ok
                THEN [state EXCEPT ![opts[r].name] = NewState(r)] ELSE state
  /\ pruning' = (pruning \/ Retain > 0)
  /\ Goto(r, "releasing")
  /\ UNCHANGED <<request, row, locks, opts, work, context, history>>

Bug_Release(r) ==
  /\ pc[r] = "releasing"
  /\ full' = IF full = r THEN None ELSE full
  /\ component' = [n \in Names |->
                     IF component[n] = r /\ r \notin failed THEN None ELSE component[n]]
  /\ Goto(r, "over")
  /\ UNCHANGED <<request, table, opts, work, context, pruning, history>>
\* The deferred release: only the handle that holds a lock frees it.
Release(r) ==
  /\ pc[r] = "releasing"
  /\ full' = IF full = r THEN None ELSE full
  /\ component' = [n \in Names |->
                     IF component[n] = r /\ n = opts[r].name THEN None ELSE component[n]]
  /\ Goto(r, "over")
  /\ UNCHANGED <<request, table, opts, work, context, pruning, history>>

\* PruneOldDeployments keeps the newest Retain rows, running or not; a later save
\* of a deleted row inserts it again.
Prune ==
  /\ pruning
  /\ row' = [r \in Runs |->
               IF Cardinality({q \in Runs : q > r /\ row[q] # "none"}) >= Retain
               THEN "none" ELSE row[r]]
  /\ pruning' = FALSE
  /\ UNCHANGED <<request, state, locks, opts, pc, work, context, history>>

-----------------------------------------------------------------------------
(* Cancellation, deadline, crash *)

Holds(r) == full = r \/ \E n \in Names : component[n] = r

\* CancelRun answers true when a lock's handle has the run's id.
Cancel(r) ==
  /\ cancels < MaxCancels /\ Holds(r) /\ r \notin acked
  /\ canceled' = canceled \cup {r}
  /\ acked' = acked \cup {r}
  /\ cancels' = cancels + 1
  /\ UNCHANGED <<request, table, locks, opts, pc, work, shielded, pruning, swept, crashes>>

Deadline(r) ==
  /\ cancels < MaxCancels /\ Live(r) /\ r \notin canceled
  /\ canceled' = canceled \cup {r}
  /\ cancels' = cancels + 1
  /\ UNCHANGED <<request, table, locks, opts, pc, work, shielded, pruning, acked, swept, crashes>>

Bug_Restart ==
  /\ crashes < MaxCrashes
  /\ crashes' = crashes + 1
  /\ request' = [c \in Clients |-> None]
  /\ full' = None /\ component' = [n \in Names |-> None]
  /\ pc' = [r \in Runs |-> IF pc[r] = "unused" THEN "unused" ELSE "over"]
  /\ current' = [r \in Runs |-> None]
  /\ pruning' = FALSE
  /\ row' = [r \in Runs |-> IF row[r] = "none" THEN "none" ELSE "FAILED"]
  /\ UNCHANGED <<state, opts, scope, tried, done, failed, context, acked, swept, cancels>>
\* The process dies; at startup FinalizeOrphanedRuns closes the rows it left,
\* before requests are served.  Its failure is only logged.
Restart ==
  /\ crashes < MaxCrashes
  /\ crashes' = crashes + 1
  /\ request' = [c \in Clients |-> None]
  /\ full' = None /\ component' = [n \in Names |-> None]
  /\ pc' = [r \in Runs |-> IF pc[r] = "unused" THEN "unused" ELSE "over"]
  /\ current' = [r \in Runs |-> None]
  /\ pruning' = FALSE
  /\ \/ row' = [r \in Runs |-> IF row[r] = "running" THEN "FAILED" ELSE row[r]]
     \/ StoreFaults /\ UNCHANGED row
  /\ UNCHANGED <<state, opts, scope, tried, done, failed, context, acked, swept, cancels>>

-----------------------------------------------------------------------------
Init ==
  /\ request = [c \in Clients |-> None]
  /\ row = [r \in Runs |-> "none"]
  /\ state = [n \in Names |-> "not_deployed"]
  /\ full = None /\ component = [n \in Names |-> None]
  /\ opts = [r \in Runs |-> None]
  /\ pc = [r \in Runs |-> "unused"]
  /\ scope = [r \in Runs |-> {}] /\ tried = [r \in Runs |-> {}]
  /\ done = [r \in Runs |-> {}] /\ current = [r \in Runs |-> None]
  /\ failed = {} /\ canceled = {} /\ shielded = {}
  /\ pruning = FALSE
  /\ acked = {} /\ swept = {} /\ crashes = 0 /\ cancels = 0

\* The goroutine of run r (the client's, up to Acquire).
Step(r) ==
  \/ Acquire(r) \/ Refuse(r)
  \/ PrepareFails(r) \/ Prepare(r) \/ DryRun(r) \/ SkipUndeployed(r)
  \/ LoopStopped(r) \/ LoopEnded(r)
  \/ Dispatch(r) \/ DispatchSucceeds(r) \/ DispatchFails(r)
  \/ Undo(r) \/ ClearStates(r)
  \/ Finish(r) \/ SaveVerdict(r) \/ Record(r) \/ Release(r)

Next ==
  \/ \E c \in Clients : CreateRun(c) \/ \E r \in Runs : Submit(c, r)
  \/ \E r \in Runs : Step(r) \/ Cancel(r) \/ Deadline(r)
  \/ Prune
  \/ Restart

Spec == Init /\ [][Next]_vars

\* Every goroutine is scheduled, and a dispatch ends: its commands run under the
\* context, which the deadline closes at the latest.
FairSpec == Spec /\ \A r \in Runs : WF_vars(Step(r))

-----------------------------------------------------------------------------
(* Properties *)

RealDeploy(r) == opts[r].mode = "deploy" /\ opts[r].scope = "component" /\ ~opts[r].dry

\* The rules of manager.go: a run of everything runs alone, and no two runs have
\* the same target.
Exclusive ==
  \A q, r \in Runs : q # r /\ Live(q) /\ Live(r) =>
    ~Whole(q) /\ ~Whole(r) /\ opts[q].name # opts[r].name

\* A lock is held by a run that executes, and every run that executes holds the
\* lock of its target: none leaks on a failure, a cancellation or a crash.
LocksOwned ==
  \A r \in Runs :
    /\ full = r <=> Live(r) /\ Whole(r)
    /\ \A n \in Names : component[n] = r <=> Live(r) /\ ~Whole(r) /\ opts[r].name = n

\* The state of a component changes only while some run holds its lock.
StateUnderLock ==
  [][\A n \in Names : state'[n] # state[n] => full # None \/ component[n] # None]_vars

\* A verdict is written once: no retry, recovery or late save changes it; pruning
\* may delete the row.
VerdictOnce ==
  [][\A r \in Runs : row[r] \in Finished => row'[r] \in {row[r], "none"}]_vars

\* With a store that answers, a row that still says running has its handler or
\* goroutine, or belongs to a run whose context ended.
OnlyLateCancelsStrand ==
  \A r \in Runs : row[r] = "running" => Live(r) \/ pc[r] = "created" \/ r \in canceled

\* When a cleanup of everything ends well, no enabled component and no virtual one
\* with an enabled component is left deployed or failed.
CleanupComplete ==
  \A r \in Runs :
    /\ pc[r] \in {"saving", "recording", "releasing"} /\ ~opts[r].dry
    /\ Whole(r) /\ opts[r].mode = "rollback" /\ r \notin failed \cup canceled
    => \A n \in Names :
         (IF n \in Virtuals THEN Members[n] \cap Enabled # {} ELSE n \in Enabled)
         => ~DirtyState(n)

\* When a deployment lets go of its component, the component's state tells what
\* the row tells.
BadgeMatchesVerdict ==
  \A r \in Runs :
    pc[r] = "releasing" /\ RealDeploy(r) /\ r \notin canceled /\ row[r] # "none" =>
      state[opts[r].name] = IF row[r] = "success" THEN "deployed" ELSE "failed"

\* Every accepted run ends and frees its lock.
RunsEnd == \A r \in Runs : Live(r) ~> pc[r] = "over"

-----------------------------------------------------------------------------
(* What documents and comments say; the code does otherwise *)

\* A run whose cancellation was confirmed never ends as a success (design.md).
CancelNeverSucceeds == \A r \in acked : row[r] # "success"

\* No run is left dangling: a row says running only while its run is alive
\* (maintenance.go).
NoDanglingRun == \A r \in Runs : row[r] = "running" => Live(r) \/ pc[r] = "created"

\* A deployment is never accepted for a component that is deployed or failed
\* (handler.go, design.md).
CleanBeforeRedeploy ==
  [][\A r \in Runs : pc[r] = "created" /\ pc'[r] = "preparing" => ~Blocked(opts[r])]_vars

\* A cleanup does not roll back again what an earlier cleanup rolled back
\* (executor.go).
NoDoubleRollback ==
  [][\A r \in Runs : pc[r] = "working" /\ pc'[r] = "dispatching"
                     /\ Whole(r) /\ opts[r].mode = "rollback" => current'[r] \notin swept]_vars

\* Two runs never work on one pipeline component at a time (manager.go).
ComponentsNotShared ==
  \A q, r \in Runs : q # r /\ current[q] # None => current[q] # current[r]

\* A deployment that failed after it changed hosts leaves its component failed,
\* also when the process died (executor.go).
FailedDeployMarked ==
  \A r \in Runs :
    /\ row[r] = "FAILED" /\ RealDeploy(r) /\ tried[r] # {}
    /\ \A q \in Runs : q > r => pc[q] = "unused"
    => DirtyState(opts[r].name)

-----------------------------------------------------------------------------
(* The abstract lock table *)

Locks == INSTANCE RunLocks WITH
           held <- [r \in Runs |-> IF Live(r) THEN opts[r].name ELSE "none"]
ImplementsRunLocks == Locks!Spec
=============================================================================
