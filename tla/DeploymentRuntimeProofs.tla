----------------------- MODULE DeploymentRuntimeProofs -----------------------
(***************************************************************************)
(* Proofs about DeploymentRuntime, for every number of runs and clients,   *)
(* every registry of components and every order, with and without failing  *)
(* store calls, cancellations and crashes.                                 *)
(***************************************************************************)
EXTENDS DeploymentRuntime, TLAPS

-----------------------------------------------------------------------------
(* Types *)

\* Options come from the clients' requests, and a component is under way while its
\* dispatch is.
Accepted ==
  /\ \A c \in Clients : request[c] \in Requests \cup {None}
  /\ \A r \in Runs : pc[r] # "unused" => opts[r] \in Requests
  /\ \A r \in Runs : pc[r] = "dispatching" => current[r] # None

LEMMA TypeInit == Init => TypeOK /\ Accepted
<1> SUFFICES ASSUME Init PROVE TypeOK /\ Accepted
  OBVIOUS
<1>1. /\ request \in [Clients -> Options \cup {None}]
      /\ row \in [Runs -> RowStatus]
      /\ state \in [Names -> {"not_deployed", "deployed", "failed"}]
  BY DEF Init, RowStatus
<1>2. /\ full \in Runs \cup {None}
      /\ component \in [Names -> Runs \cup {None}]
      /\ opts \in [Runs -> Options \cup {None}]
      /\ pc \in [Runs -> Executing \cup {"unused", "created", "over"}]
  BY DEF Init
<1>3. /\ scope \in [Runs -> SUBSET Components]
      /\ tried \in [Runs -> SUBSET Components] /\ done \in [Runs -> SUBSET Components]
      /\ current \in [Runs -> Components \cup {None}]
  BY DEF Init
<1>4. /\ failed \in SUBSET Runs /\ canceled \in SUBSET Runs /\ shielded \in SUBSET Runs
      /\ acked \in SUBSET Runs /\ swept \in SUBSET Components
      /\ pruning \in BOOLEAN /\ crashes \in Nat /\ cancels \in Nat
  BY DEF Init
<1>5. Accepted
  BY DEF Init, Accepted
<1> QED
  BY <1>1, <1>2, <1>3, <1>4, <1>5 DEF TypeOK

LEMMA TypeNext == TypeOK /\ Accepted /\ [Next]_vars => TypeOK'
<1> SUFFICES ASSUME TypeOK, Accepted, [Next]_vars PROVE TypeOK'
  OBVIOUS
<1> USE DEF TypeOK, table, locks, work, context, history, Goto
<1>1. ASSUME NEW c \in Clients, CreateRun(c) PROVE TypeOK'
  BY <1>1, RuntimeAssumption DEF CreateRun
<1>2. ASSUME NEW c \in Clients, NEW r \in Runs, Submit(c, r) PROVE TypeOK'
  BY <1>2 DEF Submit, RowStatus
<1>3. ASSUME NEW r \in Runs, Step(r) PROVE TypeOK'
  <2>1. CASE Acquire(r)
    BY <2>1 DEF Acquire, Executing
  <2>2. CASE Refuse(r)
    BY <2>2 DEF Refuse, RowStatus
  <2>3. CASE PrepareFails(r)
    BY <2>3 DEF PrepareFails, FinishAs, Executing
  <2>4. CASE Prepare(r)
    <3>1. Scope(opts[r]) \subseteq Components
      <4>1. opts[r] \in Requests
        BY <2>4 DEF Prepare, Accepted
      <4>2. /\ opts[r].scope = "component" => opts[r].name \in Components \cup Virtuals
            /\ opts[r].scope \in {"all", "component"}
        BY <4>1, RuntimeAssumption DEF Options, Names
      <4> QED
        BY <4>2, RuntimeAssumption DEF Scope
    <3> QED
      BY <2>4, <3>1 DEF Prepare, RowStatus, Executing
  <2>5. CASE DryRun(r)
    BY <2>5 DEF DryRun, FinishAs, Executing
  <2>6. CASE SkipUndeployed(r)
    BY <2>6 DEF SkipUndeployed, FinishAs, Executing
  <2>7. CASE LoopStopped(r)
    BY <2>7 DEF LoopStopped, AfterLoop, Executing
  <2>8. CASE LoopEnded(r)
    BY <2>8 DEF LoopEnded, AfterLoop, Executing
  <2>9. CASE Dispatch(r)
    BY <2>9 DEF Dispatch, Executing
  <2>10. CASE DispatchSucceeds(r)
    <3>1. current[r] \in Components
      BY <2>10 DEF DispatchSucceeds, Accepted
    <3> QED
      BY <2>10, <3>1 DEF DispatchSucceeds, Executing
  <2>11. CASE DispatchFails(r)
    <3>1. current[r] \in Components
      BY <2>11 DEF DispatchFails, Accepted
    <3> QED
      BY <2>11, <3>1 DEF DispatchFails, AfterLoop, Executing
  <2>12. CASE Undo(r)
    BY <2>12 DEF Undo, Executing
  <2>13. CASE ClearStates(r)
    BY <2>13 DEF ClearStates, Executing
  <2>14. CASE Finish(r)
    BY <2>14 DEF Finish, Executing
  <2>15. CASE SaveVerdict(r)
    BY <2>15 DEF SaveVerdict, RowStatus, Executing
  <2>16. CASE Record(r)
    BY <2>16 DEF Record, NewState, Executing
  <2>17. CASE Release(r)
    BY <2>17 DEF Release
  <2> QED
    BY <1>3, <2>1, <2>2, <2>3, <2>4, <2>5, <2>6, <2>7, <2>8, <2>9, <2>10, <2>11,
       <2>12, <2>13, <2>14, <2>15, <2>16, <2>17 DEF Step
<1>4. ASSUME NEW r \in Runs, Cancel(r) PROVE TypeOK'
  BY <1>4 DEF Cancel
<1>5. ASSUME NEW r \in Runs, Deadline(r) PROVE TypeOK'
  BY <1>5 DEF Deadline
<1>6. CASE Prune
  BY <1>6 DEF Prune, RowStatus
<1>7. CASE Restart
  <2>1. row' \in [Runs -> RowStatus]
    BY <1>7 DEF Restart, RowStatus
  <2>2. request' \in [Clients -> Options \cup {None}] /\ full' \in Runs \cup {None}
        /\ component' \in [Names -> Runs \cup {None}]
    BY <1>7 DEF Restart
  <2>3. pc' \in [Runs -> Executing \cup {"unused", "created", "over"}]
        /\ current' \in [Runs -> Components \cup {None}]
    BY <1>7 DEF Restart
  <2>4. pruning' = FALSE /\ crashes' = crashes + 1
    BY <1>7 DEF Restart
  <2>6. pruning' \in BOOLEAN
    BY <2>4, Zenon
  <2>7. crashes' \in Nat
    BY <2>4
  <2>5. /\ UNCHANGED <<state, opts, scope, tried, done, failed, canceled, shielded>>
        /\ UNCHANGED <<acked, swept, cancels>>
    BY <1>7 DEF Restart
  <2> QED
    BY <2>1, <2>2, <2>3, <2>5, <2>6, <2>7
<1>8. CASE UNCHANGED vars
  BY <1>8 DEF vars
<1> QED
  BY <1>1, <1>2, <1>3, <1>4, <1>5, <1>6, <1>7, <1>8 DEF Next

-----------------------------------------------------------------------------
(* The invariant *)

\* A run of everything is the only holder of a lock.
FullAlone == full # None => \A n \in Names : component[n] = None

\* Only runs of everything filter and clear states; a row has no verdict before
\* its run's save.
Phases ==
  \A r \in Runs :
    /\ pc[r] \in {"filtering", "clearing"} => Whole(r)
    /\ pc[r] = "unused" => row[r] = "none"
    /\ pc[r] \notin {"unused", "recording", "releasing", "over"} => row[r] \in {"none", "running"}

RunInv == TypeOK /\ Accepted /\ LocksOwned /\ FullAlone /\ Phases

LEMMA RunInit == Init => RunInv
<1> SUFFICES ASSUME Init PROVE RunInv
  OBVIOUS
<1>1. TypeOK /\ Accepted
  BY TypeInit
<1>2. LocksOwned /\ FullAlone
  BY RuntimeAssumption DEF Init, LocksOwned, FullAlone, Live, Executing, Runs
<1>3. Phases
  BY DEF Init, Phases
<1> QED
  BY <1>1, <1>2, <1>3 DEF RunInv

\* What every step of run r's goroutine inside runOne does to the locks: nothing,
\* before Release.
Inside(r) ==
  /\ UNCHANGED <<request, full, component, opts>>
  /\ pc[r] \in Executing
  /\ \E label \in Executing : pc' = [pc EXCEPT ![r] = label]

LEMMA InsideLocks ==
  ASSUME RunInv, NEW r \in Runs, Inside(r)
  PROVE  LocksOwned' /\ FullAlone'
<1>1. \A q \in Runs : Live(q)' <=> Live(q)
  BY DEF Inside, RunInv, TypeOK, Live
<1>2. \A q \in Runs : Whole(q)' <=> Whole(q)
  BY DEF Inside, Whole
<1>3. LocksOwned'
  BY <1>1, <1>2 DEF Inside, RunInv, LocksOwned
<1> QED
  BY <1>3 DEF Inside, RunInv, FullAlone

\* The steps that neither take nor free a lock.
Quiet(r) ==
  \/ PrepareFails(r) \/ Prepare(r) \/ DryRun(r) \/ SkipUndeployed(r)
  \/ LoopStopped(r) \/ LoopEnded(r)
  \/ Dispatch(r) \/ DispatchSucceeds(r) \/ DispatchFails(r)
  \/ Undo(r) \/ ClearStates(r)
  \/ Finish(r) \/ SaveVerdict(r) \/ Record(r)

LEMMA QuietStep ==
  ASSUME RunInv, NEW r \in Runs, Quiet(r)
  PROVE  Inside(r) /\ Accepted' /\ Phases'
<1> USE DEF table, locks, work, context, history, Goto
<1>0. TypeOK /\ Accepted /\ Phases
  BY DEF RunInv
<1>1. CASE PrepareFails(r)
  <2>1. Inside(r)
    BY <1>1 DEF PrepareFails, FinishAs, Inside, Executing
  <2>2. Accepted'
    BY <1>0, <1>1 DEF PrepareFails, FinishAs, Accepted, TypeOK
  <2>3. Phases'
    BY <1>0, <1>1 DEF PrepareFails, FinishAs, Phases, TypeOK, Whole
  <2> QED
    BY <2>1, <2>2, <2>3
<1>2. CASE Prepare(r)
  <2>1. Inside(r)
    BY <1>2 DEF Prepare, Inside, Executing
  <2>2. Accepted'
    BY <1>0, <1>2 DEF Prepare, Accepted, TypeOK
  <2>3. Phases'
    BY <1>0, <1>2 DEF Prepare, Phases, TypeOK, Whole
  <2> QED
    BY <2>1, <2>2, <2>3
<1>3. CASE DryRun(r)
  <2>1. Inside(r)
    BY <1>3 DEF DryRun, FinishAs, Inside, Executing
  <2>2. Accepted'
    BY <1>0, <1>3 DEF DryRun, FinishAs, Accepted, TypeOK
  <2>3. Phases'
    BY <1>0, <1>3 DEF DryRun, FinishAs, Phases, TypeOK, Whole
  <2> QED
    BY <2>1, <2>2, <2>3
<1>4. CASE SkipUndeployed(r)
  <2>1. Inside(r)
    BY <1>4 DEF SkipUndeployed, FinishAs, Inside, Executing
  <2>2. Accepted'
    BY <1>0, <1>4 DEF SkipUndeployed, FinishAs, Accepted, TypeOK
  <2>3. Phases'
    BY <1>0, <1>4 DEF SkipUndeployed, FinishAs, Phases, TypeOK, Whole
  <2> QED
    BY <2>1, <2>2, <2>3
<1>5. CASE LoopStopped(r)
  <2>1. Inside(r)
    BY <1>5 DEF LoopStopped, AfterLoop, Inside, Executing
  <2>2. Accepted'
    BY <1>0, <1>5 DEF LoopStopped, AfterLoop, Accepted, TypeOK
  <2>3. Phases'
    BY <1>0, <1>5 DEF LoopStopped, AfterLoop, Phases, TypeOK, Whole
  <2> QED
    BY <2>1, <2>2, <2>3
<1>6. CASE LoopEnded(r)
  <2>1. Inside(r)
    BY <1>6 DEF LoopEnded, AfterLoop, Inside, Executing
  <2>2. Accepted'
    BY <1>0, <1>6 DEF LoopEnded, AfterLoop, Accepted, TypeOK
  <2>3. Phases'
    BY <1>0, <1>6 DEF LoopEnded, AfterLoop, Phases, TypeOK, Whole
  <2> QED
    BY <2>1, <2>2, <2>3
<1>7. CASE Dispatch(r)
  <2>1. Inside(r)
    BY <1>7 DEF Dispatch, Inside, Executing
  <2>2. Accepted'
    BY <1>0, <1>7, RuntimeAssumption DEF Dispatch, Accepted, TypeOK, IsUpcoming
  <2>3. Phases'
    BY <1>0, <1>7 DEF Dispatch, Phases, TypeOK, Whole
  <2> QED
    BY <2>1, <2>2, <2>3
<1>8. CASE DispatchSucceeds(r)
  <2>1. Inside(r)
    BY <1>8 DEF DispatchSucceeds, Inside, Executing
  <2>2. Accepted'
    BY <1>0, <1>8 DEF DispatchSucceeds, Accepted, TypeOK
  <2>3. Phases'
    BY <1>0, <1>8 DEF DispatchSucceeds, Phases, TypeOK, Whole
  <2> QED
    BY <2>1, <2>2, <2>3
<1>9. CASE DispatchFails(r)
  <2>1. Inside(r)
    BY <1>9 DEF DispatchFails, AfterLoop, Inside, Executing
  <2>2. Accepted'
    BY <1>0, <1>9 DEF DispatchFails, AfterLoop, Accepted, TypeOK
  <2>3. Phases'
    BY <1>0, <1>9 DEF DispatchFails, AfterLoop, Phases, TypeOK, Whole
  <2> QED
    BY <2>1, <2>2, <2>3
<1>10. CASE Undo(r)
  <2>1. Inside(r)
    BY <1>10 DEF Undo, Inside, Executing
  <2>2. Accepted'
    BY <1>0, <1>10 DEF Undo, Accepted, TypeOK
  <2>3. Phases'
    BY <1>0, <1>10 DEF Undo, Phases, TypeOK, Whole
  <2> QED
    BY <2>1, <2>2, <2>3
<1>11. CASE ClearStates(r)
  <2>1. Inside(r)
    BY <1>11 DEF ClearStates, Inside, Executing
  <2>2. Accepted'
    BY <1>0, <1>11 DEF ClearStates, Accepted, TypeOK
  <2>3. Phases'
    BY <1>0, <1>11 DEF ClearStates, Phases, TypeOK, Whole
  <2> QED
    BY <2>1, <2>2, <2>3
<1>12. CASE Finish(r)
  <2>1. Inside(r)
    BY <1>12 DEF Finish, Inside, Executing
  <2>2. Accepted'
    BY <1>0, <1>12 DEF Finish, Accepted, TypeOK
  <2>3. Phases'
    BY <1>0, <1>12 DEF Finish, Phases, TypeOK, Whole
  <2> QED
    BY <2>1, <2>2, <2>3
<1>13. CASE SaveVerdict(r)
  <2>1. Inside(r)
    BY <1>13 DEF SaveVerdict, Inside, Executing
  <2>2. Accepted'
    BY <1>0, <1>13 DEF SaveVerdict, Accepted, TypeOK
  <2>3. Phases'
    BY <1>0, <1>13 DEF SaveVerdict, Phases, TypeOK, Whole
  <2> QED
    BY <2>1, <2>2, <2>3
<1>14. CASE Record(r)
  <2>1. Inside(r)
    BY <1>14 DEF Record, Inside, Executing
  <2>2. Accepted'
    BY <1>0, <1>14 DEF Record, Accepted, TypeOK
  <2>3. Phases'
    BY <1>0, <1>14 DEF Record, Phases, TypeOK, Whole
  <2> QED
    BY <2>1, <2>2, <2>3
<1> QED
  BY <1>1, <1>2, <1>3, <1>4, <1>5, <1>6, <1>7, <1>8, <1>9, <1>10, <1>11, <1>12,
     <1>13, <1>14 DEF Quiet

\* Taking and freeing a lock.
LEMMA AcquireStep ==
  ASSUME RunInv, NEW r \in Runs, Acquire(r)
  PROVE  Accepted' /\ LocksOwned' /\ FullAlone' /\ Phases'
<1> USE DEF table, locks, work, context, history, Goto
<1>0. TypeOK /\ Accepted /\ LocksOwned /\ FullAlone /\ Phases
  BY DEF RunInv
<1>1. /\ opts[r] \in Requests /\ ~Live(r) /\ Live(r)'
      /\ \A q \in Runs \ {r} : Live(q)' <=> Live(q)
      /\ \A q \in Runs : Whole(q)' <=> Whole(q)
  BY <1>0 DEF Acquire, Accepted, TypeOK, Live, Executing, Whole
<1>2. full = None /\ \A q \in Runs : q # None
  BY <1>0, RuntimeAssumption DEF Acquire, Conflicts, Runs
<1>3. CASE Whole(r)
  <2>1. \A n \in Names : component[n] = None
    BY <1>3 DEF Acquire, Conflicts, Whole
  <2>2. full' = r /\ component' = component /\ opts' = opts
    BY <1>3 DEF Acquire
  <2>3. LocksOwned'
    BY <1>0, <1>1, <1>2, <1>3, <2>1, <2>2 DEF LocksOwned
  <2>4. FullAlone'
    BY <2>1, <2>2 DEF FullAlone
  <2> QED
    BY <1>0, <2>3, <2>4 DEF Acquire, Accepted, Phases, TypeOK, Whole
<1>4. CASE ~Whole(r)
  <2>1. opts[r].name \in Names /\ component[opts[r].name] = None
    BY <1>1, <1>4, RuntimeAssumption DEF Acquire, Conflicts, Whole, Options
  <2>2. full' = full /\ component' = [component EXCEPT ![opts[r].name] = r] /\ opts' = opts
    BY <1>4 DEF Acquire
  <2>3. LocksOwned'
    <3> SUFFICES ASSUME NEW q \in Runs
                 PROVE  /\ full' = q <=> Live(q)' /\ Whole(q)'
                        /\ \A n \in Names : component'[n] = q
                             <=> Live(q)' /\ ~Whole(q)' /\ opts'[q].name = n
      BY DEF LocksOwned
    <3>1. CASE q = r
      BY <1>0, <1>1, <1>2, <1>4, <2>1, <2>2, <3>1 DEF LocksOwned, TypeOK
    <3>2. CASE q # r
      BY <1>0, <1>1, <1>2, <2>1, <2>2, <3>2 DEF LocksOwned, TypeOK
    <3> QED
      BY <3>1, <3>2
  <2>4. FullAlone'
    BY <1>2, <2>2 DEF FullAlone
  <2> QED
    BY <1>0, <2>3, <2>4 DEF Acquire, Accepted, Phases, TypeOK, Whole
<1> QED
  BY <1>3, <1>4

LEMMA ReleaseStep ==
  ASSUME RunInv, NEW r \in Runs, Release(r)
  PROVE  Accepted' /\ LocksOwned' /\ FullAlone' /\ Phases'
<1> USE DEF table, locks, work, context, history, Goto
<1>0. TypeOK /\ Accepted /\ LocksOwned /\ FullAlone /\ Phases
  BY DEF RunInv
<1>1. /\ Live(r) /\ ~Live(r)'
      /\ \A q \in Runs \ {r} : Live(q)' <=> Live(q)
      /\ \A q \in Runs : Whole(q)' <=> Whole(q)
  BY <1>0 DEF Release, TypeOK, Live, Executing, Whole
<1>2. /\ opts' = opts
      /\ full' = IF full = r THEN None ELSE full
      /\ \A n \in Names : component'[n] = IF component[n] = r THEN None ELSE component[n]
  BY <1>0 DEF Release, LocksOwned
<1>3. \A q \in Runs : q # None
  BY RuntimeAssumption DEF Runs
<1>4. LocksOwned'
  BY <1>0, <1>1, <1>2, <1>3 DEF LocksOwned
<1>5. FullAlone'
  BY <1>0, <1>2 DEF FullAlone
<1> QED
  BY <1>0, <1>4, <1>5 DEF Release, Accepted, Phases, TypeOK, Whole

\* Steps before a run has a lock, and those of the other actors.
LEMMA OtherStep ==
  ASSUME RunInv,
         \/ \E c \in Clients : CreateRun(c) \/ \E r \in Runs : Submit(c, r)
         \/ \E r \in Runs : Refuse(r) \/ Cancel(r) \/ Deadline(r)
         \/ Prune
         \/ Restart
         \/ UNCHANGED vars
  PROVE  Accepted' /\ LocksOwned' /\ FullAlone' /\ Phases'
<1> USE DEF table, locks, work, context, history, Goto
<1>0. TypeOK /\ Accepted /\ LocksOwned /\ FullAlone /\ Phases
  BY DEF RunInv
<1>1. ASSUME NEW c \in Clients, CreateRun(c)
      PROVE  Accepted' /\ LocksOwned' /\ FullAlone' /\ Phases'
  <2>1. UNCHANGED <<row, full, component, opts, pc, current>>
    BY <1>1 DEF CreateRun
  <2>2. Accepted'
    BY <1>0, <1>1, <2>1 DEF CreateRun, Accepted, TypeOK
  <2> QED
    BY <1>0, <2>1, <2>2 DEF LocksOwned, FullAlone, Phases, Live, Whole
<1>2. ASSUME NEW c \in Clients, NEW r \in Runs, Submit(c, r)
      PROVE  Accepted' /\ LocksOwned' /\ FullAlone' /\ Phases'
  <2>1. /\ full' = full /\ component' = component /\ current' = current
        /\ \A q \in Runs : Live(q)' <=> Live(q)
        /\ \A q \in Runs \ {r} : opts'[q] = opts[q]
        /\ ~Live(r)
    BY <1>0, <1>2 DEF Submit, TypeOK, Live, Executing
  <2>2. Accepted'
    BY <1>0, <1>2, <2>1 DEF Submit, Accepted, TypeOK
  <2>3. LocksOwned'
    BY <1>0, <2>1 DEF LocksOwned, Whole
  <2>4. FullAlone' /\ Phases'
    BY <1>0, <1>2, <2>1 DEF Submit, FullAlone, Phases, TypeOK, Whole
  <2> QED
    BY <2>2, <2>3, <2>4
<1>3. ASSUME NEW r \in Runs, Refuse(r)
      PROVE  Accepted' /\ LocksOwned' /\ FullAlone' /\ Phases'
  <2>1. /\ full' = full /\ component' = component /\ opts' = opts
        /\ \A q \in Runs : Live(q)' <=> Live(q)
    BY <1>0, <1>3 DEF Refuse, TypeOK, Live, Executing
  <2>2. LocksOwned' /\ FullAlone'
    BY <1>0, <2>1 DEF LocksOwned, FullAlone, Whole
  <2> QED
    BY <1>0, <1>3, <2>2 DEF Refuse, Accepted, Phases, TypeOK, Whole
<1>4. ASSUME NEW r \in Runs, Cancel(r) \/ Deadline(r)
      PROVE  Accepted' /\ LocksOwned' /\ FullAlone' /\ Phases'
  <2>1. UNCHANGED <<request, row, full, component, opts, pc, current>>
    BY <1>4 DEF Cancel, Deadline
  <2> QED
    BY <1>0, <2>1 DEF Accepted, LocksOwned, FullAlone, Phases, Live, Whole
<1>5. CASE Prune
  <2>1. UNCHANGED <<request, full, component, opts, pc, current>>
    BY <1>5 DEF Prune
  <2>2. \A r \in Runs : row'[r] \in {"none", row[r]}
    BY <1>5 DEF Prune
  <2> QED
    BY <1>0, <2>1, <2>2 DEF Accepted, LocksOwned, FullAlone, Phases, Live, Whole
<1>6. CASE Restart
  <2>1. /\ \A r \in Runs : ~Live(r)' /\ pc'[r] = (IF pc[r] = "unused" THEN "unused" ELSE "over")
        /\ full' = None /\ \A n \in Names : component'[n] = None
        /\ \A c \in Clients : request'[c] = None
        /\ opts' = opts
        /\ \A r \in Runs : row[r] = "none" => row'[r] = "none"
    BY <1>6 DEF Restart, Live, Executing
  <2>2. \A r \in Runs : r # None
    BY RuntimeAssumption DEF Runs
  <2>3. LocksOwned' /\ FullAlone'
    BY <2>1, <2>2 DEF LocksOwned, FullAlone
  <2> QED
    BY <1>0, <2>1, <2>3 DEF Accepted, Phases, Whole
<1>7. CASE UNCHANGED vars
  BY <1>0, <1>7 DEF vars, Accepted, LocksOwned, FullAlone, Phases, Live, Whole
<1> QED
  BY <1>1, <1>2, <1>3, <1>4, <1>5, <1>6, <1>7

LEMMA RunNext == RunInv /\ [Next]_vars => RunInv'
<1> SUFFICES ASSUME RunInv, [Next]_vars PROVE RunInv'
  OBVIOUS
<1>1. TypeOK'
  BY TypeNext DEF RunInv
<1>2. ASSUME NEW r \in Runs, Quiet(r) PROVE RunInv'
  BY <1>1, <1>2, QuietStep, InsideLocks DEF RunInv
<1>3. ASSUME NEW r \in Runs, Acquire(r) PROVE RunInv'
  BY <1>1, <1>3, AcquireStep DEF RunInv
<1>4. ASSUME NEW r \in Runs, Release(r) PROVE RunInv'
  BY <1>1, <1>4, ReleaseStep DEF RunInv
<1>5. ASSUME \/ \E c \in Clients : CreateRun(c) \/ \E r \in Runs : Submit(c, r)
             \/ \E r \in Runs : Refuse(r) \/ Cancel(r) \/ Deadline(r)
             \/ Prune
             \/ Restart
             \/ UNCHANGED vars
      PROVE  RunInv'
  BY <1>1, <1>5, OtherStep DEF RunInv
<1> QED
  BY <1>2, <1>3, <1>4, <1>5 DEF Next, Step, Quiet

LEMMA RunInvariant == Spec => []RunInv
  BY RunInit, RunNext, PTL DEF Spec

-----------------------------------------------------------------------------
(* Theorems *)

\* Types are kept.
THEOREM RunTypesCorrect == Spec => []TypeOK
<1>1. RunInv => TypeOK
  BY DEF RunInv
<1> QED
  BY <1>1, RunInvariant, PTL

\* Locks are held by the runs that execute, whatever fails: no failed, cancelled or
\* crashed run keeps one and no run works without one.
THEOREM LocksNeverLeak == Spec => []LocksOwned
<1>1. RunInv => LocksOwned
  BY DEF RunInv
<1> QED
  BY <1>1, RunInvariant, PTL

\* The concurrency rules of manager.go: a run of everything is alone, and no two
\* runs have one target.
THEOREM RunsAreExclusive == Spec => []Exclusive
<1>1. RunInv => Exclusive
  <2> SUFFICES ASSUME RunInv, NEW q \in Runs, NEW r \in Runs, q # r, Live(q), Live(r)
               PROVE  ~Whole(q) /\ ~Whole(r) /\ opts[q].name # opts[r].name
    BY DEF Exclusive
  <2>1. LocksOwned /\ FullAlone
    BY DEF RunInv
  <2>2. opts[q] \in Requests /\ opts[r] \in Requests
    BY DEF RunInv, Accepted, Live, Executing
  <2>3. ~Whole(q) => opts[q].name \in Names
    BY <2>2, RuntimeAssumption DEF Whole, Options
  <2>4. ~Whole(r) => opts[r].name \in Names
    BY <2>2, RuntimeAssumption DEF Whole, Options
  <2>5. q # None /\ r # None
    BY RuntimeAssumption DEF Runs
  <2>6. ~Whole(q)
    BY <2>1, <2>4, <2>5 DEF LocksOwned, FullAlone
  <2>7. ~Whole(r)
    BY <2>1, <2>3, <2>5 DEF LocksOwned, FullAlone
  <2> QED
    BY <2>1, <2>3, <2>6, <2>7 DEF LocksOwned
<1> QED
  BY <1>1, RunInvariant, PTL

\* A component's state changes only under its lock or the lock of everything.
THEOREM StatesUnderLock == Spec => StateUnderLock
<1>1. ASSUME RunInv, [Next]_vars
      PROVE  [\A n \in Names : state'[n] # state[n] => full # None \/ component[n] # None]_vars
  <2> SUFFICES ASSUME NEW n \in Names, state'[n] # state[n]
               PROVE  full # None \/ component[n] # None
    OBVIOUS
  <2>1. TypeOK /\ LocksOwned /\ Phases
    BY <1>1 DEF RunInv
  <2>2. \A r \in Runs : r # None
    BY RuntimeAssumption DEF Runs
  <2>3. PICK r \in Runs : ClearStates(r) \/ Record(r)
    BY <1>1 DEF Next, Step, CreateRun, Submit, Acquire, Refuse, PrepareFails, Prepare,
                DryRun, SkipUndeployed, LoopStopped, LoopEnded, Dispatch, DispatchSucceeds,
                DispatchFails, Undo, Finish, SaveVerdict, Release, Cancel, Deadline, Prune,
                Restart, vars, table
  <2>4. CASE ClearStates(r)
    <3>1. Live(r) /\ Whole(r)
      BY <2>1, <2>4 DEF ClearStates, Phases, Live, Executing
    <3> QED
      BY <2>1, <2>2, <3>1 DEF LocksOwned
  <2>5. CASE Record(r)
    <3>1. Live(r) /\ ~Whole(r) /\ n = opts[r].name
      BY <2>1, <2>5 DEF Record, Live, Executing, TypeOK
    <3> QED
      BY <2>1, <2>2, <3>1 DEF LocksOwned
  <2> QED
    BY <2>3, <2>4, <2>5
<1> QED
  BY <1>1, RunInvariant, PTL DEF Spec, StateUnderLock

\* A row's verdict is final: recovery, retries and late saves leave it, and only
\* pruning takes it away.
THEOREM VerdictsAreFinal == Spec => VerdictOnce
<1>1. ASSUME RunInv, [Next]_vars
      PROVE  [\A r \in Runs : row[r] \in Finished => row'[r] \in {row[r], "none"}]_vars
  <2> SUFFICES ASSUME NEW r \in Runs, row[r] \in Finished
               PROVE  row'[r] \in {row[r], "none"}
    OBVIOUS
  <2>1. TypeOK /\ Phases
    BY <1>1 DEF RunInv
  <2>2. pc[r] \in {"recording", "releasing", "over"}
    BY <2>1 DEF Phases, Finished, TypeOK
  <2>3. CASE UNCHANGED row
    BY <2>3
  <2>4. ASSUME NEW q \in Runs,
               \/ \E c \in Clients : Submit(c, q)
               \/ Refuse(q) \/ Prepare(q) \/ SaveVerdict(q)
        PROVE  row'[r] = row[r]
    <3>1. q # r
      BY <2>2, <2>4 DEF Submit, Refuse, Prepare, SaveVerdict
    <3> QED
      BY <2>1, <2>4, <3>1 DEF Submit, Refuse, Prepare, SaveVerdict, TypeOK
  <2>5. CASE Prune
    BY <2>5 DEF Prune
  <2>6. CASE Restart
    BY <2>6 DEF Restart, Finished
  <2> QED
    BY <1>1, <2>3, <2>4, <2>5, <2>6
       DEF Next, Step, CreateRun, Acquire, PrepareFails, DryRun, SkipUndeployed, LoopStopped,
           LoopEnded, Dispatch, DispatchSucceeds, DispatchFails, Undo, ClearStates, Finish,
           Record, Release, Cancel, Deadline, vars, table
<1> QED
  BY <1>1, RunInvariant, PTL DEF Spec, VerdictOnce

\* The manager with its handlers and executors implements the lock table its rules
\* describe.
THEOREM RuntimeImplementsRunLocks == Spec => ImplementsRunLocks
<1> DEFINE target == [r \in Runs |-> IF Live(r) THEN opts[r].name ELSE "none"]
<1>1. Init => Locks!Init
  BY DEF Init, Locks!Init, Live, Executing
<1>2. ASSUME RunInv, RunInv', [Next]_vars
      PROVE  [Locks!Next]_target
  <2>0. TypeOK /\ Accepted /\ LocksOwned /\ FullAlone
    BY <1>2 DEF RunInv
  <2>1. \A r \in Runs : Live(r) => /\ opts[r].name \in Names \cup {"all"}
                                   /\ opts[r].name # "none"
                                   /\ Whole(r) => opts[r].name = "all"
                                   /\ ~Whole(r) => opts[r].name \in Names
    BY <2>0, RuntimeAssumption DEF Accepted, Live, Executing, Options, Whole
  <2>2. \A r \in Runs : r # None
    BY RuntimeAssumption DEF Runs
  <2>3. ASSUME \A r \in Runs : Live(r)' = Live(r) /\ (Live(r) => opts'[r] = opts[r])
        PROVE  UNCHANGED target
    BY <2>3
  <2>4. ASSUME NEW r \in Runs, Quiet(r) PROVE UNCHANGED target
    <3>1. Inside(r)
      BY <1>2, <2>4, QuietStep
    <3> QED
      BY <2>0, <2>3, <3>1 DEF Inside, TypeOK, Live
  <2>5. ASSUME NEW r \in Runs, Acquire(r)
        PROVE  Locks!Claim(r, opts[r].name) /\ opts[r].name \in Names \cup {"all"}
    <3>1. /\ ~Live(r) /\ Live(r)' /\ opts' = opts
          /\ \A q \in Runs \ {r} : Live(q)' = Live(q)
      BY <2>0, <2>5 DEF Acquire, TypeOK, Live, Executing, table, locks, Goto
    <3>2. /\ opts[r].scope = "all" => opts[r].name = "all"
          /\ opts[r].scope # "all" => opts[r].name \in Names
      BY <2>0, <2>5, RuntimeAssumption DEF Acquire, Accepted, Options
    <3>3. ASSUME NEW q \in Runs, Live(q)
          PROVE  /\ ~Whole(q) /\ opts[r].scope # "all"
                 /\ opts[q].name \in Names /\ opts[q].name # opts[r].name
      <4>1. full = None
        BY <2>5 DEF Acquire, Conflicts
      <4>2. ~Whole(q)
        BY <2>0, <2>2, <3>3, <4>1 DEF LocksOwned
      <4>3. opts[q].name \in Names /\ component[opts[q].name] = q
        BY <2>0, <2>1, <3>3, <4>2 DEF LocksOwned
      <4> QED
        BY <2>2, <2>5, <4>2, <4>3 DEF Acquire, Conflicts
    <3>4. target[r] = "none"
      BY <3>1
    <3>5. \A q \in Runs : target[q] # "none" => Locks!Compatible(opts[r].name, target[q])
      BY <3>2, <3>3, RuntimeAssumption DEF Locks!Compatible
    <3>6. target' = [target EXCEPT ![r] = opts[r].name]
      BY <3>1
    <3> QED
      BY <3>2, <3>4, <3>5, <3>6 DEF Locks!Claim
  <2>6. ASSUME NEW r \in Runs, Release(r) PROVE Locks!Free(r)
    <3>1. /\ Live(r) /\ ~Live(r)' /\ opts' = opts
          /\ \A q \in Runs \ {r} : Live(q)' = Live(q)
      BY <2>0, <2>6 DEF Release, TypeOK, Live, Executing, table, Goto
    <3>2. target[r] # "none"
      BY <2>1, <3>1
    <3>3. target' = [target EXCEPT ![r] = "none"]
      BY <3>1
    <3> QED
      BY <3>2, <3>3 DEF Locks!Free
  <2>7. CASE Restart
    <3>1. \A r \in Runs : ~Live(r)'
      BY <2>7 DEF Restart, Live, Executing
    <3> QED
      BY <3>1 DEF Locks!Next, Locks!LoseAll
  <2>8. ASSUME NEW c \in Clients, NEW r \in Runs, Submit(c, r) PROVE UNCHANGED target
    BY <2>0, <2>3, <2>8 DEF Submit, TypeOK, Live, Executing, Goto
  <2>9. ASSUME NEW r \in Runs, Refuse(r) PROVE UNCHANGED target
    BY <2>0, <2>3, <2>9 DEF Refuse, TypeOK, Live, Executing, Goto
  <2>10. ASSUME \/ \E c \in Clients : CreateRun(c)
                \/ \E r \in Runs : Cancel(r) \/ Deadline(r)
                \/ Prune
                \/ UNCHANGED vars
         PROVE  UNCHANGED target
    <3>1. UNCHANGED <<opts, pc>>
      BY <2>10 DEF CreateRun, Cancel, Deadline, Prune, vars
    <3> QED
      BY <3>1 DEF Live
  <2>11. ASSUME NEW r \in Runs, Acquire(r) PROVE Locks!Next
    <3>1. Locks!Claim(r, opts[r].name) /\ opts[r].name \in Locks!Targets
      BY <2>5, <2>11 DEF Locks!Targets
    <3>2. \E t \in Locks!Targets : Locks!Claim(r, t)
      BY <3>1 DEF Locks!Claim
    <3> QED
      BY <3>2 DEF Locks!Next
  <2>12. ASSUME NEW r \in Runs, Release(r) PROVE Locks!Next
    BY <2>6, <2>12 DEF Locks!Next
  <2> QED
    BY <1>2, <2>4, <2>7, <2>8, <2>9, <2>10, <2>11, <2>12 DEF Next, Step, Quiet
<1> QED
  BY <1>1, <1>2, RunInvariant, PTL DEF Spec, ImplementsRunLocks, Locks!Spec

-----------------------------------------------------------------------------
(***************************************************************************)
(* What a deployment run leaves behind when the store answers: its row     *)
(* has a verdict, the state of its component agrees with it, and a cleanup *)
(* that ends well has cleared every state.                                 *)
(***************************************************************************)

(* One run among the others *)

\* What a step of anybody else leaves of run r, but for a crash: its program, its
\* result and, as it holds its lock, the states it is responsible for.
Untouched(r) ==
  /\ pc'[r] = pc[r] /\ opts'[r] = opts[r] /\ scope'[r] = scope[r]
  /\ tried'[r] = tried[r] /\ done'[r] = done[r] /\ current'[r] = current[r]
  /\ r \in failed' <=> r \in failed
  /\ r \in canceled => r \in canceled'
  /\ row'[r] \in {row[r], "none"}
  /\ Live(r) /\ Whole(r) => state' = state
  /\ Live(r) /\ ~Whole(r) => state'[opts[r].name] = state[opts[r].name]

\* The states of a run under way are written by no other run.
LEMMA StatesOfOthers ==
  ASSUME RunInv, NEW r \in Runs, NEW q \in Runs, q # r, Step(q), Live(r)
  PROVE  /\ Whole(r) => state' = state
         /\ ~Whole(r) => state'[opts[r].name] = state[opts[r].name]
<1>1. TypeOK /\ Phases /\ LocksOwned /\ FullAlone /\ Accepted
  BY DEF RunInv
<1>2. opts[r] \in Requests /\ (~Whole(r) => opts[r].name \in Names)
  <2>1. opts[r] \in Requests
    BY <1>1 DEF Accepted, Live, Executing
  <2> QED
    BY <2>1, RuntimeAssumption DEF Whole, Options
<1>3. CASE ClearStates(q)
  <2>1. Live(q) /\ Whole(q)
    BY <1>1, <1>3 DEF ClearStates, Phases, Live, Executing
  <2>2. full = q /\ r # None
    BY <1>1, <2>1, RuntimeAssumption DEF LocksOwned, Runs
  <2>3. full = r \/ \E n \in Names : component[n] = r
    BY <1>1, <1>2 DEF LocksOwned
  <2> QED
    BY <1>1, <2>2, <2>3, RuntimeAssumption DEF FullAlone, Runs
<1>4. CASE Record(q)
  <2>1. Live(q)
    BY <1>4 DEF Record, Live, Executing
  <2>2. opts[q] \in Requests /\ (~Whole(q) => opts[q].name \in Names)
    <3>1. opts[q] \in Requests
      BY <1>1, <2>1 DEF Accepted, Live, Executing
    <3> QED
      BY <3>1, RuntimeAssumption DEF Whole, Options
  <2>3. CASE Whole(q)
    BY <1>4, <2>3 DEF Record
  <2>4. CASE ~Whole(q)
    <3>1. component[opts[q].name] = q /\ q # None
      BY <1>1, <2>1, <2>2, <2>4, RuntimeAssumption DEF LocksOwned, Runs
    <3>2. ~Whole(r)
      BY <1>1, <2>2, <2>4, <3>1, RuntimeAssumption DEF LocksOwned, FullAlone, Runs
    <3>3. opts[r].name # opts[q].name
      BY <1>1, <1>2, <3>1, <3>2 DEF LocksOwned
    <3> QED
      BY <1>1, <1>2, <1>4, <3>2, <3>3 DEF Record, TypeOK
  <2> QED
    BY <2>3, <2>4
<1>5. CASE state' = state
  BY <1>5
<1> QED
  BY <1>3, <1>4, <1>5 DEF Step, Acquire, Refuse, PrepareFails, Prepare, DryRun,
     SkipUndeployed, LoopStopped, LoopEnded, Dispatch, DispatchSucceeds, DispatchFails,
     Undo, Finish, SaveVerdict, Release, table

LEMMA StepOfOthers ==
  ASSUME RunInv, NEW r \in Runs, NEW q \in Runs, q # r, Step(q)
  PROVE  Untouched(r)
<1> USE DEF table, locks, work, context, history, Goto
<1>1. TypeOK
  BY DEF RunInv
<1>2. /\ Live(r) /\ Whole(r) => state' = state
      /\ Live(r) /\ ~Whole(r) => state'[opts[r].name] = state[opts[r].name]
  BY StatesOfOthers
<1>3. opts' = opts /\ canceled' = canceled
  BY DEF Step, Acquire, Refuse, PrepareFails, Prepare, DryRun, SkipUndeployed, LoopStopped,
     LoopEnded, Dispatch, DispatchSucceeds, DispatchFails, Undo, ClearStates, Finish,
     SaveVerdict, Record, Release
<1>4. pc'[r] = pc[r]
  BY <1>1 DEF TypeOK, Step, Acquire, Refuse, PrepareFails, Prepare, DryRun, SkipUndeployed,
     LoopStopped, LoopEnded, Dispatch, DispatchSucceeds, DispatchFails, Undo, ClearStates,
     Finish, SaveVerdict, Record, Release, FinishAs, AfterLoop
<1>5. scope'[r] = scope[r] /\ current'[r] = current[r]
  BY <1>1 DEF TypeOK, Step, Acquire, Refuse, PrepareFails, Prepare, DryRun, SkipUndeployed,
     LoopStopped, LoopEnded, Dispatch, DispatchSucceeds, DispatchFails, Undo, ClearStates,
     Finish, SaveVerdict, Record, Release
<1>6. tried'[r] = tried[r] /\ done'[r] = done[r]
  BY <1>1 DEF TypeOK, Step, Acquire, Refuse, PrepareFails, Prepare, DryRun, SkipUndeployed,
     LoopStopped, LoopEnded, Dispatch, DispatchSucceeds, DispatchFails, Undo, ClearStates,
     Finish, SaveVerdict, Record, Release
<1>7. r \in failed' <=> r \in failed
  BY DEF Step, Acquire, Refuse, PrepareFails, Prepare, DryRun, SkipUndeployed,
     LoopStopped, LoopEnded, Dispatch, DispatchSucceeds, DispatchFails, Undo, ClearStates,
     Finish, SaveVerdict, Record, Release, FinishAs, AfterLoop
<1>8. row'[r] = row[r]
  BY <1>1 DEF TypeOK, Step, Acquire, Refuse, PrepareFails, Prepare, DryRun, SkipUndeployed,
     LoopStopped, LoopEnded, Dispatch, DispatchSucceeds, DispatchFails, Undo, ClearStates,
     Finish, SaveVerdict, Record, Release
<1> QED
  BY <1>2, <1>3, <1>4, <1>5, <1>6, <1>7, <1>8 DEF Untouched

LEMMA OthersLeave ==
  ASSUME RunInv, [Next]_vars, NEW r \in Runs, pc[r] # "unused", ~Step(r), ~Restart
  PROVE  Untouched(r)
<1> USE DEF table, locks, work, context, history
<1>1. CASE \E q \in Runs : Step(q)
  BY <1>1, StepOfOthers
<1>2. CASE \E c \in Clients : CreateRun(c)
  BY <1>2 DEF CreateRun, Untouched
<1>3. CASE \E c \in Clients, q \in Runs : Submit(c, q)
  <2>1. PICK c \in Clients, q \in Runs : Submit(c, q)
    BY <1>3
  <2>2. q # r
    BY <2>1 DEF Submit
  <2> QED
    BY <2>1, <2>2 DEF Submit, Untouched, RunInv, TypeOK, Goto
<1>4. CASE \E q \in Runs : Cancel(q) \/ Deadline(q)
  BY <1>4 DEF Cancel, Deadline, Untouched
<1>5. CASE Prune
  BY <1>5 DEF Prune, Untouched
<1>6. CASE UNCHANGED vars
  BY <1>6 DEF vars, Untouched
<1> QED
  BY <1>1, <1>2, <1>3, <1>4, <1>5, <1>6 DEF Next

-----------------------------------------------------------------------------
(* Rows *)

\* The save of the verdict fails only under a context that is done.
Settled ==
  \A r \in Runs :
    pc[r] \in {"recording", "releasing", "over"} /\ row[r] = "running" => r \in canceled

LEMMA SettledStep ==
  ASSUME StoreFaults = FALSE, RunInv, Settled, [Next]_vars PROVE Settled'
<1> SUFFICES ASSUME NEW r \in Runs,
                    pc'[r] \in {"recording", "releasing", "over"}, row'[r] = "running"
             PROVE  r \in canceled'
  BY DEF Settled
<1>0. TypeOK
  BY DEF RunInv
<1>1. CASE pc[r] = "unused"
  <2>1. pc'[r] \in {"unused", "created"}
    BY <1>0, <1>1 DEF Next, Step, CreateRun, Submit, Acquire, Refuse, PrepareFails, Prepare,
       DryRun, SkipUndeployed, LoopStopped, LoopEnded, Dispatch, DispatchSucceeds,
       DispatchFails, Undo, ClearStates, Finish, SaveVerdict, Record, Release, Cancel,
       Deadline, Prune, Restart, FinishAs, AfterLoop, Goto, TypeOK, vars
  <2> QED
    BY <2>1
<1>2. CASE Restart
  BY <1>2 DEF Restart
<1>3. CASE pc[r] # "unused" /\ ~Step(r) /\ ~Restart
  <2>1. Untouched(r)
    BY <1>3, OthersLeave
  <2> QED
    BY <2>1 DEF Untouched, Settled
<1>4. CASE Step(r)
  <2>1. CASE SaveVerdict(r)
    BY <1>0, <2>1 DEF SaveVerdict, Writes, TypeOK, context
  <2>2. CASE Record(r) \/ Release(r)
    BY <2>2 DEF Record, Release, Settled, context, table
  <2>3. CASE Refuse(r)
    BY <1>0, <2>3 DEF Refuse, TypeOK
  <2> QED
    BY <1>0, <1>4, <2>1, <2>2, <2>3 DEF Step, Acquire, PrepareFails, Prepare, DryRun,
       SkipUndeployed, LoopStopped, LoopEnded, Dispatch, DispatchSucceeds, DispatchFails,
       Undo, ClearStates, Finish, FinishAs, AfterLoop, Goto, TypeOK
<1> QED
  BY <1>1, <1>2, <1>3, <1>4

\* With a store that answers no row is left running by a run that is over, unless
\* its context had ended: the executor's one weak place.
THEOREM OnlyCanceledRunsStrand ==
  ASSUME StoreFaults = FALSE
  PROVE  Spec => []OnlyLateCancelsStrand
<1>1. Init => Settled
  BY DEF Init, Settled
<1>2. RunInv /\ Settled => OnlyLateCancelsStrand
  <2> SUFFICES ASSUME RunInv, Settled, NEW r \in Runs, row[r] = "running"
               PROVE  Live(r) \/ pc[r] = "created" \/ r \in canceled
    BY DEF OnlyLateCancelsStrand
  <2>1. pc[r] # "unused"
    BY DEF RunInv, Phases
  <2>2. pc[r] \in Executing \cup {"created", "over"}
    BY <2>1 DEF RunInv, TypeOK
  <2> QED
    BY <2>2 DEF Settled, Live
<1> QED
  BY <1>1, <1>2, SettledStep, RunInvariant, PTL DEF Spec

-----------------------------------------------------------------------------
(* Verdicts and the states of components *)

Verdict(r) == IF r \in failed THEN "failed" ELSE "success"

\* A run that is not disturbed has its verdict in its row once it was saved, and in
\* the state of its component once that was recorded.
Marked ==
  \A r \in Runs \ canceled :
    /\ pc[r] \in {"recording", "releasing"} /\ row[r] # "none" => row[r] = Verdict(r)
    /\ pc[r] = "releasing" /\ RealDeploy(r) =>
         state[opts[r].name] = IF r \in failed THEN "failed" ELSE "deployed"

\* Only Submit takes a run out of "unused".
LEMMA FirstStep ==
  ASSUME RunInv, [Next]_vars, NEW r \in Runs, pc[r] = "unused"
  PROVE  pc'[r] \in {"unused", "created"}
  BY DEF RunInv, Next, Step, CreateRun, Submit, Acquire, Refuse, PrepareFails, Prepare,
     DryRun, SkipUndeployed, LoopStopped, LoopEnded, Dispatch, DispatchSucceeds,
     DispatchFails, Undo, ClearStates, Finish, SaveVerdict, Record, Release, Cancel,
     Deadline, Prune, Restart, FinishAs, AfterLoop, Goto, TypeOK, vars

LEMMA MarkedStep ==
  ASSUME StoreFaults = FALSE, RunInv, Marked, [Next]_vars PROVE Marked'
<1> SUFFICES ASSUME NEW r \in Runs, r \notin canceled', pc'[r] \in {"recording", "releasing"}
             PROVE  /\ row'[r] # "none" => row'[r] = Verdict(r)'
                    /\ pc'[r] = "releasing" /\ RealDeploy(r)' =>
                         state'[opts'[r].name] = IF r \in failed' THEN "failed" ELSE "deployed"
  BY DEF Marked
<1>0. TypeOK
  BY DEF RunInv
<1>1. CASE pc[r] = "unused"
  BY <1>1, FirstStep
<1>2. CASE Restart
  BY <1>0, <1>2 DEF Restart, TypeOK
<1>3. CASE pc[r] # "unused" /\ ~Step(r) /\ ~Restart
  <2>1. Untouched(r)
    BY <1>3, OthersLeave
  <2>2. Live(r) /\ r \notin canceled /\ pc[r] \in {"recording", "releasing"}
    BY <2>1 DEF Untouched, Live, Executing
  <2>3. row'[r] # "none" => row'[r] = Verdict(r)'
    BY <2>1, <2>2 DEF Untouched, Marked, Verdict
  <2>4. RealDeploy(r)' <=> RealDeploy(r)
    BY <2>1 DEF Untouched, RealDeploy
  <2>5. RealDeploy(r) => state'[opts'[r].name] = state[opts[r].name]
    BY <2>1, <2>2 DEF Untouched, RealDeploy, Whole
  <2> QED
    BY <2>1, <2>2, <2>3, <2>4, <2>5 DEF Untouched, Marked
<1>4. CASE Step(r)
  <2>1. CASE SaveVerdict(r)
    <3>1. pc'[r] = "recording" /\ r \notin canceled /\ failed' = failed
      BY <1>0, <2>1 DEF SaveVerdict, Goto, TypeOK, context, work
    <3>2. row' = [row EXCEPT ![r] = IF r \in failed THEN "failed" ELSE "success"]
      BY <2>1, <3>1 DEF SaveVerdict, Writes
    <3> QED
      BY <1>0, <3>1, <3>2 DEF Verdict, TypeOK
  <2>2. CASE Record(r)
    <3>1. /\ pc[r] = "recording" /\ r \notin canceled
          /\ failed' = failed /\ opts' = opts /\ row' = row
      BY <2>2 DEF Record, context, work
    <3>2. RealDeploy(r) => opts[r].name \in Names
      <4>1. opts[r] \in Requests
        BY <3>1 DEF RunInv, Accepted, Live, Executing
      <4> QED
        BY <4>1, RuntimeAssumption DEF RealDeploy, Options
    <3>3. RealDeploy(r) => state' = [state EXCEPT ![opts[r].name] = NewState(r)]
      BY <2>2, <3>1 DEF Record, Writes, RealDeploy, Whole
    <3>4. RealDeploy(r) => NewState(r) = IF r \in failed THEN "failed" ELSE "deployed"
      BY DEF NewState, RealDeploy
    <3>5. RealDeploy(r)' <=> RealDeploy(r)
      BY <3>1 DEF RealDeploy
    <3>6. RealDeploy(r) =>
            state'[opts'[r].name] = IF r \in failed' THEN "failed" ELSE "deployed"
      BY <1>0, <3>1, <3>2, <3>3, <3>4 DEF TypeOK
    <3> QED
      BY <3>1, <3>5, <3>6 DEF Marked, Verdict
  <2> QED
    BY <1>0, <1>4, <2>1, <2>2 DEF Step, Acquire, Refuse, PrepareFails, Prepare, DryRun,
       SkipUndeployed, LoopStopped, LoopEnded, Dispatch, DispatchSucceeds, DispatchFails,
       Undo, ClearStates, Finish, Release, FinishAs, AfterLoop, Goto, TypeOK
<1> QED
  BY <1>1, <1>2, <1>3, <1>4

\* With a store that answers, a deployment of one component that nobody canceled
\* leaves the component's state as its row tells.
THEOREM StatesTellVerdicts ==
  ASSUME StoreFaults = FALSE
  PROVE  Spec => []BadgeMatchesVerdict
<1>1. Init => Marked
  BY DEF Init, Marked
<1>2. Marked => BadgeMatchesVerdict
  BY DEF Marked, BadgeMatchesVerdict, Verdict
<1> QED
  BY <1>1, <1>2, MarkedStep, RunInvariant, PTL DEF Spec

-----------------------------------------------------------------------------
(* Cleanups *)

Cleanup(r) == Whole(r) /\ opts[r].mode = "rollback" /\ ~opts[r].dry
Targets == {c \in Enabled : NeedsCleanup(c)}

\* No enabled component and no virtual one with an enabled component has a state.
Clean ==
  \A n \in Names :
    (IF n \in Virtuals THEN Members[n] \cap Enabled # {} ELSE n \in Enabled)
    => ~DirtyState(n)

\* A run that has not begun its loop has tried nothing.
Fresh ==
  \A r \in Runs :
    pc[r] \in {"unused", "created", "preparing", "filtering"} => tried[r] = {} /\ done[r] = {}

\* Where an undisturbed cleanup stands: its scope is what has a state and stays so,
\* as no other run writes states beside it.
Progress(r) ==
  /\ pc[r] # "undoing"
  /\ pc[r] = "filtering" => scope[r] = Enabled
  /\ pc[r] \in {"working", "dispatching"} =>
       scope[r] = Targets /\ tried[r] \subseteq scope[r] /\ (r \notin failed => done[r] = tried[r])
  /\ pc[r] = "dispatching" => current[r] \in scope[r]
  /\ pc[r] = "clearing" /\ r \notin failed => done[r] = Targets /\ scope[r] = Targets
  /\ pc[r] \in {"finishing", "saving", "recording", "releasing"} /\ r \notin failed => Clean

Sweeping == \A r \in Runs \ canceled : Live(r) /\ Cleanup(r) => Progress(r)

LEMMA FreshStep ==
  ASSUME RunInv, Fresh, [Next]_vars PROVE Fresh'
<1> SUFFICES ASSUME NEW r \in Runs,
                    pc'[r] \in {"unused", "created", "preparing", "filtering"}
             PROVE  tried'[r] = {} /\ done'[r] = {}
  BY DEF Fresh
<1>0. TypeOK
  BY DEF RunInv
<1>1. CASE pc[r] = "unused"
  <2>1. CASE \E q \in Runs : Step(q)
    <3>1. PICK q \in Runs : Step(q)
      BY <2>1
    <3>2. q # r
      BY <1>1, <3>1 DEF Step, Acquire, Refuse, PrepareFails, Prepare, DryRun, SkipUndeployed,
         LoopStopped, LoopEnded, Dispatch, DispatchSucceeds, DispatchFails, Undo, ClearStates,
         Finish, SaveVerdict, Record, Release
    <3> QED
      BY <1>1, <3>1, <3>2, StepOfOthers DEF Untouched, Fresh
  <2>2. CASE UNCHANGED <<tried, done>>
    BY <1>1, <2>2 DEF Fresh
  <2> QED
    BY <2>1, <2>2 DEF Next, CreateRun, Submit, Cancel, Deadline, Prune, Restart, vars, work
<1>2. CASE Restart
  BY <1>0, <1>2 DEF Restart, TypeOK, Fresh
<1>3. CASE pc[r] # "unused" /\ ~Step(r) /\ ~Restart
  BY <1>3, OthersLeave DEF Untouched, Fresh
<1>4. CASE Step(r)
  <2>1. UNCHANGED <<tried, done>>
    BY <1>0, <1>4 DEF Step, Acquire, Refuse, PrepareFails, Prepare, DryRun, SkipUndeployed,
       LoopStopped, LoopEnded, Dispatch, DispatchSucceeds, DispatchFails, Undo, ClearStates,
       Finish, SaveVerdict, Record, Release, FinishAs, AfterLoop, Goto, TypeOK, work
  <2>2. pc[r] \in {"created", "preparing", "filtering"}
    BY <1>0, <1>4 DEF Step, Acquire, Refuse, PrepareFails, Prepare, DryRun, SkipUndeployed,
       LoopStopped, LoopEnded, Dispatch, DispatchSucceeds, DispatchFails, Undo, ClearStates,
       Finish, SaveVerdict, Record, Release, FinishAs, AfterLoop, Goto, TypeOK
  <2> QED
    BY <2>1, <2>2 DEF Fresh
<1> QED
  BY <1>1, <1>2, <1>3, <1>4

\* With nothing to clean up the states are clean.
LEMMA NothingLeft ==
  ASSUME Targets = {} PROVE Clean
<1> SUFFICES ASSUME NEW n \in Names,
                    IF n \in Virtuals THEN Members[n] \cap Enabled # {} ELSE n \in Enabled
             PROVE  ~DirtyState(n)
  BY DEF Clean
<1>1. CASE n \in Virtuals
  <2>1. PICK c \in Enabled : c \in Members[n]
    BY <1>1
  <2>2. c \in Components
    BY RuntimeAssumption
  <2>3. ~NeedsCleanup(c)
    BY DEF Targets
  <2> QED
    BY <1>1, <2>1, <2>3 DEF NeedsCleanup, Owners
<1>2. CASE n \notin Virtuals
  BY <1>2 DEF Targets, NeedsCleanup
<1> QED
  BY <1>1, <1>2

\* Once the whole target was rolled back, clearing the states cleans them.
LEMMA ClearCleans ==
  ASSUME NEW r \in Runs, TypeOK, done[r] = Targets, scope[r] = Targets,
         state' = [n \in Names |-> IF n \in Cleared(r) THEN "not_deployed" ELSE state[n]]
  PROVE  Clean'
<1> SUFFICES ASSUME NEW n \in Names, DirtyState(n)',
                    IF n \in Virtuals THEN Members[n] \cap Enabled # {} ELSE n \in Enabled
             PROVE  FALSE
  BY DEF Clean
<1>1. n \notin Cleared(r) /\ DirtyState(n)
  BY DEF DirtyState
<1>2. CASE n \in Virtuals
  <2>1. PICK c \in Enabled : c \in Members[n]
    BY <1>2
  <2>2. c \in Targets
    BY <1>1, <1>2, <2>1 DEF Targets, NeedsCleanup, Owners
  <2> QED
    BY <1>1, <1>2, <2>1, <2>2 DEF Cleared
<1>3. CASE n \notin Virtuals
  BY <1>1, <1>3 DEF Cleared, Targets, NeedsCleanup
<1> QED
  BY <1>2, <1>3

LEMMA SweepingStep ==
  ASSUME StoreFaults = FALSE, RunInv, Fresh, Sweeping, [Next]_vars PROVE Sweeping'
<1> SUFFICES ASSUME NEW r \in Runs, r \notin canceled', Live(r)', Cleanup(r)'
             PROVE  Progress(r)'
  BY DEF Sweeping
<1>0. TypeOK
  BY DEF RunInv
<1>1. CASE pc[r] = "unused"
  BY <1>1, FirstStep DEF Live, Executing
<1>2. CASE Restart
  BY <1>0, <1>2 DEF Restart, TypeOK, Live, Executing
<1>3. CASE pc[r] # "unused" /\ ~Step(r) /\ ~Restart
  <2>1. Untouched(r)
    BY <1>3, OthersLeave
  <2>2. r \notin canceled /\ Live(r) /\ Cleanup(r) /\ Whole(r)
    BY <2>1 DEF Untouched, Live, Cleanup, Whole
  <2>3. Progress(r) /\ state' = state
    BY <2>1, <2>2 DEF Sweeping, Untouched
  <2>4. Targets' = Targets /\ Clean' = Clean
    BY <2>3 DEF Targets, NeedsCleanup, DirtyState, Clean
  <2> QED
    BY <2>1, <2>3, <2>4 DEF Untouched, Progress
<1>4. CASE Step(r)
  <2>1. /\ pc[r] = "created" \/ Live(r)
        /\ canceled' = canceled /\ opts' = opts
    BY <1>4 DEF Step, Acquire, Refuse, PrepareFails, Prepare, DryRun, SkipUndeployed,
       LoopStopped, LoopEnded, Dispatch, DispatchSucceeds, DispatchFails, Undo, ClearStates,
       Finish, SaveVerdict, Record, Release, Live, Executing, context
  <2>2. r \notin canceled /\ Cleanup(r) /\ Whole(r)
    BY <2>1 DEF Cleanup, Whole
  <2>3. Live(r) => Progress(r)
    BY <2>2 DEF Sweeping
  <2>4. ASSUME state' = state PROVE Targets' = Targets /\ Clean' = Clean
    BY <2>4 DEF Targets, NeedsCleanup, DirtyState, Clean
  <2>5. CASE Acquire(r)
    BY <1>0, <2>5 DEF Acquire, Goto, TypeOK, Progress
  <2>6. CASE PrepareFails(r)
    BY <1>0, <2>6 DEF PrepareFails, FinishAs, Goto, TypeOK, Progress
  <2>7. CASE Prepare(r)
    BY <1>0, <2>2, <2>7 DEF Prepare, Goto, TypeOK, Progress, Cleanup, Whole, Scope
  <2>8. CASE DryRun(r)
    BY <2>2, <2>8 DEF DryRun, Cleanup
  <2>9. CASE SkipUndeployed(r)
    <3>1. scope[r] = Enabled /\ tried[r] = {} /\ done[r] = {} /\ state' = state
      BY <2>3, <2>9 DEF SkipUndeployed, Progress, Fresh, Live, Executing, table
    <3>2. Targets = {c \in scope[r] : NeedsCleanup(c)}
      BY <3>1 DEF Targets
    <3>3. CASE Targets = {}
      <4>1. pc'[r] = "finishing"
        BY <1>0, <2>2, <2>9, <3>2, <3>3 DEF SkipUndeployed, FinishAs, Goto, TypeOK
      <4> QED
        BY <4>1, <3>1, <3>3, <2>4, NothingLeft DEF Progress
    <3>4. CASE Targets # {}
      <4>1. pc'[r] = "working" /\ scope'[r] = Targets /\ tried' = tried /\ done' = done
        BY <1>0, <2>2, <2>9, <3>2, <3>4 DEF SkipUndeployed, Goto, TypeOK
      <4> QED
        BY <4>1, <3>1, <2>4 DEF Progress
    <3> QED
      BY <3>3, <3>4
  <2>10. CASE LoopStopped(r)
    BY <2>2, <2>10 DEF LoopStopped
  <2>11. CASE LoopEnded(r)
    <3>1. pc[r] = "working" /\ scope[r] \subseteq tried[r] /\ Progress(r)
      BY <2>3, <2>11 DEF LoopEnded, Remaining, Live, Executing
    <3>2. /\ pc'[r] = "clearing" /\ failed' = failed /\ state' = state
          /\ scope' = scope /\ done' = done
      BY <1>0, <2>2, <2>11 DEF LoopEnded, AfterLoop, Goto, TypeOK, Cleanup, table
    <3>3. r \notin failed => done[r] = Targets /\ scope[r] = Targets
      <4>1. scope[r] = Targets /\ tried[r] \subseteq scope[r]
        BY <3>1 DEF Progress
      <4>2. tried[r] = scope[r]
        BY <3>1, <4>1
      <4> QED
        BY <3>1, <4>1, <4>2 DEF Progress
    <3> QED
      BY <2>4, <3>2, <3>3 DEF Progress
  <2>12. CASE Dispatch(r)
    <3>1. PICK c \in Components : IsUpcoming(c, r) /\ current' = [current EXCEPT ![r] = c]
      BY <2>12 DEF Dispatch
    <3>2. c \in scope[r]
      BY <3>1 DEF IsUpcoming, Rearmost, Foremost, Remaining
    <3>3. /\ pc[r] = "working" /\ pc'[r] = "dispatching" /\ state' = state
          /\ UNCHANGED <<scope, tried, done, failed>>
      BY <1>0, <2>12 DEF Dispatch, Goto, TypeOK, table
    <3> QED
      BY <1>0, <2>3, <2>4, <3>1, <3>2, <3>3 DEF Progress, Live, Executing, TypeOK
  <2>13. CASE DispatchSucceeds(r)
    <3>1. pc[r] = "dispatching" /\ Progress(r)
      BY <2>3, <2>13 DEF DispatchSucceeds, Live, Executing
    <3>2. /\ pc'[r] = "working" /\ scope' = scope /\ failed' = failed /\ state' = state
          /\ tried'[r] = tried[r] \cup {current[r]} /\ done'[r] = done[r] \cup {current[r]}
      BY <1>0, <2>13 DEF DispatchSucceeds, Goto, TypeOK, table
    <3> QED
      BY <2>4, <3>1, <3>2 DEF Progress
  <2>14. CASE DispatchFails(r)
    <3>1. pc[r] = "dispatching" /\ Progress(r)
      BY <2>3, <2>14 DEF DispatchFails, Live, Executing
    <3>2. /\ pc'[r] = "working" /\ scope' = scope /\ r \in failed' /\ state' = state
          /\ tried'[r] = tried[r] \cup {current[r]}
      BY <1>0, <2>2, <2>14 DEF DispatchFails, Goto, TypeOK, Cleanup, table
    <3> QED
      BY <2>4, <3>1, <3>2 DEF Progress
  <2>15. CASE Undo(r)
    BY <2>3, <2>15 DEF Undo, Progress, Live, Executing
  <2>16. CASE ClearStates(r)
    <3>1. pc[r] = "clearing" /\ Progress(r)
      BY <2>3, <2>16 DEF ClearStates, Live, Executing
    <3>2. pc'[r] = "finishing" /\ failed' = failed
      BY <1>0, <2>16 DEF ClearStates, Goto, TypeOK, work
    <3>3. state' = [n \in Names |-> IF n \in Cleared(r) THEN "not_deployed" ELSE state[n]]
      BY <2>2, <2>16 DEF ClearStates
    <3> QED
      BY <1>0, <3>1, <3>2, <3>3, ClearCleans DEF Progress
  <2>17. CASE Finish(r) \/ SaveVerdict(r) \/ Record(r)
    <3>1. /\ pc[r] \in {"finishing", "saving", "recording"} /\ Progress(r)
          /\ pc'[r] \in {"saving", "recording", "releasing"} /\ failed' = failed
      BY <1>0, <2>3, <2>17 DEF Finish, SaveVerdict, Record, Live, Executing, Goto, TypeOK, work
    <3>2. state' = state
      BY <2>2, <2>17 DEF Finish, SaveVerdict, Record, table
    <3> QED
      BY <2>4, <3>1, <3>2 DEF Progress
  <2>18. CASE Refuse(r) \/ Release(r)
    BY <1>0, <2>18 DEF Refuse, Release, Goto, TypeOK, Live, Executing
  <2> QED
    BY <1>4, <2>5, <2>6, <2>7, <2>8, <2>9, <2>10, <2>11, <2>12, <2>13, <2>14, <2>15, <2>16,
       <2>17, <2>18 DEF Step
<1> QED
  BY <1>1, <1>2, <1>3, <1>4

\* With a store that answers, a cleanup of everything that ends well has cleared the
\* state of every enabled component and of every virtual one over them, whatever
\* runs, conflicts and crashes came before it.
THEOREM CleanupsAreComplete ==
  ASSUME StoreFaults = FALSE
  PROVE  Spec => []CleanupComplete
<1>1. Init => Fresh /\ Sweeping
  BY DEF Init, Fresh, Sweeping, Live, Executing
<1>2. Sweeping => CleanupComplete
  BY DEF Sweeping, CleanupComplete, Progress, Cleanup, Clean, Live, Executing
<1> QED
  BY <1>1, <1>2, FreshStep, SweepingStep, RunInvariant, PTL DEF Spec
=============================================================================
