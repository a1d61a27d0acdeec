--------------------------- MODULE PipelineEngine ---------------------------
(***************************************************************************)
(* The stage loop of one pipeline: internal/pipeline/engine.go with the    *)
(* stage lists of stage_resolver.go, called by the scheduler's             *)
(* executePipeline, paused for a confirmation, and resumed by the Deploy   *)
(* handler.  Executions of the pipeline follow one another here; how they  *)
(* may overlap is BuildScheduler's subject.  A stage is its code and its   *)
(* result; the rows of all executions stay in pipeline_stages.             *)
(***************************************************************************)
EXTENDS Naturals, Sequences, SequencesExt

CONSTANTS
  AppTypes,      \* app_type values, "java" and "vue" are the supported ones
  Modes,         \* deploy_mode values
  MaxExecutions  \* bound on executions of the pipeline

ASSUME EngineAssumption ==
  MaxExecutions \in Nat /\ "" \notin AppTypes

VARIABLES
  appType, mode,  \* columns of the pipeline row, fixed
  row,            \* pipelines.status
  stages,         \* pipeline_stages rows, in order of insertion
  first,          \* where this execution's rows start in stages
  at,             \* engine: index of the current stage definition
  pc,             \* where the executor is
  result,         \* what Execute returned
  ctxDone,        \* timeout or cancel signal
  confirmed,      \* Deploy was accepted once
  executions

vars == <<appType, mode, row, stages, first, at, pc, result, ctxDone, confirmed, executions>>
fixed == <<appType, mode>>

Compile == [java |-> <<"CLEAN_WORKSPACE", "GIT_CLONE", "GRADLE_BUILD">>,
            vue  |-> <<"CLEAN_WORKSPACE", "GIT_CLONE", "YARN_BUILD", "ZIP_PACKAGE">>]
Upload == <<"CHECK_REMOTE_DIR", "UPLOAD_ARTIFACT">>
Release == <<"BUILD_IMAGE", "PUSH_IMAGE", "K8S_DEPLOY">>

\* ResolveStagesWithMode; <<>> stands for nil
Resolve(type, m) ==
  IF m \in {"artifact_deploy", "manual"} THEN Release \o <<"NOTIFY">>
  ELSE IF type \notin DOMAIN Compile THEN <<>>
  ELSE Compile[type]
       \o (CASE m = "upload_only" -> Upload
             [] m = "upload_and_deploy" -> Upload \o Release
             [] OTHER -> Release)
       \o <<"NOTIFY">>

Defs == Resolve(appType, mode)
NeedsApproval == mode \in {"manual", "deploy_with_approval"}

Codes == {"CLEAN_WORKSPACE", "GIT_CLONE", "GRADLE_BUILD", "YARN_BUILD", "ZIP_PACKAGE",
          "CHECK_REMOTE_DIR", "UPLOAD_ARTIFACT", "BUILD_IMAGE", "PUSH_IMAGE",
          "K8S_DEPLOY", "NOTIFY"}
StageRow == [code : Codes, status : {"PENDING", "RUNNING", "SUCCESS", "FAILED", "SKIPPED"}]

TypeOK ==
  /\ appType \in AppTypes /\ mode \in Modes
  /\ row \in {"PENDING", "RUNNING", "IMAGE_READY", "DEPLOYING", "SUCCESS", "FAILED", "CANCELED"}
  /\ stages \in Seq(StageRow)
  /\ first \in 1..(Len(stages) + 1)
  /\ at \in 0..(Len(Defs) + 1)
  /\ pc \in {"queued", "context", "execute", "check", "stage", "returned", "idle"}
  /\ result \in {"none", "nil", "image_ready", "error"}
  /\ ctxDone \in BOOLEAN /\ confirmed \in BOOLEAN
  /\ executions \in 0..MaxExecutions

\* The row of the current stage, and this execution's rows.
Here == first + at - 1
Mine == SubSeq(stages, first, Len(stages))

-----------------------------------------------------------------------------
(* executePipeline up to engine.Execute *)

\* Status = RUNNING is saved before anything looks at the status.
Begin ==
  /\ pc = "queued" /\ executions < MaxExecutions
  /\ row' = "RUNNING"
  /\ executions' = executions + 1
  /\ pc' = "context"
  /\ UNCHANGED <<fixed, stages, first, at, result, ctxDone, confirmed>>

\* buildContext returns nil
ContextFails ==
  /\ pc = "context"
  /\ row' = "FAILED"
  /\ pc' = "idle"
  /\ UNCHANGED <<fixed, stages, first, at, result, ctxDone, confirmed, executions>>

ContextBuilt ==
  /\ pc = "context"
  /\ pc' = "execute"
  /\ UNCHANGED <<fixed, row, stages, first, at, result, ctxDone, confirmed, executions>>

-----------------------------------------------------------------------------
(* Engine.Execute *)

Return(r) == pc' = "returned" /\ result' = r

Unsupported ==
  /\ pc = "execute" /\ Defs = <<>>
  /\ Return("error")
  /\ UNCHANGED <<fixed, row, stages, first, at, ctxDone, confirmed, executions>>

\* Existing rows are reused only when p.Status is DEPLOYING; p is the record
\* that Begin has set to RUNNING.
Resuming(memStatus) == stages # <<>> /\ memStatus = "DEPLOYING"

Prepare ==
  /\ pc = "execute" /\ Defs # <<>>
  /\ IF Resuming("RUNNING")
     THEN first' = 1 /\ UNCHANGED stages
     ELSE /\ first' = Len(stages) + 1
          /\ stages' = stages \o [i \in DOMAIN Defs |-> [code |-> Defs[i], status |-> "PENDING"]]
  /\ at' = 1
  /\ pc' = "check"
  /\ UNCHANGED <<fixed, row, result, ctxDone, confirmed, executions>>

\* Mutant: the loop runs one stage too far and never returns.
Bug_AllDone ==
  /\ pc = "check" /\ at > Len(Defs) + 1
  /\ Return("nil")
  /\ UNCHANGED <<fixed, row, stages, first, at, ctxDone, confirmed, executions>>

\* The loop is over: nil.
AllDone ==
  /\ pc = "check" /\ at > Len(Defs)
  /\ Return("nil")
  /\ UNCHANGED <<fixed, row, stages, first, at, ctxDone, confirmed, executions>>

SkipCompleted ==
  /\ stages[Here].status = "SUCCESS"
  /\ at' = at + 1
  /\ UNCHANGED <<pc, stages, result>>

\* skipRemaining(stageRecords, from)
Bug_SkipRemaining(rows, from) == rows
SkipRemaining(rows, from) ==
  [i \in DOMAIN rows |-> IF i >= from THEN [rows[i] EXCEPT !.status = "SKIPPED"] ELSE rows[i]]

\* markStageStatus FAILED, skipRemaining, return the error
FailStage ==
  /\ stages' = SkipRemaining([stages EXCEPT ![Here].status = "FAILED"], Here + 1)
  /\ Return("error")
  /\ UNCHANGED at

CheckStage ==
  /\ pc = "check" /\ at <= Len(Defs)
  /\ IF stages[Here].status = "SUCCESS" THEN SkipCompleted
     ELSE IF ctxDone THEN FailStage
     ELSE /\ stages' = [stages EXCEPT ![Here].status = "RUNNING"]
          /\ pc' = "stage"
          /\ UNCHANGED <<at, result>>
  /\ UNCHANGED <<fixed, row, first, ctxDone, confirmed, executions>>

\* The pause after PUSH_IMAGE
Bug_PausesAfter(code) == NeedsApproval /\ code = "K8S_DEPLOY"
PausesAfter(code) == NeedsApproval /\ code = "PUSH_IMAGE"

StageSucceeds ==
  /\ pc = "stage"
  /\ stages' = [stages EXCEPT ![Here].status = "SUCCESS"]
  /\ IF PausesAfter(Defs[at])
     THEN Return("image_ready") /\ UNCHANGED at
     ELSE at' = at + 1 /\ pc' = "check" /\ UNCHANGED result
  /\ UNCHANGED <<fixed, row, first, ctxDone, confirmed, executions>>

StageFails ==
  /\ pc = "stage"
  /\ FailStage
  /\ UNCHANGED <<fixed, row, first, ctxDone, confirmed, executions>>

-----------------------------------------------------------------------------
(* executePipeline after engine.Execute, and the handlers *)

Bug_Verdict(r) == IF r = "image_ready" THEN "IMAGE_READY" ELSE "SUCCESS"
Bug_VerdictUnmapped(r) == r
Verdict(r) ==
  CASE r = "nil" -> "SUCCESS"
    [] r = "image_ready" -> "IMAGE_READY"
    [] r = "error" -> IF row = "CANCELED" THEN "CANCELED" ELSE "FAILED"

Save ==
  /\ pc = "returned"
  /\ row' = Verdict(result)
  /\ pc' = "idle"
  /\ result' = "none" /\ at' = 0
  /\ UNCHANGED <<fixed, stages, first, ctxDone, confirmed, executions>>

\* Deploy: the status guard, DEPLOYING saved, enqueued again; the next
\* execution has a context of its own.
Deploy ==
  /\ pc = "idle" /\ row = "IMAGE_READY"
  /\ row' = "DEPLOYING"
  /\ confirmed' = TRUE
  /\ pc' = "queued" /\ ctxDone' = FALSE
  /\ UNCHANGED <<fixed, stages, first, at, result, executions>>

\* The build timeout, which counts from the dispatch.
Timeout ==
  /\ pc \notin {"queued", "idle"} /\ ~ctxDone
  /\ ctxDone' = TRUE
  /\ UNCHANGED <<fixed, row, stages, first, at, pc, result, confirmed, executions>>

\* Cancel of a running pipeline: the signal and the handler's write.
CancelRunning ==
  /\ pc \notin {"queued", "idle"}
  /\ row' = "CANCELED" /\ ctxDone' = TRUE
  /\ UNCHANGED <<fixed, stages, first, at, pc, result, confirmed, executions>>

Init ==
  /\ appType \in AppTypes /\ mode \in Modes
  /\ row = "PENDING" /\ stages = <<>> /\ first = 1
  /\ at = 0 /\ pc = "queued" /\ result = "none"
  /\ ctxDone = FALSE /\ confirmed = FALSE /\ executions = 0

Executor ==
  \/ Begin \/ ContextFails \/ ContextBuilt
  \/ Unsupported \/ Prepare \/ AllDone \/ CheckStage
  \/ StageSucceeds \/ StageFails \/ Save

Next == Executor \/ Deploy \/ Timeout \/ CancelRunning

Spec == Init /\ [][Next]_vars

\* The executor goroutine is scheduled and every stage ends; users may not act.
FairSpec == Spec /\ WF_vars(Executor)

-----------------------------------------------------------------------------
(* Properties *)

\* design.md Property 6: the rows of an execution are a run of SUCCESS, then at
\* most one stage under way or failed, then only PENDING or only SKIPPED rows.
StagesInOrder ==
  \E k \in 0..Len(Mine) :
    /\ \A i \in 1..k : Mine[i].status = "SUCCESS"
    /\ \/ \A i \in (k+1)..Len(Mine) : Mine[i].status = "PENDING"
       \/ /\ k < Len(Mine)
          /\ \/ /\ Mine[k+1].status = "RUNNING"
                /\ \A i \in (k+2)..Len(Mine) : Mine[i].status = "PENDING"
             \/ /\ Mine[k+1].status = "FAILED"
                /\ \A i \in (k+2)..Len(Mine) : Mine[i].status = "SKIPPED"

\* The pipeline's verdict agrees with its last execution: SUCCESS means every
\* stage succeeded, IMAGE_READY that the image was pushed and nothing was
\* deployed by that execution.
VerdictMatchesStages ==
  pc = "idle" =>
    /\ row = "SUCCESS" => Mine # <<>> /\ \A i \in DOMAIN Mine : Mine[i].status = "SUCCESS"
    /\ row = "IMAGE_READY" => \A i \in DOMAIN Mine :
         Mine[i].status = (IF Mine[i].code \in {"K8S_DEPLOY", "NOTIFY"} THEN "PENDING" ELSE "SUCCESS")

\* A mode that asks for a confirmation never deploys without one.
ApprovalGate ==
  NeedsApproval /\ ~confirmed =>
    \A i \in DOMAIN stages : stages[i].code = "K8S_DEPLOY" =>
      stages[i].status \in {"PENDING", "SKIPPED"}

\* An execution comes to an end, whatever its stages do.
ExecutionEnds == pc = "context" ~> pc = "idle"

\* handler/pipeline.go: Deploy enqueues the pipeline again "for K8S_DEPLOY stage
\* execution", so a confirmed execution does not pause for the confirmation again.
ConfirmedNotPausedAgain ==
  [][confirmed /\ row = "RUNNING" => row' # "IMAGE_READY"]_vars
=============================================================================
