------------------------ MODULE PipelineEngineProofs ------------------------
(***************************************************************************)
(* Proofs about PipelineEngine, for every set of application types and     *)
(* deploy modes and every number of executions.                            *)
(***************************************************************************)
EXTENDS PipelineEngine, SequenceTheorems, TLAPS

-----------------------------------------------------------------------------
(* The stage lists *)

LEMMA StageListTyped == ASSUME NEW t, NEW m PROVE Resolve(t, m) \in Seq(Codes)
<1>1. /\ Release \in Seq(Codes) /\ Upload \in Seq(Codes) /\ <<"NOTIFY">> \in Seq(Codes)
      /\ <<>> \in Seq(Codes)
  BY DEF Release, Upload, Codes
<1>2. t \in DOMAIN Compile => Compile[t] \in Seq(Codes)
  <2>1. t \in DOMAIN Compile => t \in {"java", "vue"}
    BY DEF Compile
  <2>2. Compile["java"] \in Seq(Codes)
    BY DEF Compile, Codes
  <2>3. Compile["vue"] \in Seq(Codes)
    BY DEF Compile, Codes
  <2> QED
    BY <2>1, <2>2, <2>3
<1>3. \A s, r \in Seq(Codes) : s \o r \in Seq(Codes)
  BY ConcatProperties
<1> QED
  BY <1>1, <1>2, <1>3 DEF Resolve

\* A list ends with the release's three stages and the notification, and nothing
\* before them is one of these.
Gated(defs) ==
  /\ \A i \in 1..Len(defs) : defs[i] = "K8S_DEPLOY" =>
       \E j \in 1..(i - 1) : defs[j] = "PUSH_IMAGE"
  /\ \A i, j \in 1..Len(defs) : defs[i] = "PUSH_IMAGE" =>
       (defs[j] \in {"K8S_DEPLOY", "NOTIFY"} <=> j > i)

LEMMA ReleaseGated ==
  ASSUME NEW before \in Seq(Codes \ {"PUSH_IMAGE", "K8S_DEPLOY", "NOTIFY"})
  PROVE  Gated(before \o Release \o <<"NOTIFY">>)
<1> DEFINE n == Len(before)
           defs == before \o Release \o <<"NOTIFY">>
<1>1. /\ before \in Seq(Codes) /\ Release \in Seq(Codes) /\ <<"NOTIFY">> \in Seq(Codes)
      /\ n \in Nat
  <2>1. before \in Seq(Codes)
    BY SeqMonotonic
  <2> QED
    BY <2>1, LenProperties DEF Release, Codes
<1>2. /\ Len(Release) = 3 /\ Release[1] = "BUILD_IMAGE"
      /\ Release[2] = "PUSH_IMAGE" /\ Release[3] = "K8S_DEPLOY"
      /\ Len(<<"NOTIFY">>) = 1 /\ <<"NOTIFY">>[1] = "NOTIFY"
  BY DEF Release
<1>3. /\ before \o Release \in Seq(Codes) /\ Len(before \o Release) = n + 3
      /\ \A i \in 1..(n + 3) : (before \o Release)[i] =
           IF i <= n THEN before[i] ELSE Release[i - n]
  <2>1. before \o Release \in Seq(Codes) /\ Len(before \o Release) = Len(before) + Len(Release)
    BY <1>1, ConcatProperties
  <2>2. \A i \in 1..(Len(before) + Len(Release)) : (before \o Release)[i] =
           IF i <= Len(before) THEN before[i] ELSE Release[i - Len(before)]
    BY <1>1, ConcatProperties
  <2> QED
    BY <1>2, <2>1, <2>2
<1>4. /\ Len(defs) = n + 4
      /\ \A i \in 1..(n + 4) : defs[i] =
           IF i <= n + 3 THEN (before \o Release)[i] ELSE <<"NOTIFY">>[i - (n + 3)]
  <2>1. Len(defs) = (n + 3) + 1
    BY <1>1, <1>2, <1>3, ConcatProperties
  <2>2. \A i \in 1..((n + 3) + 1) : defs[i] =
           IF i <= n + 3 THEN (before \o Release)[i] ELSE <<"NOTIFY">>[i - (n + 3)]
    BY <1>1, <1>2, <1>3, ConcatProperties
  <2> QED
    BY <1>1, <2>1, <2>2
<1>5. \A i \in 1..n : defs[i] \notin {"PUSH_IMAGE", "K8S_DEPLOY", "NOTIFY"}
  <2>1. \A i \in 1..n : before[i] \in Codes \ {"PUSH_IMAGE", "K8S_DEPLOY", "NOTIFY"}
    BY ElementOfSeq
  <2> QED
    BY <1>1, <1>3, <1>4, <2>1
<1>6. /\ defs[n + 1] = "BUILD_IMAGE" /\ defs[n + 2] = "PUSH_IMAGE"
      /\ defs[n + 3] = "K8S_DEPLOY" /\ defs[n + 4] = "NOTIFY"
  <2>1. /\ n + 1 \in 1..(n + 3) /\ n + 2 \in 1..(n + 3) /\ n + 3 \in 1..(n + 3)
        /\ (n + 1) - n = 1 /\ (n + 2) - n = 2 /\ (n + 3) - n = 3
        /\ n + 4 \in 1..(n + 4) /\ (n + 4) - (n + 3) = 1
    BY <1>1
  <2> QED
    BY <1>1, <1>2, <1>3, <1>4, <2>1
<1>7. \A i \in 1..(n + 4) : i \in 1..n \/ i \in {n + 1, n + 2, n + 3, n + 4}
  BY <1>1
<1> HIDE DEF n, defs
<1>8. \A i \in 1..Len(defs) : defs[i] = "K8S_DEPLOY" =>
        \E j \in 1..(i - 1) : defs[j] = "PUSH_IMAGE"
  <2> SUFFICES ASSUME NEW i \in 1..Len(defs), defs[i] = "K8S_DEPLOY"
               PROVE  \E j \in 1..(i - 1) : defs[j] = "PUSH_IMAGE"
    OBVIOUS
  <2>1. i = n + 3
    BY <1>4, <1>5, <1>6, <1>7
  <2>2. n + 2 \in 1..(i - 1)
    BY <1>1, <2>1
  <2> QED
    BY <1>6, <2>2
<1>9. \A i, j \in 1..Len(defs) : defs[i] = "PUSH_IMAGE" =>
        (defs[j] \in {"K8S_DEPLOY", "NOTIFY"} <=> j > i)
  <2> SUFFICES ASSUME NEW i \in 1..Len(defs), NEW j \in 1..Len(defs), defs[i] = "PUSH_IMAGE"
               PROVE  defs[j] \in {"K8S_DEPLOY", "NOTIFY"} <=> j > i
    OBVIOUS
  <2>1. i = n + 2
    BY <1>4, <1>5, <1>6, <1>7
  <2>2. CASE j \in 1..n
    BY <1>1, <1>5, <2>1, <2>2
  <2>3. CASE j \in {n + 1, n + 2, n + 3, n + 4}
    BY <1>1, <1>6, <2>1, <2>3
  <2> QED
    BY <1>4, <1>7, <2>2, <2>3
<1> QED
  BY <1>8, <1>9 DEF Gated, defs

\* In the modes that ask for a confirmation the image is pushed once, right
\* before the deployment and the notification.
LEMMA PushPrecedesDeploy ==
  ASSUME NEW t, NEW m \in {"manual", "deploy_with_approval"}
  PROVE  Gated(Resolve(t, m))
<1>1. CASE m = "manual"
  <2>1. Resolve(t, m) = Release \o <<"NOTIFY">>
    BY <1>1 DEF Resolve
  <2>2. Release \in Seq(Codes) /\ <<>> \in Seq(Codes)
    BY DEF Release, Codes
  <2>3. <<>> \o Release = Release
    BY <2>2, ConcatEmptySeq
  <2>4. <<>> \in Seq(Codes \ {"PUSH_IMAGE", "K8S_DEPLOY", "NOTIFY"})
    OBVIOUS
  <2> QED
    BY <2>1, <2>3, <2>4, ReleaseGated
<1>2. CASE m # "manual" /\ t \in DOMAIN Compile
  <2>1. Resolve(t, m) = Compile[t] \o Release \o <<"NOTIFY">>
    BY <1>2 DEF Resolve
  <2>2. t \in {"java", "vue"}
    BY <1>2 DEF Compile
  <2>3. Compile["java"] \in Seq(Codes \ {"PUSH_IMAGE", "K8S_DEPLOY", "NOTIFY"})
    BY DEF Compile, Codes
  <2>4. Compile["vue"] \in Seq(Codes \ {"PUSH_IMAGE", "K8S_DEPLOY", "NOTIFY"})
    BY DEF Compile, Codes
  <2> QED
    BY <2>1, <2>2, <2>3, <2>4, ReleaseGated
<1>3. CASE m # "manual" /\ t \notin DOMAIN Compile
  <2>1. Resolve(t, m) = <<>>
    BY <1>3 DEF Resolve
  <2> QED
    BY <2>1 DEF Gated
<1> QED
  BY <1>1, <1>2, <1>3

-----------------------------------------------------------------------------
(* What the steps do to the rows *)

LEMMA FreshRows ==
  ASSUME NEW defs \in Seq(Codes)
  PROVE  LET fresh == [i \in DOMAIN defs |-> [code |-> defs[i], status |-> "PENDING"]]
         IN  fresh \in Seq(StageRow) /\ Len(fresh) = Len(defs)
<1> DEFINE fresh == [i \in DOMAIN defs |-> [code |-> defs[i], status |-> "PENDING"]]
<1>1. DOMAIN defs = 1..Len(defs) /\ Len(defs) \in Nat
  BY LenProperties
<1>2. \A i \in 1..Len(defs) : [code |-> defs[i], status |-> "PENDING"] \in StageRow
  BY ElementOfSeq DEF StageRow
<1>3. fresh \in [1..Len(defs) -> StageRow]
  BY <1>1, <1>2
<1> QED
  BY <1>1, <1>3, SeqDef, LenProperties

LEMMA StatusSet ==
  ASSUME NEW rows \in Seq(StageRow), NEW k \in 1..Len(rows),
         NEW s \in {"RUNNING", "SUCCESS", "FAILED"}
  PROVE  LET new == [rows EXCEPT ![k].status = s]
         IN  /\ new \in Seq(StageRow) /\ Len(new) = Len(rows)
             /\ \A i \in 1..Len(rows) : new[i] = IF i = k THEN [code |-> rows[k].code, status |-> s]
                                                 ELSE rows[i]
<1> DEFINE set == [code |-> rows[k].code, status |-> s]
<1>1. rows[k] \in StageRow
  BY ElementOfSeq
<1>2. set \in StageRow /\ [rows[k] EXCEPT !.status = s] = set
  BY <1>1 DEF StageRow
<1>3. [rows EXCEPT ![k].status = s] = [rows EXCEPT ![k] = set]
  BY <1>2
<1> HIDE DEF set
<1>4. /\ [rows EXCEPT ![k] = set] \in Seq(StageRow)
      /\ Len([rows EXCEPT ![k] = set]) = Len(rows)
      /\ \A i \in 1..Len(rows) : [rows EXCEPT ![k] = set][i] = IF i = k THEN set ELSE rows[i]
  BY <1>2, ExceptSeq
<1> QED
  BY <1>3, <1>4 DEF set

LEMMA RestSkipped ==
  ASSUME NEW rows \in Seq(StageRow), NEW k \in 1..Len(rows)
  PROVE  LET new == SkipRemaining([rows EXCEPT ![k].status = "FAILED"], k + 1)
         IN  /\ new \in Seq(StageRow) /\ Len(new) = Len(rows)
             /\ \A i \in 1..Len(rows) :
                  /\ new[i].code = rows[i].code
                  /\ new[i].status = IF i < k THEN rows[i].status
                                     ELSE IF i = k THEN "FAILED" ELSE "SKIPPED"
<1> DEFINE set == [rows EXCEPT ![k].status = "FAILED"]
           new == SkipRemaining(set, k + 1)
<1>1. /\ set \in Seq(StageRow) /\ Len(set) = Len(rows)
      /\ \A i \in 1..Len(rows) : set[i] = IF i = k THEN [code |-> rows[k].code, status |-> "FAILED"]
                                          ELSE rows[i]
  BY StatusSet
<1> HIDE DEF set
<1>2. DOMAIN set = 1..Len(rows) /\ Len(rows) \in Nat
  BY <1>1, LenProperties
<1>3. \A i \in 1..Len(rows) : set[i] \in StageRow /\ rows[i] \in StageRow
  BY <1>1, ElementOfSeq
<1>4. \A i \in 1..Len(rows) :
        new[i] = IF i >= k + 1 THEN [set[i] EXCEPT !.status = "SKIPPED"] ELSE set[i]
  BY <1>2 DEF SkipRemaining
<1>5. new \in [1..Len(rows) -> StageRow]
  BY <1>2, <1>3 DEF SkipRemaining, StageRow
<1>6. new \in Seq(StageRow) /\ Len(new) = Len(rows)
  BY <1>2, <1>5, SeqDef, LenProperties
<1> HIDE DEF new
<1>7. ASSUME NEW i \in 1..Len(rows)
      PROVE  /\ new[i].code = rows[i].code
             /\ new[i].status = IF i < k THEN rows[i].status
                                ELSE IF i = k THEN "FAILED" ELSE "SKIPPED"
  <2>0. k \in Nat /\ i \in Nat
    BY <1>2
  <2>1. CASE i < k
    <3>1. ~(i >= k + 1) /\ i # k
      BY <2>0, <2>1
    <3>2. new[i] = rows[i]
      BY <1>1, <1>4, <3>1
    <3> QED
      BY <2>1, <3>2
  <2>2. CASE i = k
    <3>1. ~(i >= k + 1) /\ ~(i < k)
      BY <2>0, <2>2
    <3>2. new[i] = [code |-> rows[i].code, status |-> "FAILED"]
      BY <1>1, <1>4, <2>2, <3>1
    <3> QED
      BY <2>2, <3>1, <3>2
  <2>3. CASE i > k
    <3>1. i >= k + 1 /\ ~(i < k) /\ i # k
      BY <2>0, <2>3
    <3>2. new[i] = [rows[i] EXCEPT !.status = "SKIPPED"] /\ rows[i] \in StageRow
      BY <1>1, <1>3, <1>4, <3>1
    <3> QED
      BY <3>1, <3>2 DEF StageRow
  <2> QED
    BY <2>0, <2>1, <2>2, <2>3
<1> QED
  BY <1>6, <1>7 DEF new, set

\* The rows of the current execution, as a suffix.
LEMMA SuffixRows ==
  ASSUME NEW rows \in Seq(StageRow), NEW f \in 1..(Len(rows) + 1)
  PROVE  LET own == SubSeq(rows, f, Len(rows))
         IN  /\ Len(own) = Len(rows) + 1 - f /\ DOMAIN own = 1..Len(own)
             /\ \A i \in 1..Len(own) : f + i - 1 \in f..Len(rows) /\ own[i] = rows[f + i - 1]
             /\ \A j \in f..Len(rows) : j - f + 1 \in 1..Len(own) /\ own[j - f + 1] = rows[j]
<1> DEFINE own == SubSeq(rows, f, Len(rows))
<1>1. Len(rows) \in Nat /\ f \in Int /\ Len(rows) \in Int
  BY LenProperties
<1>2. \A i \in f..Len(rows) : rows[i] \in StageRow
  BY <1>1, ElementOfSeq
<1>3. /\ own \in Seq(StageRow)
      /\ Len(own) = IF f <= Len(rows) THEN Len(rows) - f + 1 ELSE 0
      /\ \A i \in 1..(Len(rows) - f + 1) : own[i] = rows[f + i - 1]
  BY <1>1, <1>2, SubSeqProperties
<1> HIDE DEF own
<1>4. Len(own) = Len(rows) + 1 - f
  BY <1>1, <1>3
<1>5. DOMAIN own = 1..Len(own)
  BY <1>3, LenProperties
<1>6. ASSUME NEW j \in f..Len(rows)
      PROVE  j - f + 1 \in 1..Len(own) /\ own[j - f + 1] = rows[j]
  <2>1. j - f + 1 \in 1..(Len(rows) - f + 1) /\ f + (j - f + 1) - 1 = j
    BY <1>1
  <2> QED
    BY <1>1, <1>3, <1>4, <2>1
<1> QED
  BY <1>1, <1>3, <1>4, <1>5, <1>6 DEF own

-----------------------------------------------------------------------------
(* The invariant *)

\* The rows of this execution up to k have succeeded, row k + 1 is at s and the
\* later ones wait.
Split(k, s) ==
  \A i \in first..Len(stages) :
    stages[i].status = IF i <= k THEN "SUCCESS" ELSE IF i = k + 1 THEN s ELSE "PENDING"

Succeeded == \A i \in first..Len(stages) : stages[i].status = "SUCCESS"

\* The rows of this execution are those of its stage list.
Listed ==
  /\ Defs # <<>> /\ Len(stages) = first + Len(Defs) - 1
  /\ \A i \in 1..Len(Defs) : stages[first + i - 1].code = Defs[i]

\* No image was pushed yet by an execution that pauses when it is.
Unpushed == NeedsApproval => \A i \in 1..Len(Defs) : i < at => Defs[i] # "PUSH_IMAGE"

\* Where the loop stands, in its index and in the rows.
Loop ==
  /\ pc \in {"check", "stage"} => Listed /\ at >= 1 /\ Unpushed
  /\ pc = "check" => Split(Here - 1, "PENDING")
  /\ pc = "stage" => at <= Len(Defs) /\ Split(Here - 1, "RUNNING")
  /\ pc = "returned" =>
       /\ result # "none"
       /\ result = "nil" => Defs # <<>> /\ first <= Len(stages) /\ Succeeded
       /\ result = "image_ready" =>
            /\ Listed /\ at \in 1..Len(Defs) /\ NeedsApproval /\ Defs[at] = "PUSH_IMAGE"
            /\ Split(Here, "PENDING")

\* StagesInOrder, by the index in all rows.
Ordered ==
  \E k \in first..(Len(stages) + 1) :
    /\ \A i \in first..(k - 1) : stages[i].status = "SUCCESS"
    /\ \/ \A i \in k..Len(stages) : stages[i].status = "PENDING"
       \/ /\ k <= Len(stages)
          /\ \/ /\ stages[k].status = "RUNNING"
                /\ \A i \in (k+1)..Len(stages) : stages[i].status = "PENDING"
             \/ /\ stages[k].status = "FAILED"
                /\ \A i \in (k+1)..Len(stages) : stages[i].status = "SKIPPED"

\* VerdictMatchesStages, likewise.
Agrees ==
  pc = "idle" =>
    /\ row = "SUCCESS" => first <= Len(stages) /\ Succeeded
    /\ row = "IMAGE_READY" =>
         \A i \in first..Len(stages) :
           stages[i].status = IF stages[i].code \in {"K8S_DEPLOY", "NOTIFY"}
                              THEN "PENDING" ELSE "SUCCESS"

\* ApprovalGate; it holds after a confirmation too, as a confirmed execution
\* starts over and pauses again.
Undeployed ==
  NeedsApproval =>
    \A i \in 1..Len(stages) : stages[i].code = "K8S_DEPLOY" =>
      stages[i].status \in {"PENDING", "SKIPPED"}

EngineInv == TypeOK /\ Loop /\ Ordered /\ Agrees /\ Undeployed

LEMMA DefsTyped == Defs \in Seq(Codes) /\ Len(Defs) \in Nat /\ (Defs # <<>> => Len(Defs) >= 1)
<1>1. Defs \in Seq(Codes)
  BY StageListTyped DEF Defs
<1> QED
  BY <1>1, LenProperties, EmptySeq

LEMMA DefsGated == NeedsApproval => Gated(Defs)
BY PushPrecedesDeploy DEF NeedsApproval, Defs

LEMMA DefsFixed == [Next]_vars => Defs' = Defs /\ NeedsApproval' = NeedsApproval
<1>1. [Next]_vars => UNCHANGED fixed
  BY DEF Next, Executor, Begin, ContextFails, ContextBuilt, Unsupported, Prepare, AllDone,
         CheckStage, StageSucceeds, StageFails, Save, Deploy, Timeout, CancelRunning, vars, fixed
<1> QED
  BY <1>1 DEF fixed, Defs, NeedsApproval

LEMMA EngineInit == Init => EngineInv
<1> SUFFICES ASSUME Init PROVE EngineInv
  OBVIOUS
<1>1. stages = <<>> /\ stages \in Seq(StageRow) /\ Len(stages) = 0
  BY DEF Init
<1>2. TypeOK
  <2>1. Len(Defs) \in Nat /\ MaxExecutions \in Nat
    BY DefsTyped, EngineAssumption
  <2>2. first \in 1..(Len(stages) + 1) /\ at \in 0..(Len(Defs) + 1) /\ executions \in 0..MaxExecutions
    BY <1>1, <2>1 DEF Init
  <2> QED
    BY <1>1, <2>2 DEF Init, TypeOK
<1>3. Loop /\ Agrees /\ Undeployed
  BY <1>1 DEF Init, Loop, Agrees, Undeployed
<1>4. Ordered
  BY <1>1 DEF Init, Ordered
<1> QED
  BY <1>2, <1>3, <1>4 DEF EngineInv

\* Steps that touch no stage row.
LEMMA QuietStep ==
  ASSUME EngineInv, Defs' = Defs, NeedsApproval' = NeedsApproval,
         \/ Begin \/ ContextFails \/ ContextBuilt \/ Unsupported \/ AllDone \/ Save
         \/ Deploy \/ Timeout \/ CancelRunning \/ UNCHANGED vars
  PROVE  EngineInv'
<1> USE DEF EngineInv
<1>1. UNCHANGED <<fixed, stages, first>>
  BY DEF Begin, ContextFails, ContextBuilt, Unsupported, AllDone, Save, Deploy, Timeout,
         CancelRunning, vars, fixed
<1>2. Ordered' /\ Undeployed'
  BY <1>1 DEF Ordered, Undeployed
<1>3. /\ Len(Defs) \in Nat /\ Len(stages) \in Nat
      /\ executions \in Nat /\ MaxExecutions \in Nat /\ first \in Nat
  <2>1. stages \in Seq(StageRow) /\ executions \in 0..MaxExecutions /\ first \in 1..(Len(stages) + 1)
    BY DEF TypeOK
  <2>2. Len(stages) \in Nat
    BY <2>1, LenProperties
  <2>3. Len(Defs) \in Nat /\ MaxExecutions \in Nat
    BY DefsTyped, EngineAssumption
  <2> QED
    BY <2>1, <2>2, <2>3
<1>4. CASE Begin
  <2>1. TypeOK'
    BY <1>1, <1>3, <1>4 DEF Begin, TypeOK, fixed
  <2>2. Loop' /\ Agrees'
    BY <1>4 DEF Begin, Loop, Agrees
  <2> QED
    BY <1>2, <2>1, <2>2
<1>5. CASE ContextFails
  <2>1. TypeOK'
    BY <1>5 DEF ContextFails, TypeOK, fixed
  <2>2. Loop' /\ Agrees'
    BY <1>5 DEF ContextFails, Loop, Agrees
  <2> QED
    BY <1>2, <2>1, <2>2
<1>6. CASE ContextBuilt
  <2>1. TypeOK'
    BY <1>6 DEF ContextBuilt, TypeOK, fixed
  <2>2. Loop' /\ Agrees'
    BY <1>6 DEF ContextBuilt, Loop, Agrees
  <2> QED
    BY <1>2, <2>1, <2>2
<1>7. CASE Unsupported
  <2>1. TypeOK'
    BY <1>7 DEF Unsupported, Return, TypeOK, fixed
  <2>2. Loop' /\ Agrees'
    BY <1>7 DEF Unsupported, Return, Loop, Agrees
  <2> QED
    BY <1>2, <2>1, <2>2
<1>8. CASE AllDone
  <2>1. TypeOK'
    BY <1>8 DEF AllDone, Return, TypeOK, fixed
  <2>2. first <= Len(stages) /\ Succeeded
    <3>1. Listed /\ Split(Here - 1, "PENDING") /\ at > Len(Defs) /\ at \in Nat
      BY <1>8 DEF AllDone, Loop, TypeOK
    <3>2. Len(stages) = first + Len(Defs) - 1 /\ Len(Defs) >= 1
      BY <3>1, DefsTyped DEF Listed
    <3>3. \A i \in first..Len(stages) : i <= Here - 1
      BY <1>3, <3>1, <3>2 DEF Here
    <3> QED
      BY <1>3, <3>1, <3>2, <3>3 DEF Split, Succeeded
  <2>3. Loop' /\ Agrees'
    <3>1. Defs # <<>>
      BY <1>8 DEF AllDone, Loop, Listed
    <3>2. (first <= Len(stages) /\ Succeeded)'
      BY <1>1, <2>2 DEF Succeeded
    <3> QED
      BY <1>8, <3>1, <3>2 DEF AllDone, Return, Loop, Agrees
  <2> QED
    BY <1>2, <2>1, <2>3
<1>9. CASE Save
  <2>1. TypeOK'
    BY <1>3, <1>9 DEF Save, Verdict, Loop, TypeOK, fixed
  <2>2. Loop'
    BY <1>9 DEF Save, Loop
  <2>3. row' = "SUCCESS" => first <= Len(stages) /\ Succeeded
    BY <1>9 DEF Save, Verdict, Loop, TypeOK
  <2>4. row' = "IMAGE_READY" =>
          \A i \in first..Len(stages) :
            stages[i].status = IF stages[i].code \in {"K8S_DEPLOY", "NOTIFY"}
                               THEN "PENDING" ELSE "SUCCESS"
    <3> SUFFICES ASSUME row' = "IMAGE_READY", NEW i \in first..Len(stages)
                 PROVE  stages[i].status = IF stages[i].code \in {"K8S_DEPLOY", "NOTIFY"}
                                           THEN "PENDING" ELSE "SUCCESS"
      OBVIOUS
    <3>1. /\ Listed /\ at \in 1..Len(Defs) /\ NeedsApproval /\ Defs[at] = "PUSH_IMAGE"
          /\ Split(Here, "PENDING")
      BY <1>9 DEF Save, Verdict, Loop, TypeOK
    <3>2. /\ Len(stages) = first + Len(Defs) - 1
          /\ i - first + 1 \in 1..Len(Defs) /\ first + (i - first + 1) - 1 = i
      BY <1>3, <3>1 DEF Listed
    <3>3. stages[i].code = Defs[i - first + 1]
      BY <3>1, <3>2 DEF Listed
    <3>4. stages[i].code \in {"K8S_DEPLOY", "NOTIFY"} <=> i - first + 1 > at
      BY <3>1, <3>2, <3>3, DefsGated DEF Gated
    <3>5. (i - first + 1 > at) <=> ~(i <= Here)
      BY <1>3, <3>1 DEF Here
    <3>6. stages[i].status = IF i <= Here THEN "SUCCESS" ELSE "PENDING"
      BY <3>1 DEF Split
    <3> QED
      BY <3>4, <3>5, <3>6
  <2>5. Agrees'
    BY <1>1, <2>3, <2>4 DEF Agrees, Succeeded
  <2> QED
    BY <1>2, <2>1, <2>2, <2>5
<1>10. CASE Deploy
  <2>1. TypeOK'
    BY <1>10 DEF Deploy, TypeOK, fixed
  <2>2. Loop' /\ Agrees'
    BY <1>10 DEF Deploy, Loop, Agrees
  <2> QED
    BY <1>2, <2>1, <2>2
<1>11. CASE Timeout \/ CancelRunning \/ UNCHANGED vars
  <2>1. UNCHANGED <<at, pc, result>> /\ (pc = "idle" => UNCHANGED row)
    BY <1>11 DEF Timeout, CancelRunning, vars
  <2>2. TypeOK'
    BY <1>11 DEF Timeout, CancelRunning, TypeOK, fixed, vars
  <2>3. Listed' = Listed /\ Here' = Here /\ Succeeded' = Succeeded /\ Unpushed' = Unpushed
    BY <1>1, <2>1 DEF Listed, Here, Succeeded, Unpushed
  <2>4. \A k \in Int, s \in {"PENDING", "RUNNING"} : Split(k, s)' = Split(k, s)
    BY <1>1 DEF Split
  <2>5. Here \in Int
    BY <1>3 DEF Here, TypeOK
  <2>6. /\ Split(Here - 1, "PENDING")' = Split(Here - 1, "PENDING")
        /\ Split(Here - 1, "RUNNING")' = Split(Here - 1, "RUNNING")
        /\ Split(Here, "PENDING")' = Split(Here, "PENDING")
    BY <1>1, <2>3 DEF Split
  <2>7. Loop'
    BY <1>1, <2>1, <2>3, <2>6 DEF Loop
  <2>8. Agrees'
    BY <1>1, <2>1, <2>3 DEF Agrees
  <2> QED
    BY <1>2, <2>2, <2>7, <2>8
<1> QED
  BY <1>4, <1>5, <1>6, <1>7, <1>8, <1>9, <1>10, <1>11

LEMMA PrepareStep ==
  ASSUME EngineInv, Defs' = Defs, NeedsApproval' = NeedsApproval, Prepare
  PROVE  EngineInv'
<1> DEFINE fresh == [i \in DOMAIN Defs |-> [code |-> Defs[i], status |-> "PENDING"]]
<1>1. /\ Defs \in Seq(Codes) /\ Defs # <<>> /\ Len(Defs) \in Nat /\ Len(Defs) >= 1
      /\ DOMAIN Defs = 1..Len(Defs)
  BY DefsTyped, LenProperties DEF Prepare
<1>2. stages \in Seq(StageRow) /\ Len(stages) \in Nat
  <2>1. stages \in Seq(StageRow)
    BY DEF EngineInv, TypeOK
  <2> QED
    BY <2>1, LenProperties
<1>3. /\ fresh \in Seq(StageRow) /\ Len(fresh) = Len(Defs)
      /\ \A i \in 1..Len(Defs) : fresh[i] = [code |-> Defs[i], status |-> "PENDING"]
  BY <1>1, FreshRows
<1>4. /\ first' = Len(stages) + 1 /\ stages' = stages \o fresh /\ at' = 1 /\ pc' = "check"
      /\ UNCHANGED <<fixed, row, result, ctxDone, confirmed, executions>>
  BY DEF Prepare, Resuming
<1> HIDE DEF fresh
<1>5. /\ stages' \in Seq(StageRow) /\ Len(stages') = Len(stages) + Len(Defs)
      /\ \A i \in 1..(Len(stages) + Len(Defs)) :
           stages'[i] = IF i <= Len(stages) THEN stages[i] ELSE fresh[i - Len(stages)]
  <2>1. /\ stages \o fresh \in Seq(StageRow)
        /\ Len(stages \o fresh) = Len(stages) + Len(fresh)
        /\ \A i \in 1..(Len(stages) + Len(fresh)) :
             (stages \o fresh)[i] = IF i <= Len(stages) THEN stages[i] ELSE fresh[i - Len(stages)]
    <3>1. stages \in Seq(StageRow) /\ fresh \in Seq(StageRow)
      BY <1>2, <1>3
    <3> QED
      BY <3>1, ConcatProperties
  <2>2. stages' = stages \o fresh /\ Len(fresh) = Len(Defs)
    BY <1>3, <1>4
  <2> QED
    BY <2>1, <2>2
<1>6. \A i \in 1..Len(Defs) :
        /\ stages'[first' + i - 1].code = Defs[i]
        /\ stages'[first' + i - 1].status = "PENDING"
  <2> SUFFICES ASSUME NEW i \in 1..Len(Defs)
               PROVE  /\ stages'[first' + i - 1].code = Defs[i]
                      /\ stages'[first' + i - 1].status = "PENDING"
    OBVIOUS
  <2>1. /\ first' + i - 1 = Len(stages) + i /\ Len(stages) + i \in 1..(Len(stages) + Len(Defs))
        /\ ~(Len(stages) + i <= Len(stages)) /\ (Len(stages) + i) - Len(stages) = i
    BY <1>1, <1>2, <1>4
  <2>2. stages'[first' + i - 1] = fresh[i]
    BY <1>5, <2>1
  <2>3. fresh[i] = [code |-> Defs[i], status |-> "PENDING"]
    BY <1>3
  <2> QED
    BY <2>2, <2>3
<1>7. \A i \in first'..Len(stages') : stages'[i].status = "PENDING"
  <2> SUFFICES ASSUME NEW i \in first'..Len(stages') PROVE stages'[i].status = "PENDING"
    OBVIOUS
  <2>1. i - Len(stages) \in 1..Len(Defs) /\ first' + (i - Len(stages)) - 1 = i
    BY <1>1, <1>2, <1>4, <1>5
  <2> QED
    BY <1>6, <2>1
<1>8. TypeOK'
  <2>1. first' \in 1..(Len(stages') + 1) /\ at' \in 0..(Len(Defs) + 1)
    BY <1>1, <1>2, <1>4, <1>5
  <2> QED
    BY <1>4, <1>5, <2>1 DEF EngineInv, TypeOK, fixed
<1>9. Loop'
  <2>1. Listed'
    <3>1. Len(stages') = first' + Len(Defs) - 1
      BY <1>1, <1>2, <1>4, <1>5
    <3> QED
      BY <1>1, <1>6, <3>1 DEF Listed
  <2>2. Unpushed' /\ at' >= 1
    BY <1>4 DEF Unpushed
  <2>3. Split(Here - 1, "PENDING")'
    <3>0. first' \in Int /\ first' + 1 - 1 = first'
      BY <1>2, <1>4
    <3>1. Here' = first' /\ first' \in Int /\ first' - 1 + 1 = first'
      BY <1>4, <3>0 DEF Here
    <3>2. \A i \in first'..Len(stages') : ~(i <= first' - 1)
      <4>1. Len(stages') \in Int /\ first' \in Int
        BY <1>1, <1>2, <1>5, <3>0
      <4>2. \A f, n \in Int : \A i \in f..n : ~(i <= f - 1)
        OBVIOUS
      <4> QED
        BY <4>1, <4>2
    <3>3. \A i \in first'..Len(stages') :
            stages'[i].status = IF i <= first' - 1 THEN "SUCCESS"
                                ELSE IF i = first' - 1 + 1 THEN "PENDING" ELSE "PENDING"
      BY <1>7, <3>2
    <3> QED
      BY <3>1, <3>3 DEF Split
  <2> QED
    BY <1>4, <2>1, <2>2, <2>3 DEF Loop
<1>10. Ordered'
  <2>1. first' \in first'..(Len(stages') + 1) /\ \A i \in first'..(first' - 1) : FALSE
    BY <1>1, <1>2, <1>4, <1>5
  <2> QED
    BY <1>7, <2>1 DEF Ordered
<1>11. Agrees'
  BY <1>4 DEF Agrees
<1>12. Undeployed'
  <2> SUFFICES ASSUME NeedsApproval, NEW i \in 1..Len(stages'), stages'[i].code = "K8S_DEPLOY"
               PROVE  stages'[i].status \in {"PENDING", "SKIPPED"}
    BY DEF Undeployed
  <2>1. CASE i <= Len(stages)
    <3>1. i \in 1..Len(stages) /\ stages'[i] = stages[i]
      BY <1>1, <1>2, <1>5, <2>1
    <3> QED
      BY <3>1 DEF EngineInv, Undeployed
  <2>2. CASE i > Len(stages)
    <3>1. i \in first'..Len(stages')
      BY <1>1, <1>2, <1>4, <1>5, <2>2
    <3> QED
      BY <1>7, <3>1
  <2> QED
    BY <1>1, <1>2, <1>5, <2>1, <2>2
<1> QED
  BY <1>8, <1>9, <1>10, <1>11, <1>12 DEF EngineInv

\* While the loop runs, the current stage is a row of this execution that asks
\* for no confirmation.
LEMMA Current ==
  ASSUME EngineInv, pc \in {"check", "stage"}, at <= Len(Defs)
  PROVE  /\ stages \in Seq(StageRow) /\ Len(stages) \in Nat /\ Len(Defs) \in Nat
         /\ first \in Nat /\ first >= 1 /\ at \in 1..Len(Defs)
         /\ Here \in Nat /\ Here \in first..Len(stages) /\ Here \in 1..Len(stages)
         /\ stages[Here].code = Defs[at]
         /\ NeedsApproval => Defs[at] # "K8S_DEPLOY"
         /\ \A i \in first..Len(stages) :
              stages[i].status = IF i < Here THEN "SUCCESS"
                                 ELSE IF i = Here THEN (IF pc = "check" THEN "PENDING" ELSE "RUNNING")
                                 ELSE "PENDING"
<1>1. stages \in Seq(StageRow) /\ first \in 1..(Len(stages) + 1) /\ at \in 0..(Len(Defs) + 1)
  BY DEF EngineInv, TypeOK
<1>2. Len(stages) \in Nat
  BY <1>1, LenProperties
<1>3. Listed /\ at >= 1 /\ Unpushed
  BY DEF EngineInv, Loop
<1>4. Len(Defs) \in Nat
  BY DefsTyped
<1>5. first \in Nat /\ first >= 1 /\ at \in 1..Len(Defs)
  BY <1>1, <1>2, <1>3, <1>4
<1>6. Len(stages) = first + Len(Defs) - 1
  BY <1>3 DEF Listed
<1>7. Here \in Nat /\ Here \in first..Len(stages) /\ Here \in 1..Len(stages)
  BY <1>2, <1>4, <1>5, <1>6 DEF Here
<1>8. stages[Here].code = Defs[at]
  BY <1>3, <1>5 DEF Listed, Here
<1>9. NeedsApproval => Defs[at] # "K8S_DEPLOY"
  BY <1>3, <1>5, DefsGated DEF Gated, Unpushed
<1>10. ASSUME NEW i \in first..Len(stages)
       PROVE  stages[i].status = IF i < Here THEN "SUCCESS"
                                 ELSE IF i = Here THEN (IF pc = "check" THEN "PENDING" ELSE "RUNNING")
                                 ELSE "PENDING"
  <2>1. /\ (i <= Here - 1) <=> i < Here
        /\ (i = Here - 1 + 1) <=> i = Here
    BY <1>2, <1>5, <1>7
  <2>2. CASE pc = "check"
    <3>1. Split(Here - 1, "PENDING")
      BY <2>2 DEF EngineInv, Loop
    <3> QED
      BY <2>1, <2>2, <3>1 DEF Split
  <2>3. CASE pc = "stage"
    <3>1. Split(Here - 1, "RUNNING")
      BY <2>3 DEF EngineInv, Loop
    <3> QED
      BY <2>1, <2>3, <3>1 DEF Split
  <2> QED
    BY <2>2, <2>3
<1> QED
  BY <1>1, <1>2, <1>4, <1>5, <1>7, <1>8, <1>9, <1>10

\* markStageStatus FAILED and skipRemaining.
LEMMA FailStep ==
  ASSUME EngineInv, Defs' = Defs, NeedsApproval' = NeedsApproval,
         pc \in {"check", "stage"}, at <= Len(Defs), FailStage,
         UNCHANGED <<fixed, row, first, ctxDone, confirmed, executions>>
  PROVE  EngineInv'
<1> DEFINE h == Here
<1>1. /\ stages \in Seq(StageRow) /\ Len(stages) \in Nat
      /\ first \in Nat /\ first >= 1 /\ h \in first..Len(stages) /\ h \in 1..Len(stages)
      /\ stages[h].code = Defs[at] /\ (NeedsApproval => Defs[at] # "K8S_DEPLOY")
      /\ \A i \in first..Len(stages) : i < h => stages[i].status = "SUCCESS"
  BY Current
<1>2. /\ stages' = SkipRemaining([stages EXCEPT ![h].status = "FAILED"], h + 1)
      /\ pc' = "returned" /\ result' = "error" /\ at' = at
  BY DEF FailStage, Return
<1> HIDE DEF h
<1>3. /\ stages' \in Seq(StageRow) /\ Len(stages') = Len(stages)
      /\ \A i \in 1..Len(stages) :
           /\ stages'[i].code = stages[i].code
           /\ stages'[i].status = IF i < h THEN stages[i].status
                                  ELSE IF i = h THEN "FAILED" ELSE "SKIPPED"
  BY <1>1, <1>2, RestSkipped
<1>4. TypeOK'
  BY <1>2, <1>3 DEF EngineInv, TypeOK, fixed
<1>5. Loop' /\ Agrees'
  BY <1>2 DEF Loop, Agrees
<1>6. Ordered'
  <2>1. \A i \in first..(h - 1) : stages'[i].status = "SUCCESS"
    <3> SUFFICES ASSUME NEW i \in first..(h - 1) PROVE stages'[i].status = "SUCCESS"
      OBVIOUS
    <3>1. i \in first..Len(stages) /\ i \in 1..Len(stages) /\ i < h
      BY <1>1
    <3> QED
      BY <1>1, <1>3, <3>1
  <2>2. stages'[h].status = "FAILED" /\ h <= Len(stages) /\ h \in first..(Len(stages) + 1)
    BY <1>1, <1>3
  <2>3. \A i \in (h + 1)..Len(stages) : stages'[i].status = "SKIPPED"
    <3> SUFFICES ASSUME NEW i \in (h + 1)..Len(stages) PROVE stages'[i].status = "SKIPPED"
      OBVIOUS
    <3>1. i \in 1..Len(stages) /\ ~(i < h) /\ i # h
      BY <1>1
    <3> QED
      BY <1>3, <3>1
  <2> QED
    BY <1>3, <2>1, <2>2, <2>3 DEF Ordered
<1>7. Undeployed'
  <2> SUFFICES ASSUME NeedsApproval, NEW i \in 1..Len(stages), stages'[i].code = "K8S_DEPLOY"
               PROVE  stages'[i].status \in {"PENDING", "SKIPPED"}
    BY <1>3 DEF Undeployed
  <2>1. stages[i].code = "K8S_DEPLOY" /\ i # h
    BY <1>1, <1>3
  <2>2. stages[i].status \in {"PENDING", "SKIPPED"}
    BY <2>1 DEF EngineInv, Undeployed
  <2> QED
    BY <1>3, <2>1, <2>2
<1> QED
  BY <1>4, <1>5, <1>6, <1>7 DEF EngineInv

\* The current stage is marked running or done.
LEMMA MarkStep ==
  ASSUME EngineInv, Defs' = Defs, NeedsApproval' = NeedsApproval,
         pc \in {"check", "stage"}, at <= Len(Defs),
         NEW s \in {"RUNNING", "SUCCESS"},
         stages' = [stages EXCEPT ![Here].status = s], UNCHANGED first
  PROVE  /\ stages' \in Seq(StageRow) /\ Len(stages') = Len(stages)
         /\ \A i \in 1..Len(stages) : stages'[i].code = stages[i].code
         /\ \A i \in first..Len(stages) :
              stages'[i].status = IF i < Here THEN "SUCCESS" ELSE IF i = Here THEN s ELSE "PENDING"
         /\ Listed' /\ Ordered' /\ Undeployed'
<1> DEFINE h == Here
<1>1. /\ stages \in Seq(StageRow) /\ Len(stages) \in Nat
      /\ first \in Nat /\ first >= 1 /\ h \in first..Len(stages) /\ h \in 1..Len(stages)
      /\ stages[h].code = Defs[at] /\ (NeedsApproval => Defs[at] # "K8S_DEPLOY")
      /\ \A i \in first..Len(stages) :
           stages[i].status = IF i < h THEN "SUCCESS"
                              ELSE IF i = h THEN (IF pc = "check" THEN "PENDING" ELSE "RUNNING")
                              ELSE "PENDING"
  BY Current
<1>2. stages' = [stages EXCEPT ![h].status = s]
  OBVIOUS
<1> HIDE DEF h
<1>3. /\ stages' \in Seq(StageRow) /\ Len(stages') = Len(stages)
      /\ \A i \in 1..Len(stages) : stages'[i] = IF i = h THEN [code |-> stages[h].code, status |-> s]
                                                ELSE stages[i]
  <2> DEFINE set == [code |-> stages[h].code, status |-> s]
  <2>1. stages[h] \in StageRow
    BY <1>1, ElementOfSeq
  <2>2. set \in StageRow /\ [stages[h] EXCEPT !.status = s] = set
    BY <2>1 DEF StageRow
  <2>3. stages' = [stages EXCEPT ![h] = set]
    BY <1>2, <2>2
  <2> HIDE DEF set
  <2>4. /\ [stages EXCEPT ![h] = set] \in Seq(StageRow)
        /\ Len([stages EXCEPT ![h] = set]) = Len(stages)
        /\ \A i \in 1..Len(stages) : [stages EXCEPT ![h] = set][i] = IF i = h THEN set ELSE stages[i]
    BY <1>1, <2>2, ExceptSeq
  <2> QED
    BY <2>3, <2>4 DEF set
<1>4. \A i \in 1..Len(stages) : stages'[i].code = stages[i].code
  BY <1>3
<1>5. \A i \in first..Len(stages) :
        stages'[i].status = IF i < h THEN "SUCCESS" ELSE IF i = h THEN s ELSE "PENDING"
  <2> SUFFICES ASSUME NEW i \in first..Len(stages)
               PROVE  stages'[i].status = IF i < h THEN "SUCCESS" ELSE IF i = h THEN s ELSE "PENDING"
    OBVIOUS
  <2>1. i \in 1..Len(stages) /\ i \in Nat /\ h \in Nat
    BY <1>1
  <2>2. CASE i = h
    BY <1>3, <2>1, <2>2
  <2>3. CASE i # h
    <3>1. stages'[i] = stages[i]
      BY <1>3, <2>1, <2>3
    <3> QED
      BY <1>1, <2>3, <3>1
  <2> QED
    BY <2>2, <2>3
<1>6. Listed'
  <2>1. Listed
    BY DEF EngineInv, Loop
  <2>2. \A i \in 1..Len(Defs) : first + i - 1 \in 1..Len(stages)
    BY <1>1, <2>1, DefsTyped DEF Listed
  <2> QED
    BY <1>3, <1>4, <2>1, <2>2 DEF Listed
<1>7. Ordered'
  <2>1. CASE s = "RUNNING"
    <3>1. /\ \A i \in first..(h - 1) : stages'[i].status = "SUCCESS"
          /\ \A i \in (h + 1)..Len(stages) : stages'[i].status = "PENDING"
          /\ stages'[h].status = "RUNNING" /\ h <= Len(stages) /\ h \in first..(Len(stages) + 1)
      BY <1>1, <1>5, <2>1
    <3> QED
      BY <1>3, <3>1 DEF Ordered
  <2>2. CASE s = "SUCCESS"
    <3>1. h + 1 \in first..(Len(stages) + 1)
      BY <1>1
    <3>2. \A i \in first..((h + 1) - 1) : stages'[i].status = "SUCCESS"
      <4> SUFFICES ASSUME NEW i \in first..((h + 1) - 1) PROVE stages'[i].status = "SUCCESS"
        OBVIOUS
      <4>1. i \in first..Len(stages) /\ (i < h \/ i = h)
        BY <1>1
      <4> QED
        BY <1>5, <2>2, <4>1
    <3>3. \A i \in (h + 1)..Len(stages) : stages'[i].status = "PENDING"
      <4> SUFFICES ASSUME NEW i \in (h + 1)..Len(stages) PROVE stages'[i].status = "PENDING"
        OBVIOUS
      <4>1. i \in first..Len(stages) /\ ~(i < h) /\ i # h
        BY <1>1
      <4> QED
        BY <1>5, <4>1
    <3> QED
      BY <1>3, <3>1, <3>2, <3>3 DEF Ordered
  <2> QED
    BY <2>1, <2>2
<1>8. Undeployed'
  <2> SUFFICES ASSUME NeedsApproval, NEW i \in 1..Len(stages), stages'[i].code = "K8S_DEPLOY"
               PROVE  stages'[i].status \in {"PENDING", "SKIPPED"}
    BY <1>3 DEF Undeployed
  <2>1. stages[i].code = "K8S_DEPLOY" /\ i # h
    BY <1>1, <1>4
  <2>2. stages[i].status \in {"PENDING", "SKIPPED"}
    BY <2>1 DEF EngineInv, Undeployed
  <2> QED
    BY <1>3, <2>1, <2>2
<1> QED
  BY <1>3, <1>4, <1>5, <1>6, <1>7, <1>8 DEF h

LEMMA CheckStep ==
  ASSUME EngineInv, Defs' = Defs, NeedsApproval' = NeedsApproval, CheckStage
  PROVE  EngineInv'
<1>0. pc = "check" /\ at <= Len(Defs)
  BY DEF CheckStage
<1>1. /\ Len(stages) \in Nat /\ first \in Nat /\ at \in 1..Len(Defs)
      /\ Here \in Nat /\ Here \in first..Len(stages) /\ stages[Here].status = "PENDING"
  BY <1>0, Current
<1>2. CASE ctxDone
  <2>1. FailStage /\ UNCHANGED <<fixed, row, first, ctxDone, confirmed, executions>>
    BY <1>1, <1>2 DEF CheckStage
  <2> QED
    BY <1>0, <2>1, FailStep
<1>3. CASE ~ctxDone
  <2>1. /\ stages' = [stages EXCEPT ![Here].status = "RUNNING"] /\ pc' = "stage"
        /\ UNCHANGED <<at, result>> /\ UNCHANGED <<fixed, row, first, ctxDone, confirmed, executions>>
    BY <1>1, <1>3 DEF CheckStage
  <2>2. /\ stages' \in Seq(StageRow) /\ Len(stages') = Len(stages)
        /\ \A i \in first..Len(stages) :
             stages'[i].status = IF i < Here THEN "SUCCESS" ELSE IF i = Here THEN "RUNNING" ELSE "PENDING"
        /\ Listed' /\ Ordered' /\ Undeployed'
    BY <1>0, <2>1, MarkStep
  <2>3. TypeOK'
    BY <2>1, <2>2 DEF EngineInv, TypeOK, fixed
  <2>4. Here' = Here
    BY <2>1 DEF Here
  <2>5. \A i \in first..Len(stages) : (i <= Here - 1 <=> i < Here) /\ (i = Here - 1 + 1 <=> i = Here)
    BY <1>1
  <2>6. Split(Here - 1, "RUNNING")'
    BY <2>1, <2>2, <2>4, <2>5 DEF Split
  <2>7. Unpushed' /\ at' >= 1
    <3>1. Unpushed
      BY <1>0 DEF EngineInv, Loop
    <3> QED
      BY <1>1, <2>1, <3>1 DEF Unpushed
  <2>8. Loop' /\ Agrees'
    BY <1>0, <2>1, <2>2, <2>6, <2>7 DEF Loop, Agrees
  <2> QED
    BY <2>2, <2>3, <2>8 DEF EngineInv
<1> QED
  BY <1>2, <1>3

LEMMA SuccessStep ==
  ASSUME EngineInv, Defs' = Defs, NeedsApproval' = NeedsApproval, StageSucceeds
  PROVE  EngineInv'
<1>0. pc = "stage" /\ at <= Len(Defs)
  BY DEF StageSucceeds, EngineInv, Loop
<1>1. /\ Len(stages) \in Nat /\ Len(Defs) \in Nat /\ first \in Nat /\ at \in 1..Len(Defs)
      /\ Here \in Nat /\ Here \in first..Len(stages)
  BY <1>0, Current
<1>2. /\ stages' = [stages EXCEPT ![Here].status = "SUCCESS"]
      /\ UNCHANGED <<fixed, row, first, ctxDone, confirmed, executions>>
  BY DEF StageSucceeds
<1>3. /\ stages' \in Seq(StageRow) /\ Len(stages') = Len(stages)
      /\ \A i \in first..Len(stages) :
           stages'[i].status = IF i < Here THEN "SUCCESS" ELSE IF i = Here THEN "SUCCESS" ELSE "PENDING"
      /\ Listed' /\ Ordered' /\ Undeployed'
  BY <1>0, <1>2, MarkStep
<1>4. \A i \in first..Len(stages) :
        stages'[i].status = IF i <= Here THEN "SUCCESS" ELSE "PENDING"
  <2>1. \A i \in first..Len(stages) : i <= Here <=> i < Here \/ i = Here
    BY <1>1
  <2> QED
    BY <1>3, <2>1
<1>5. CASE PausesAfter(Defs[at])
  <2>1. pc' = "returned" /\ result' = "image_ready" /\ at' = at
    BY <1>5 DEF StageSucceeds, Return
  <2>2. TypeOK'
    BY <1>2, <1>3, <2>1 DEF EngineInv, TypeOK, fixed
  <2>3. Here' = Here
    BY <1>2, <2>1 DEF Here
  <2>4. Split(Here, "PENDING")'
    BY <1>2, <1>3, <1>4, <2>3 DEF Split
  <2>5. NeedsApproval /\ Defs[at] = "PUSH_IMAGE"
    BY <1>5 DEF PausesAfter
  <2>6. Loop' /\ Agrees'
    BY <1>1, <1>3, <2>1, <2>4, <2>5 DEF Loop, Agrees
  <2> QED
    BY <1>3, <2>2, <2>6 DEF EngineInv
<1>6. CASE ~PausesAfter(Defs[at])
  <2>1. at' = at + 1 /\ pc' = "check" /\ result' = result
    BY <1>6 DEF StageSucceeds
  <2>2. at' \in 0..(Len(Defs) + 1) /\ at' >= 1
    BY <1>1, <2>1
  <2>3. TypeOK'
    BY <1>2, <1>3, <2>1, <2>2 DEF EngineInv, TypeOK, fixed
  <2>4. Here' = Here + 1
    BY <1>1, <1>2, <2>1 DEF Here
  <2>5. Split(Here - 1, "PENDING")'
    <3>1. \A i \in first..Len(stages) :
            stages'[i].status = IF i <= Here + 1 - 1 THEN "SUCCESS"
                                ELSE IF i = Here + 1 - 1 + 1 THEN "PENDING" ELSE "PENDING"
      BY <1>1, <1>4
    <3> QED
      BY <1>2, <1>3, <2>4, <3>1 DEF Split
  <2>6. Unpushed'
    <3> SUFFICES ASSUME NeedsApproval, NEW i \in 1..Len(Defs), i < at + 1
                 PROVE  Defs[i] # "PUSH_IMAGE"
      BY <2>1 DEF Unpushed
    <3>1. CASE i = at
      BY <1>6, <3>1 DEF PausesAfter
    <3>2. CASE i # at
      <4>1. i < at
        BY <1>1, <3>2
      <4> QED
        BY <1>0, <4>1 DEF EngineInv, Loop, Unpushed
    <3> QED
      BY <3>1, <3>2
  <2>7. Loop' /\ Agrees'
    BY <1>3, <2>1, <2>2, <2>5, <2>6 DEF Loop, Agrees
  <2> QED
    BY <1>3, <2>3, <2>7 DEF EngineInv
<1> QED
  BY <1>5, <1>6

LEMMA EngineNext == EngineInv /\ [Next]_vars => EngineInv'
<1> SUFFICES ASSUME EngineInv, [Next]_vars PROVE EngineInv'
  OBVIOUS
<1>1. Defs' = Defs /\ NeedsApproval' = NeedsApproval
  BY DefsFixed
<1>2. ASSUME \/ Begin \/ ContextFails \/ ContextBuilt \/ Unsupported \/ AllDone \/ Save
             \/ Deploy \/ Timeout \/ CancelRunning \/ UNCHANGED vars
      PROVE  EngineInv'
  BY <1>1, <1>2, QuietStep
<1>3. CASE Prepare
  BY <1>1, <1>3, PrepareStep
<1>4. CASE CheckStage
  BY <1>1, <1>4, CheckStep
<1>5. CASE StageSucceeds
  BY <1>1, <1>5, SuccessStep
<1>6. CASE StageFails
  <2>1. /\ pc \in {"check", "stage"} /\ at <= Len(Defs) /\ FailStage
        /\ UNCHANGED <<fixed, row, first, ctxDone, confirmed, executions>>
    BY <1>6 DEF StageFails, EngineInv, Loop
  <2> QED
    BY <1>1, <2>1, FailStep
<1> QED
  BY <1>2, <1>3, <1>4, <1>5, <1>6 DEF Next, Executor

LEMMA EngineInvariant == Spec => []EngineInv
<1>1. Init => EngineInv
  BY EngineInit
<1>2. EngineInv /\ [Next]_vars => EngineInv'
  BY EngineNext
<1> QED
  BY <1>1, <1>2, PTL DEF Spec

-----------------------------------------------------------------------------
(* The theorems *)

\* The columns, the stage rows and the loop's index keep their types: Here is a
\* row whenever the loop uses it.
THEOREM EngineTypesCorrect == Spec => []TypeOK
<1>1. EngineInv => TypeOK
  BY DEF EngineInv
<1> QED
  BY <1>1, EngineInvariant, PTL

\* Whatever fails, times out or is canceled between two stages, the rows of an
\* execution succeeded up to a point and wait, or are skipped, after it.
THEOREM StagesAlwaysInOrder == Spec => []StagesInOrder
<1>1. ASSUME EngineInv PROVE StagesInOrder
  <2>1. stages \in Seq(StageRow) /\ first \in 1..(Len(stages) + 1) /\ Len(stages) \in Nat
    BY <1>1, LenProperties DEF EngineInv, TypeOK
  <2>2. /\ Len(Mine) = Len(stages) + 1 - first
        /\ \A i \in 1..Len(Mine) : Mine[i] = stages[first + i - 1]
    BY <2>1, SuffixRows DEF Mine
  <2>3. PICK k \in first..(Len(stages) + 1) :
          /\ \A i \in first..(k - 1) : stages[i].status = "SUCCESS"
          /\ \/ \A i \in k..Len(stages) : stages[i].status = "PENDING"
             \/ /\ k <= Len(stages)
                /\ \/ /\ stages[k].status = "RUNNING"
                      /\ \A i \in (k+1)..Len(stages) : stages[i].status = "PENDING"
                   \/ /\ stages[k].status = "FAILED"
                      /\ \A i \in (k+1)..Len(stages) : stages[i].status = "SKIPPED"
    BY <1>1 DEF EngineInv, Ordered
  <2> DEFINE n == k - first
  <2>4. n \in 0..Len(Mine) /\ n \in Nat /\ first \in Nat /\ Len(Mine) \in Nat
    BY <2>1, <2>2
  <2>5. \A i \in 1..n : Mine[i].status = "SUCCESS"
    <3> SUFFICES ASSUME NEW i \in 1..n PROVE Mine[i].status = "SUCCESS"
      OBVIOUS
    <3>1. i \in 1..Len(Mine) /\ first + i - 1 \in first..(k - 1)
      BY <2>1, <2>4
    <3> QED
      BY <2>2, <2>3, <3>1
  <2>6. \A i \in (n + 1)..Len(Mine) :
          i \in 1..Len(Mine) /\ first + i - 1 \in k..Len(stages) /\ Mine[i] = stages[first + i - 1]
    BY <2>1, <2>2, <2>4
  <2>7. \A i \in (n + 2)..Len(Mine) :
          i \in 1..Len(Mine) /\ first + i - 1 \in (k + 1)..Len(stages) /\ Mine[i] = stages[first + i - 1]
    BY <2>1, <2>2, <2>4
  <2>8. k <= Len(stages) => n < Len(Mine) /\ Mine[n + 1] = stages[k]
    <3> SUFFICES ASSUME k <= Len(stages) PROVE n < Len(Mine) /\ Mine[n + 1] = stages[k]
      OBVIOUS
    <3>1. n + 1 \in 1..Len(Mine) /\ first + (n + 1) - 1 = k /\ n < Len(Mine)
      BY <2>1, <2>2, <2>4
    <3> QED
      BY <2>2, <3>1
  <2> HIDE DEF n
  <2>9. CASE \A i \in k..Len(stages) : stages[i].status = "PENDING"
    <3>1. \A i \in (n + 1)..Len(Mine) : Mine[i].status = "PENDING"
      BY <2>6, <2>9
    <3> QED
      BY <2>4, <2>5, <3>1 DEF StagesInOrder
  <2>10. CASE /\ k <= Len(stages) /\ stages[k].status = "RUNNING"
              /\ \A i \in (k+1)..Len(stages) : stages[i].status = "PENDING"
    <3>1. \A i \in (n + 2)..Len(Mine) : Mine[i].status = "PENDING"
      BY <2>7, <2>10
    <3>2. n < Len(Mine) /\ Mine[n + 1].status = "RUNNING"
      BY <2>8, <2>10
    <3> QED
      BY <2>4, <2>5, <3>1, <3>2 DEF StagesInOrder
  <2>11. CASE /\ k <= Len(stages) /\ stages[k].status = "FAILED"
              /\ \A i \in (k+1)..Len(stages) : stages[i].status = "SKIPPED"
    <3>1. \A i \in (n + 2)..Len(Mine) : Mine[i].status = "SKIPPED"
      BY <2>7, <2>11
    <3>2. n < Len(Mine) /\ Mine[n + 1].status = "FAILED"
      BY <2>8, <2>11
    <3> QED
      BY <2>4, <2>5, <3>1, <3>2 DEF StagesInOrder
  <2> QED
    BY <2>3, <2>9, <2>10, <2>11
<1> QED
  BY <1>1, EngineInvariant, PTL

\* The verdict saved on the pipeline agrees with the rows saved before it.
THEOREM VerdictsMatchStages == Spec => []VerdictMatchesStages
<1>1. ASSUME EngineInv PROVE VerdictMatchesStages
  <2>1. stages \in Seq(StageRow) /\ first \in 1..(Len(stages) + 1) /\ Len(stages) \in Nat
    BY <1>1, LenProperties DEF EngineInv, TypeOK
  <2>2. /\ Len(Mine) = Len(stages) + 1 - first /\ DOMAIN Mine = 1..Len(Mine)
        /\ \A i \in 1..Len(Mine) : first + i - 1 \in first..Len(stages) /\ Mine[i] = stages[first + i - 1]
    BY <2>1, SuffixRows DEF Mine
  <2>3. first <= Len(stages) => Mine # <<>>
    BY <2>1, <2>2
  <2> QED
    BY <1>1, <2>2, <2>3 DEF EngineInv, Agrees, Succeeded, VerdictMatchesStages
<1> QED
  BY <1>1, EngineInvariant, PTL

\* In a mode that asks for a confirmation no deployment stage has run without one.
THEOREM ApprovalIsAwaited == Spec => []ApprovalGate
<1>1. ASSUME EngineInv PROVE ApprovalGate
  <2>1. DOMAIN stages = 1..Len(stages)
    BY <1>1, LenProperties DEF EngineInv, TypeOK
  <2> QED
    BY <1>1, <2>1 DEF EngineInv, Undeployed, ApprovalGate
<1> QED
  BY <1>1, EngineInvariant, PTL
=============================================================================
