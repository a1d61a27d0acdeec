----------------------------- MODULE BuildQueue -----------------------------
(***************************************************************************)
(* What the build scheduler promises for pipelines that deploy without a   *)
(* confirmation: every job waits, is active in one of a fixed number of    *)
(* slots, and is then done for good.  A waiting job leaves without running *)
(* only if its cancellation is on record.  A crash ends the active jobs or *)
(* puts them back, and keeps every waiting job that is not canceled.       *)
(***************************************************************************)
EXTENDS Naturals, FiniteSets

CONSTANTS Jobs, Slots

VARIABLES
  stage,   \* [Jobs -> Stages]
  wish     \* jobs whose cancellation is on record

Stages == {"new", "waiting", "active", "done"}

In(s) == {j \in Jobs : stage[j] = s}

Init ==
  /\ stage = [j \in Jobs |-> "new"]
  /\ wish = {}

Move(j, from, to) ==
  /\ stage[j] = from
  /\ stage' = [stage EXCEPT ![j] = to]

Submit(j) == Move(j, "new", "waiting") /\ j \notin wish'

Start(j) == Move(j, "waiting", "active") /\ Cardinality(In("active")) < Slots

Finish(j) == Move(j, "active", "done")

Withdraw(j) == Move(j, "waiting", "done") /\ j \in wish'

Crash ==
  stage' \in {s \in [Jobs -> Stages] : \A j \in Jobs :
    /\ stage[j] = "waiting" => s[j] = "waiting" \/ (s[j] = "done" /\ j \in wish)
    /\ stage[j] = "active" => s[j] \in {"waiting", "done"}
    /\ stage[j] \in {"new", "done"} => s[j] = stage[j]}

\* Cancellations are recorded, and may be overwritten, at any time.
Next ==
  /\ wish' \in SUBSET Jobs
  /\ \/ \E j \in Jobs : Submit(j) \/ Start(j) \/ Finish(j) \/ Withdraw(j)
     \/ Crash
     \/ UNCHANGED stage

Spec == Init /\ [][Next]_<<stage, wish>>
=============================================================================
