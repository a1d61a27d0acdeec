------------------------------ MODULE RunLocks ------------------------------
(***************************************************************************)
(* What the rules at the top of engine/runtime/manager.go promise: runs    *)
(* hold targets, a run of everything ("all") holds alone, a target has one *)
(* holder.  A crash frees everything.                                      *)
(***************************************************************************)
CONSTANTS Runs, Names

VARIABLE held   \* the target of each run; "none" when it has no lock

Targets == Names \cup {"all"}

Compatible(t, u) == t # "all" /\ u # "all" /\ t # u

Init == held = [r \in Runs |-> "none"]

Claim(r, t) ==
  /\ held[r] = "none"
  /\ \A q \in Runs : held[q] # "none" => Compatible(t, held[q])
  /\ held' = [held EXCEPT ![r] = t]

Free(r) == held[r] # "none" /\ held' = [held EXCEPT ![r] = "none"]

LoseAll == held' = [r \in Runs |-> "none"]

Next ==
  \/ \E r \in Runs : (\E t \in Targets : Claim(r, t)) \/ Free(r)
  \/ LoseAll

Spec == Init /\ [][Next]_held
=============================================================================
