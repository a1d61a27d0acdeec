-------------------------- MODULE MCBuildScheduler --------------------------
(* Model values and bounds for TLC runs of BuildScheduler. *)
EXTENDS BuildScheduler, TLC

CONSTANTS p1, p2, p3, g1, g2, g3, c1, c2, app1

TwoPids == {p1, p2}
ThreePids == {p1, p2, p3}
OneGoroutine == {g1}
TwoGoroutines == {g1, g2}
ThreeGoroutines == {g1, g2, g3}
OneClient == {c1}
TwoClients == {c1, c2}
OneApp == [p \in Pids |-> app1]
Nobody == {}
OnlyFirst == {p1}
NoLimits == {}
ZeroAndOne == {0, 1}

\* Goroutines and requests are interchangeable.
Symmetry == Permutations(Goroutines) \cup Permutations(Clients)
=============================================================================
