----------------------------- MODULE MCRotation -----------------------------
EXTENDS Rotation

\* Two manifests that differ in their namespace only.
MCManifests == <<"cluster", "namespaced">>
MCScope == [m \in {"cluster", "namespaced"} |-> m]
\* The number of scalar rows is all, or just above one of the budget's steps.
Upto(n) == [f \in Fields |-> IF f <= n THEN "scalar" ELSE "none"]
MCLives(m) == IF m = "cluster" THEN {Upto(17), Upto(5), [f \in Fields |-> IF f \in {2, 4, 7} THEN "scalar" ELSE "none"]} ELSE {Upto(3)}
MCShuffle(seed, key, n) == [i \in 0..(n - 1) |-> IF seed = 1 THEN i ELSE n - 1 - i]
=============================================================================
