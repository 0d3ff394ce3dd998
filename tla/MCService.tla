----------------------------- MODULE MCService -----------------------------
(* Instances of Service for TLC. *)
EXTENDS Service, TLC

CONSTANTS v1, v2, a, b

Row(v, t) == [vehicle |-> v, timestamp |-> t]

\* A vehicle with more observations than the viewer keeps, two vehicles, and a
\* row that is replayed twice.
MCInputs == {[rows |-> <<Row(v1, 1), Row(v1, 2), Row(v1, 3)>>, loops |-> 1],
             [rows |-> <<Row(v1, 1), Row(v2, 1)>>, loops |-> 1],
             [rows |-> <<Row(v2, 1)>>, loops |-> 2]}

\* One vehicle whose events arrive in order, with room for all of them.
MCInOrder == {[rows |-> <<Row(v1, 1), Row(v1, 2), Row(v1, 3)>>, loops |-> 1]}

\* The pods are interchangeable.
PodSymmetry == Permutations(Pods)
============================================================================
