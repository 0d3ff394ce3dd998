------------------------------ MODULE MCReach -------------------------------
(***************************************************************************)
(* Instances of Reach. Many small networks for one thread, so that costs   *)
(* tie, fall and exceed the reach in every order; and one network for      *)
(* two threads with different runtimes, so that searches, puts, evictions  *)
(* and panics interleave.                                                  *)
(***************************************************************************)
EXTENDS Reach, TLC

CONSTANTS car, bus, w1, w2

MCNode == 1 .. 4

Ask(root, leaf, runtime) == [root |-> root, leaf |-> leaf, runtime |-> runtime]

R(from, to, weight, length, open) ==
    [from |-> from, to |-> to, weight |-> weight, length |-> length, open |-> open]

\* 1 forks to 2 and 3, which are linked both ways; 4 lies behind either.
ForksOf(classes, last) ==
    {{R(1, 2, a[1], a[2], {car}), R(1, 3, b[1], b[2], {car}),
      R(2, 3, c[1], c[2], {car}), R(3, 2, d[1], d[2], {car}),
      R(2, 4, e[1], e[2], {car}), R(3, 4, last, 1, {bus, car})} :
        a, b, c, d, e \in classes \X {1, 2}}

\* Two classes, of which the heavier saturates; and one class whose cost saturates
\* exactly at the reach.
Forks == ForksOf({1, 5}, 1) \cup ForksOf({3}, 3)

\* A ring whose roads are not all open to both runtimes.
Ring ==
    {R(1, 2, 1, 1, {car, bus}), R(2, 3, 5, 1, {bus}), R(3, 1, 1, 1, {car, bus}),
     R(1, 3, 5, 1, {car}), R(2, 2, 1, 1, {car, bus})}

MCWorkloads ==
    {[roads |-> f, asks |-> (w1 :> <<Ask(1, 4, car), Ask(1, 2, car)>> @@ w2 :> <<>>)] : f \in Forks}
    \cup
    {[roads |-> Ring,
      asks |-> (w1 :> <<Ask(1, 3, car), Ask(2, 3, car)>> @@ w2 :> <<Ask(2, 1, r), Ask(1, 3, s)>>)] :
        r, s \in {car, bus}}
=============================================================================
