------------------------------- MODULE MCTrip -------------------------------
(* Instances of Trip for TLC. *)
EXTENDS Trip, TLC

\* One or two candidates; ties, a clear winner, and weights that add up to
\* infinity (3) without any edge missing.
SomeEmissions == {<<0>>, <<1>>, <<0, 1>>, <<1, 0>>, <<1, 1>>}
SomeTransitions == {<<0>>, <<2>>, <<3>>, <<0, 2>>, <<2, 0>>, <<0, 3>>, <<3, 0>>,
                    <<2, 2>>, <<3, 3>>}
=============================================================================
