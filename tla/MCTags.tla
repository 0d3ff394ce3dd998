------------------------------- MODULE MCTags -------------------------------
(* Instances of Tags for TLC. *)
EXTENDS Tags

\* Tags on the chain of a truck, in one direction or in both, one of them
\* about something that is neither a mode's way nor a direction of travel.
AccessOf(keys, values) == [keys -> values]
SomeAccess ==
    AccessOf({<<"hgv">>, <<"hgv", "forward">>}, {"yes", "no", "private"})
    \cup AccessOf({<<"motor_vehicle">>, <<"access">>, <<"hgv", "left">>}, {"yes", "no"})
    \cup AccessOf({<<"motor_vehicle", "backward">>, <<"motor_vehicle">>, <<"foot">>},
                  {"yes", "designated"})

Lane(n, unit) == [num |-> n, unit |-> unit, words |-> <<>>]
Winter == [num |-> 60, unit |-> "@", words |-> <<Open, Word("winter"), Close>>]
SpeedsOf(keys, values) == [keys -> values]
SomeSpeeds ==
    SpeedsOf({<<"maxspeed">>, <<"maxspeed", "conditional">>, <<"maxspeed", "hgv">>},
             {<<Lane(100, "")>>, <<Lane(80, "")>>, <<Winter>>})
    \cup SpeedsOf({<<"maxspeed", "hgv">>, <<"maxspeed", "lanes">>}, {<<Lane(50, "mph")>>, <<Lane(-1, "")>>})
    \cup SpeedsOf({<<"maxspeed", "hgv">>, <<"maxspeed", "forward">>}, {<<Lane(50, "knots")>>, <<Lane(80, "")>>})

SomeWays ==
    {[access |-> a, speeds |-> [k \in {<<"maxspeed">>} |-> <<Lane(100, "")>>]] : a \in SomeAccess}
    \cup {[access |-> [k \in {<<"hgv">>} |-> "yes"], speeds |-> s] : s \in SomeSpeeds}

T(h, m) == [hour |-> h, minute |-> m]
Day(d) == [kind |-> "days", form |-> "single", days |-> <<d>>]
Days(form, d) == [kind |-> "days", form |-> form, days |-> d]
At(spans) == [kind |-> "times", spans |-> spans]
Num(n) == [kind |-> "num", n |-> n, unit |-> "none"]

SomeHours ==
    {<<Anytime>>,
     <<At(<<<<T(22, 0), T(6, 0)>>>>)>>,
     <<Day("Fr"), At(<<<<T(20, 0), T(2, 30)>>>>)>>,
     <<Days("list", <<"Mo", "We">>), At(<<<<T(8, 0), T(12, 0)>>, <<T(13, 0), T(24, 0)>>>>)>>,
     <<Days("range", <<"Mo", "Fr">>), At(<<<<T(9, 0), T(17, 0)>>>>)>>,
     <<Day("Mo"), At(<<<<T(23, 15)>>>>), Separator, Word("closed")>>,
     <<Day("Mo"), At(<<<<T(25, 0), T(2, 0)>>>>)>>,
     <<At(<<<<T(24, 0)>>>>)>>}
SomeTimes == {T(0, 0), T(0, 15), T(2, 30), T(2, 31), T(6, 0), T(8, 0), T(12, 30), T(22, 0),
              T(23, 15), T(23, 59), T(24, 0)}

Atoms ==
    {<<Word("winter")>>, <<Word("wet")>>, <<Word("hazmat")>>, <<Word("residents")>>,
     <<Word("weight"), Op("<="), Num(7)>>, <<Word("occupants"), Op(">="), Num(3)>>,
     <<Word("stay"), Op("<"), Num(2), Word("hours")>>,
     <<At(<<<<T(22, 0), T(6, 0)>>>>)>>,
     <<Day("Mo"), At(<<<<T(8, 0), T(9, 0)>>>>)>>,
     <<Day("Su"), [kind |-> "comment"]>>}
Joined(a, op, b) == a \o <<Word(op)>> \o b
Pairs == {Joined(a, op, b) : a \in Atoms, op \in {"AND", "OR"}, b \in Atoms}
Few == {<<Word("winter")>>, <<Word("weight"), Op("<="), Num(7)>>}
SomeTexts ==
    Atoms \cup {<<Open>> \o t \o <<Close>> : t \in Pairs} \cup Pairs
    \cup {Joined(p, op, a) : p \in {Joined(a, o, b) : a \in Few, o \in {"AND", "OR"}, b \in Few},
                             op \in {"AND", "OR"}, a \in Few}
    \cup {Joined(<<Open>> \o a \o <<Close>>, "AND", <<Open>> \o b \o <<Close>>) : a \in Few, b \in Few}
=============================================================================
