---------------------------- MODULE MCAlertIngest ----------------------------
(* AlertIngest on small sets. *)
EXTENDS AlertIngest

CONSTANTS t1, t2, v1, i1, m1, m2, dns, logins

Observation(id, series, at, value) ==
    [id |-> id, series |-> series, at |-> at, value |-> value]

\* e2 stands out once e1 has taught the baseline.
e1 == Observation(1, dns, 0, 0)
e2 == Observation(2, dns, 1, 9)
MCEvents == {e1, e2}
\* What else analyze() is compared on: values of one moment, values that rise and fall,
\* and a second series.
MCObservations ==
    MCEvents \cup {Observation(3, dns, 1, 30), Observation(4, dns, 1, 0),
                   Observation(5, dns, 2, 9), Observation(6, dns, 2, 40),
                   Observation(7, dns, 3, 0), Observation(8, logins, 0, 9),
                   Observation(9, logins, 1, 20)}

MCOwner == [x \in Monitors \cup Events \cup Items |-> IF x = m2 THEN t2 ELSE t1]
MCMatches == (Entries \X Monitors) \cup (Items \X {m1})
\* Any two kinds of handlers meet, with each other and with themselves.
MCMixes == {{"telemetry", "kev"}, {"telemetry", "exposure"}, {"kev", "exposure"}}

Symmetry == Permutations(Requests)
=============================================================================
