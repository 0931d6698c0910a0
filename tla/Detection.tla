------------------------------ MODULE Detection ------------------------------
(***************************************************************************)
(* analyze() of services/detection.py: which events of a tenant stand out  *)
(* from what was observed before them.  A series is an entity and a        *)
(* metric; each is scanned in the order of time, against the median and    *)
(* the median absolute deviation of its latest values.                     *)
(*                                                                         *)
(* Values are integers and medians are kept as multiples, so that the      *)
(* comparison with 3.5 deviations is exact.  Of the scores only that       *)
(* comparison is kept; forecasts are left out.                             *)
(***************************************************************************)
EXTENDS Integers, SequencesExt

CONSTANTS
    Observations, \* bound: the events there can be
    Warmup,       \* earlier samples a finding needs, 20
    Horizon,      \* samples a baseline is made from, 200
    MaxFindings   \* findings that are returned, 200

ASSUME DetectionAssumption ==
    /\ IsFiniteSet(Observations)
    /\ \A e \in Observations :
         DOMAIN e = {"id", "series", "at", "value"} /\ e.id \in Nat /\ e.at \in Nat
         /\ e.value \in Nat
    /\ \A e, f \in Observations : e.id = f.id => e = f
    /\ Warmup \in Nat \ {0} /\ Horizon \in Nat \ {0} /\ MaxFindings \in Nat

-----------------------------------------------------------------------------
Magnitude(n) == IF n < 0 THEN 0 - n ELSE n

\* The k-th of the sorted values of h.
Nth(h, k) == CHOOSE v \in ToSet(h) : /\ Cardinality({i \in DOMAIN h : h[i] < v}) < k
                                     /\ Cardinality({i \in DOMAIN h : h[i] <= v}) >= k

\* Twice the median.
Median2(h) == Nth(h, (Len(h) + 1) \div 2) + Nth(h, Len(h) \div 2 + 1)

\* Mutant: a value far below its baseline stands out, too.
FlaggedEitherWay(value, h) ==
    LET b == Median2(h)
        m == Median2([i \in DOMAIN h |-> Magnitude(2 * h[i] - b)])
        d == Magnitude(4 * value - 2 * b)
    IN  20000 * d >= 103782 * m /\ 20 * d >= 7 * b /\ d >= 14

\* The value exceeds the median of h by 3.5 times the largest of 1.4826 deviations, a
\* twentieth of the median, and 1.  (b is twice the median, m four times the deviation,
\* d four times the distance.)
Flagged(value, h) ==
    LET b == Median2(h)
        m == Median2([i \in DOMAIN h |-> Magnitude(2 * h[i] - b)])
        d == 4 * value - 2 * b
    IN  20000 * d >= 103782 * m /\ 20 * d >= 7 * b /\ d >= 14

Latest(h) == SubSeq(h, IF Len(h) > Horizon THEN Len(h) - Horizon + 1 ELSE 1, Len(h))

\* The observations of one moment, in the order of their identifiers.
ById(S) == CHOOSE q \in [1..Cardinality(S) -> S] :
               \A i, j \in DOMAIN q : i < j => q[i].id < q[j].id
Moment(S, t) == ById({e \in S : e.at = t})

ValuesOf(batch) == [i \in DOMAIN batch |-> batch[i].value]

\* Mutant: the events of a moment train each other.
ScanTrained(past, batch) ==
    LET history == past.history \o ValuesOf(batch)
    IN  [history |-> history,
         found |-> past.found \cup
                     {e \in ToSet(batch) : /\ Len(history) >= Warmup
                                           /\ Flagged(e.value, Latest(history))}]

\* "Equal-time observations never train each other": all of a moment are compared with
\* what came before, then all of them are added.
Scan(past, batch) ==
    [history |-> past.history \o ValuesOf(batch),
     found |-> past.found \cup
                 {e \in ToSet(batch) : /\ Len(past.history) >= Warmup
                                       /\ Flagged(e.value, Latest(past.history))}]

\* What the scan of a series has got when it comes to moment n.
Scanned(S, n) ==
    LET scan[t \in 0..n] == IF t = 0 THEN [history |-> <<>>, found |-> {}]
                            ELSE Scan(scan[t - 1], Moment(S, t - 1))
    IN  scan[n]

\* After the last moment.
FoundIn(S) == UNION {Scanned(S, e.at + 1).found : e \in S}

SeriesOf(S, s) == {e \in S : e.series = s}
Found(S) == {e \in S : e \in FoundIn(SeriesOf(S, e.series))}

\* The newest findings; which of those of one moment come first depends on scores.
Anomalies(S) ==
    LET F == Found(S)
        n == Cardinality(F)
    IN  {R \in SUBSET F :
           /\ Cardinality(R) = IF n > MaxFindings THEN MaxFindings ELSE n
           /\ \A e \in R, f \in F \ R : f.at <= e.at}

-----------------------------------------------------------------------------
(* What is expected of the findings among the events S. *)

Earlier(S, e) == {f \in SeriesOf(S, e.series) : f.at < e.at}

\* Whether e is a finding depends on what its series showed before it, nothing else.
WithoutHindsight(S) ==
    \A e \in S : e \in Found(S) <=> e \in Found({e} \cup Earlier(S, e))

\* A finding has enough samples before it and exceeds at least half of the latest.
Exceeding(S) ==
    \A e \in Found(S) :
        LET past == Earlier(S, e)
            later(f) == {g \in past : g.at > f.at \/ (g.at = f.at /\ g.id > f.id)}
            recent == {f \in past : Cardinality(later(f)) < Horizon}
            below == {f \in recent : f.value < e.value}
        IN  Cardinality(past) >= Warmup /\ 2 * Cardinality(below) >= Cardinality(recent)
=============================================================================
