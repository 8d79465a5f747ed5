------------------------- MODULE VerificationEvidence -------------------------
(***************************************************************************)
(* One verification: Service.Verify (internal/verification) obtains a      *)
(* credential from the Datadog broker (pkg/credentials), the Datadog       *)
(* adapter (adapters/datadog) queries the metric, and the points returned  *)
(* become evidence with one of four statuses.                              *)
(*                                                                         *)
(* Times are in half minutes, the broker's margin.  A value is an integer; *)
(* an average is kept as a sum and a count.  Hashes and texts are left     *)
(* out.                                                                    *)
(***************************************************************************)
EXTENDS Integers, FiniteSets

CONSTANTS
    Comparators,  \* of "lte", "gte"
    Modes,        \* aggregations, of "last", "avg", "max"
    Minimums,     \* values of MinimumPoints
    Ages,         \* values of MaximumAge
    Threshold,
    From, To,     \* the observation window
    Times,        \* when a point may be
    Values,       \* what a point may be
    MaxPoints,    \* points in a response
    Lifetimes,    \* when the credential may expire
    MaxTime       \* time considered

Parameters ==
    /\ Comparators \subseteq {"lte", "gte"} /\ Modes \subseteq {"last", "avg", "max"}
    /\ Minimums \subseteq Nat \ {0} /\ Ages \subseteq Nat \ {0}
    /\ Times \subseteq Nat /\ Values \subseteq Int /\ Threshold \in Int
    /\ {From, To, MaxPoints, MaxTime} \subseteq Nat /\ Lifetimes \subseteq Nat

ASSUME EvidenceAssumption == Parameters

VARIABLES
    query,    \* the catalog's query for the target
    now,
    expires,  \* when the credential that was acquired expires
    pc,
    points,   \* the points of the answer, in its order
    left,     \* the good points that aggregate has still to read
    value,    \* what it has found in the others
    status    \* of the evidence, "none" before and "error" without evidence

inquiry == <<query, expires>>
series == <<points, left, value>>
evidenceVars == <<inquiry, now, pc, series, status>>

\* A point is good when it is a pair of finite numbers.
Missing == [good |-> FALSE, at |-> 0, value |-> 0]
RawPoints == [good : {TRUE}, at : Times, value : Values] \cup {Missing}

EvidenceInit ==
    /\ query \in [comparator : Comparators, mode : Modes, minimum : Minimums, age : Ages]
    /\ now = 0
    /\ expires \in Lifetimes
    /\ pc = "acquiring"
    /\ points = <<>>
    /\ left = {}
    /\ value = 0
    /\ status = "none"

-----------------------------------------------------------------------------

Return(answer) ==
    /\ status' = answer
    /\ pc' = "done"

\* Credential.ValidAt
ValidAt(time) == time < expires

\* DatadogBroker.Acquire: the credential must last for another half minute.
Acquire ==
    /\ pc = "acquiring"
    /\ IF ValidAt(now + 1) THEN pc' = "checking" /\ UNCHANGED status ELSE Return("error")
    /\ UNCHANGED <<inquiry, now, series>>

\* Any other refusal: the target, the catalog, the window or the source file.
Refuse ==
    /\ pc \in {"acquiring", "checking"}
    /\ Return("error") \/ (pc = "checking" /\ Return("MISSING"))
    /\ UNCHANGED <<inquiry, now, series>>

\* The adapter checks the credential again and sends the query.
Send ==
    /\ pc = "checking"
    /\ IF ValidAt(now) THEN pc' = "asking" /\ UNCHANGED status ELSE Return("error")
    /\ UNCHANGED <<inquiry, now, series>>

\* No answer, 429, 5xx or a malformed body; any other status is an error.
SourceFails ==
    /\ pc = "asking"
    /\ Return("INCONCLUSIVE") \/ Return("error")
    /\ UNCHANGED <<inquiry, now, series>>

\* A well-formed answer, its series one after the other.
Answered ==
    /\ pc = "asking"
    /\ \E n \in 0 .. MaxPoints : points' \in [1 .. n -> RawPoints]
    /\ pc' = "judging"
    /\ UNCHANGED <<inquiry, now, left, value, status>>

TimePasses ==
    /\ now < MaxTime
    /\ pc \in {"acquiring", "checking"}
    /\ now' = now + 1
    /\ UNCHANGED <<inquiry, pc, series, status>>

-----------------------------------------------------------------------------
(* From points to a verdict *)

\* flattenPoints keeps the good points.
flattenPoints == {i \in DOMAIN points : points[i].good}

Newest == {i \in flattenPoints : \A j \in flattenPoints : points[j].at <= points[i].at}

\* The newest point is too old, before the window, or a minute after it.
Stale ==
    \E i \in Newest :
        LET latest == points[i].at
        IN To - latest > query.age \/ latest < From \/ latest > To + 2

\* Too few points, or stale ones; others are aggregated.
Judge ==
    /\ pc = "judging"
    /\ IF flattenPoints = {}
       THEN Return("MISSING") /\ UNCHANGED left
       ELSE IF Cardinality(flattenPoints) < query.minimum \/ Stale
       THEN Return("INCONCLUSIVE") /\ UNCHANGED left
       ELSE pc' = "reading" /\ left' = flattenPoints /\ UNCHANGED status
    /\ UNCHANGED <<inquiry, now, points, value>>

\* Mutation: the maximum starts from zero.
aggregateFromZero(next) ==
    value' = CASE query.mode = "last" -> next
               [] query.mode = "avg" -> value + next
               [] query.mode = "max" -> IF next > value THEN next ELSE value

\* The maximum starts from the first point.
aggregate(next) ==
    value' = CASE query.mode = "last" -> next
               [] query.mode = "avg" -> value + next
               [] query.mode = "max" -> IF left = flattenPoints \/ next > value THEN next ELSE value

\* The next point in the order of time.  sort.Slice is not stable, so any of those
\* with the same time may come first.
Read(i) ==
    /\ pc = "reading"
    /\ i \in left /\ \A j \in left : points[i].at <= points[j].at
    /\ aggregate(points[i].value)
    /\ left' = left \ {i}
    /\ UNCHANGED <<inquiry, now, pc, points, status>>

\* The sum is compared as an average.
compare ==
    LET bound == IF query.mode = "avg" THEN Threshold * Cardinality(flattenPoints) ELSE Threshold
    IN IF \/ query.comparator = "lte" /\ value <= bound
          \/ query.comparator = "gte" /\ value >= bound
       THEN "PASS" ELSE "FAIL"

Decide ==
    /\ pc = "reading" /\ left = {}
    /\ Return(compare)
    /\ UNCHANGED <<inquiry, now, series>>

EvidenceNext ==
    \/ Acquire \/ Refuse \/ Send \/ SourceFails \/ Answered \/ TimePasses \/ Judge \/ Decide
    \/ \E i \in left : Read(i)

EvidenceSpec == EvidenceInit /\ [][EvidenceNext]_evidenceVars

-----------------------------------------------------------------------------
(* Properties *)

Meets(p) == IF query.comparator = "lte" THEN p.value <= Threshold ELSE p.value >= Threshold

\* PASS and FAIL rest on enough points, the newest of them in the window, and on
\* values that bear the verdict out; an outage, silence or old data give neither
\* ("Missing or inconclusive Datadog evidence cannot become PASS").
VerdictIsEarned ==
    LET good == {i \in DOMAIN points : points[i].good}
        newest == {i \in good : \A j \in good : points[j].at <= points[i].at}
        met == {i \in good : Meets(points[i])}
        worst == query.mode = "max" /\ query.comparator = "lte"
        best == query.mode = "max" /\ query.comparator = "gte"
    IN status \in {"PASS", "FAIL"} =>
         /\ Cardinality(good) >= query.minimum
         /\ \A i \in newest : points[i].at \in From .. To + 2 /\ points[i].at >= To - query.age
         /\ status = "PASS" =>
              /\ met # {}
              /\ worst => met = good
              /\ query.mode = "last" => met \cap newest # {}
         /\ status = "FAIL" =>
              /\ met # good
              /\ best => met = {}
              /\ query.mode = "last" => newest \ met # {}
=============================================================================
