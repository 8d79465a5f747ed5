-------------------------- MODULE AuthorityProofs ---------------------------
(***************************************************************************)
(* Proofs about what a write and a verdict rest on. RunnerAuthority has    *)
(* its safety properties for any bundles, users and restarts, and          *)
(* VerificationEvidence for any points and queries.                        *)
(***************************************************************************)
EXTENDS VerificationEvidence, RunnerAuthority, FiniteSetTheorems, TLAPS

EvidenceTypes ==
    /\ query \in [comparator : Comparators, mode : Modes, minimum : Minimums, age : Ages]
    /\ \E n \in Nat : points \in [1 .. n -> RawPoints]
    /\ left \subseteq flattenPoints
    /\ value \in Int
    /\ pc # "done" => status = "none"

\* The points that aggregate has read.
Done == flattenPoints \ left

\* They are older than the ones left, and the value is what the mode says of them.
LastIs ==
    Done # {} => \E i \in Done : points[i].value = value /\ \A j \in Done : points[j].at <= points[i].at

MaxIs ==
    Done # {} => /\ \E i \in Done : points[i].value = value
                 /\ \A j \in Done : points[j].value <= value

\* A sum stays on the side of the threshold on which all its terms are.
SumIs ==
    LET bound == Threshold * Cardinality(Done) IN
    /\ (\A i \in Done : points[i].value <= Threshold) => value <= bound
    /\ (\A i \in Done : points[i].value >= Threshold) => value >= bound
    /\ Done # {} /\ (\A i \in Done : points[i].value > Threshold) => value > bound
    /\ Done # {} /\ (\A i \in Done : points[i].value < Threshold) => value < bound

Reading ==
    /\ flattenPoints # {}
    /\ Cardinality(flattenPoints) >= query.minimum
    /\ ~ Stale
    /\ \A i \in Done : \A j \in left : points[i].at <= points[j].at
    /\ query.mode = "last" => LastIs
    /\ query.mode = "max" => MaxIs
    /\ query.mode = "avg" => SumIs

EvidenceInv ==
    /\ EvidenceTypes
    /\ pc \in {"acquiring", "checking", "asking", "judging"} => left = {} /\ value = 0
    /\ pc = "reading" => Reading
    /\ VerdictIsEarned

-----------------------------------------------------------------------------

\* What is kept of an answer: finitely many points with a time and a value.
LEMMA GoodPoints ==
  ASSUME Parameters, EvidenceTypes
  PROVE  /\ IsFiniteSet(flattenPoints) /\ Cardinality(flattenPoints) \in Nat
         /\ \A i \in flattenPoints : points[i].at \in Nat /\ points[i].value \in Int
<1>1. PICK n \in Nat : points \in [1 .. n -> RawPoints]
  BY Zenon DEF EvidenceTypes
<1>2. flattenPoints \in SUBSET (1 .. n)
  BY <1>1, Zenon DEF flattenPoints
<1>3. IsFiniteSet(flattenPoints)
  <2>1. IsFiniteSet(1 .. n)
    BY <1>1, FS_Interval
  <2>2. QED
    BY <1>2, <2>1, FS_Subset, Zenon
<1>4. ASSUME NEW i \in flattenPoints PROVE points[i].at \in Nat /\ points[i].value \in Int
  <2>1. points[i] \in RawPoints /\ points[i].good
    BY <1>1, Zenon DEF flattenPoints
  <2>2. points[i] \in [good : {TRUE}, at : Times, value : Values]
    <3>1. ~ Missing.good
      BY Zenon DEF Missing
    <3>2. QED
      BY <2>1, <3>1, Zenon DEF RawPoints
  <2>3. QED
    BY <2>2, Zenon DEF Parameters
<1>5. QED
  BY <1>3, <1>4, FS_CardinalityType, Zenon

\* The points read are finitely many too, and reading one adds it to them.
LEMMA ReadOne ==
  ASSUME Parameters, EvidenceTypes, NEW i \in left, left' = left \ {i}, points' = points
  PROVE  /\ Done' = Done \cup {i} /\ i \notin Done
         /\ Cardinality(Done) \in Nat /\ Cardinality(Done') = Cardinality(Done) + 1
<1>1. flattenPoints' = flattenPoints /\ left \subseteq flattenPoints
  BY Zenon DEF flattenPoints, EvidenceTypes
<1>2. Done' = Done \cup {i} /\ i \notin Done /\ Done \in SUBSET flattenPoints
  BY <1>1, Zenon DEF Done
<1>3. IsFiniteSet(Done)
  BY <1>2, GoodPoints, FS_Subset, Zenon
<1>4. QED
  BY <1>2, <1>3, FS_AddElement, FS_CardinalityType, Zenon

\* Reading a point in the order of time keeps what the value says.
LEMMA ReadKeeps ==
  ASSUME Parameters, EvidenceInv, NEW i \in left, Read(i)
  PROVE  EvidenceInv'
<1>1. /\ pc = "reading" /\ pc' = "reading" /\ left' = left \ {i} /\ points' = points
      /\ query' = query /\ status' = status
      /\ \A j \in left : points[i].at <= points[j].at
      /\ value' = CASE query.mode = "last" -> points[i].value
                    [] query.mode = "avg" -> value + points[i].value
                    [] query.mode = "max" ->
                         IF left = flattenPoints \/ points[i].value > value
                         THEN points[i].value ELSE value
  BY Zenon DEF Read, aggregate, inquiry
<1>2. EvidenceTypes /\ Reading /\ status = "none"
  BY <1>1, Zenon DEF EvidenceInv, EvidenceTypes
<1>3. /\ query.mode \in {"last", "avg", "max"} /\ value \in Int /\ Threshold \in Int
      /\ left \subseteq flattenPoints
      /\ \A j \in flattenPoints : points[j].at \in Nat /\ points[j].value \in Int
  BY <1>2, GoodPoints, Zenon DEF EvidenceTypes, Parameters
<1>4. flattenPoints' = flattenPoints /\ (Stale <=> Stale')
  BY <1>1, Zenon DEF flattenPoints, Stale, Newest
<1>5. /\ Done' = Done \cup {i} /\ i \notin Done /\ Done \subseteq flattenPoints
      /\ Cardinality(Done) \in Nat /\ Cardinality(Done') = Cardinality(Done) + 1
      /\ (Done = {} <=> left = flattenPoints)
  BY <1>1, <1>2, <1>3, ReadOne, Zenon DEF Done
<1>6. i \in flattenPoints /\ points[i].at \in Nat /\ points[i].value \in Int
  BY <1>3, Zenon
<1>7. EvidenceTypes'
  <2>1. value' \in Int
    BY <1>1, <1>3, <1>6
  <2>2. left' \subseteq flattenPoints'
    BY <1>1, <1>3, <1>4, Zenon
  <2>3. QED
    BY <1>1, <1>2, <2>1, <2>2, Zenon DEF EvidenceTypes
<1>8. \A j \in Done' : \A k \in left' : points'[j].at <= points'[k].at
  BY <1>1, <1>2, <1>5, Zenon DEF Reading
<1>9. ASSUME query.mode = "last" PROVE LastIs'
  <2>1. value' = points[i].value
    BY <1>1, <1>9, Zenon
  <2>2. \A j \in Done' : points[j].at <= points[i].at
    BY <1>2, <1>5, <1>6 DEF Reading
  <2>3. QED
    BY <1>1, <1>5, <2>1, <2>2, Zenon DEF LastIs
<1>10. ASSUME query.mode = "max" PROVE MaxIs'
  <2>1. value' = IF Done = {} \/ points[i].value > value THEN points[i].value ELSE value
    BY <1>1, <1>5, <1>10, Zenon
  <2>2. Done # {} => /\ \E j \in Done : points[j].value = value
                     /\ \A j \in Done : points[j].value <= value
    BY <1>2, <1>10, Zenon DEF Reading, MaxIs
  <2>3. \A j \in Done : points[j].value \in Int
    BY <1>3, <1>5, Zenon
  <2>4. \A j \in Done' : points[j].value <= value'
    BY <1>3, <1>5, <1>6, <2>1, <2>2, <2>3
  <2>5. \E j \in Done' : points[j].value = value'
    BY <1>5, <2>1, <2>2, Zenon
  <2>6. QED
    BY <1>1, <2>4, <2>5, Zenon DEF MaxIs
<1>11. ASSUME query.mode = "avg" PROVE SumIs'
  <2> DEFINE c == Cardinality(Done)
             v == points[i].value
             b == Threshold * c
  <2>1. value' = value + v /\ v \in Int /\ c \in Nat /\ b \in Int
    BY <1>1, <1>3, <1>5, <1>6, <1>11
  <2>2. Threshold * Cardinality(Done') = b + Threshold
    <3>1. Threshold * (c + 1) = Threshold * c + Threshold
      BY <1>3, <2>1
    <3>2. QED
      BY <1>5, <3>1, Zenon
  <2>3. /\ (\A j \in Done : points[j].value <= Threshold) => value <= b
        /\ (\A j \in Done : points[j].value >= Threshold) => value >= b
        /\ Done # {} /\ (\A j \in Done : points[j].value > Threshold) => value > b
        /\ Done # {} /\ (\A j \in Done : points[j].value < Threshold) => value < b
    BY <1>2, <1>11, Zenon DEF Reading, SumIs
  <2>4. i \in Done' /\ \A j \in Done : j \in Done' /\ points[j].value \in Int
    BY <1>3, <1>5, Zenon
  <2> HIDE DEF b, c
  <2>5. (\A j \in Done' : points[j].value <= Threshold) => value' <= b + Threshold
    BY <1>3, <2>1, <2>3, <2>4
  <2>6. (\A j \in Done' : points[j].value >= Threshold) => value' >= b + Threshold
    BY <1>3, <2>1, <2>3, <2>4
  <2>7. (\A j \in Done' : points[j].value > Threshold) => value' > b + Threshold
    BY <1>3, <2>1, <2>3, <2>4
  <2>8. (\A j \in Done' : points[j].value < Threshold) => value' < b + Threshold
    BY <1>3, <2>1, <2>3, <2>4
  <2>9. QED
    BY <1>1, <2>2, <2>5, <2>6, <2>7, <2>8, Zenon DEF SumIs
<1>12. Reading'
  BY <1>1, <1>2, <1>4, <1>8, <1>9, <1>10, <1>11, Zenon DEF Reading
<1>13. VerdictIsEarned'
  BY <1>1, <1>2, Zenon DEF VerdictIsEarned
<1>14. QED
  BY <1>1, <1>7, <1>12, <1>13, Zenon DEF EvidenceInv

\* The steps before the points are read.
LEMMA EarlyKeeps ==
  ASSUME Parameters, EvidenceInv,
         Acquire \/ Refuse \/ Send \/ SourceFails \/ TimePasses \/ UNCHANGED evidenceVars
  PROVE  EvidenceInv'
<1>1. /\ points' = points /\ left' = left /\ value' = value /\ query' = query
      /\ \/ /\ status' = status
            /\ \/ pc' = pc
               \/ /\ pc \in {"acquiring", "checking", "asking", "judging"}
                  /\ pc' \in {"checking", "asking"}
         \/ pc' = "done" /\ status' \in {"error", "MISSING", "INCONCLUSIVE"}
  BY Zenon DEF Acquire, Refuse, Send, SourceFails, TimePasses, Return, evidenceVars,
     inquiry, series
<1>2. flattenPoints' = flattenPoints
  BY <1>1, Zenon DEF flattenPoints
<1>3. EvidenceTypes'
  BY <1>1, <1>2, Zenon DEF EvidenceInv, EvidenceTypes
<1>4. pc' = "reading" => Reading'
  <2> SUFFICES ASSUME pc' = "reading" PROVE Reading'
    OBVIOUS
  <2>1. pc = "reading" /\ (Stale' <=> Stale) /\ Done' = Done
    BY <1>1, <1>2, Zenon DEF Stale, Newest, Done
  <2>2. Reading
    BY <2>1, Zenon DEF EvidenceInv
  <2>3. (LastIs => LastIs') /\ (MaxIs => MaxIs') /\ (SumIs => SumIs')
    BY <1>1, <2>1, Zenon DEF LastIs, MaxIs, SumIs
  <2>4. QED
    BY <1>1, <1>2, <2>1, <2>2, <2>3, Zenon DEF Reading
<1>5. VerdictIsEarned'
  BY <1>1 DEF EvidenceInv, VerdictIsEarned, Meets
<1>6. QED
  BY <1>1, <1>3, <1>4, <1>5, Zenon DEF EvidenceInv

\* An answer brings points, and nothing is read of them.
LEMMA AnsweredKeeps ==
  ASSUME Parameters, EvidenceInv, Answered
  PROVE  EvidenceInv'
<1>1. /\ pc = "asking" /\ pc' = "judging" /\ left' = left /\ value' = value /\ query' = query
      /\ status' = status /\ \E n \in 0 .. MaxPoints : points' \in [1 .. n -> RawPoints]
  BY Zenon DEF Answered, inquiry
<1>2. left = {} /\ value = 0 /\ status = "none"
  BY <1>1, Zenon DEF EvidenceInv, EvidenceTypes
<1>3. \E n \in Nat : points' \in [1 .. n -> RawPoints]
  BY <1>1
<1>4. EvidenceTypes'
  BY <1>1, <1>2, <1>3, Zenon DEF EvidenceInv, EvidenceTypes
<1>5. VerdictIsEarned'
  BY <1>1, <1>2, Zenon DEF VerdictIsEarned
<1>6. QED
  BY <1>1, <1>2, <1>4, <1>5, Zenon DEF EvidenceInv

\* Enough points, and no stale ones, are to be read.
LEMMA JudgeKeeps ==
  ASSUME Parameters, EvidenceInv, Judge
  PROVE  EvidenceInv'
<1>1. /\ pc = "judging" /\ points' = points /\ value' = value /\ query' = query
      /\ \/ pc' = "done" /\ status' \in {"MISSING", "INCONCLUSIVE"} /\ left' = left
         \/ /\ flattenPoints # {} /\ ~ (Cardinality(flattenPoints) < query.minimum) /\ ~ Stale
            /\ pc' = "reading" /\ left' = flattenPoints /\ status' = status
  BY Zenon DEF Judge, Return, inquiry
<1>2. left = {} /\ value = 0 /\ status = "none" /\ EvidenceTypes
  BY <1>1, Zenon DEF EvidenceInv, EvidenceTypes
<1>3. flattenPoints' = flattenPoints /\ (Stale' <=> Stale)
  BY <1>1, Zenon DEF flattenPoints, Stale, Newest
<1>4. EvidenceTypes' /\ VerdictIsEarned'
  BY <1>1, <1>2, <1>3, Zenon DEF EvidenceTypes, VerdictIsEarned
<1>5. ASSUME pc' = "reading" PROVE Reading'
  <2>1. Done' = {} /\ Cardinality({}) = 0 /\ Threshold * 0 = 0
    BY <1>1, <1>3, <1>5, FS_EmptySet DEF Done, Parameters
  <2>2. Cardinality(flattenPoints) >= query.minimum
    <3>1. Cardinality(flattenPoints) \in Nat /\ query.minimum \in Nat
      BY <1>2, GoodPoints, Zenon DEF EvidenceTypes, Parameters
    <3>2. QED
      BY <1>1, <1>5, <3>1
  <2>3. LastIs' /\ MaxIs'
    BY <2>1, Zenon DEF LastIs, MaxIs
  <2>4. SumIs'
    BY <1>1, <1>2, <2>1 DEF SumIs
  <2>5. QED
    BY <1>1, <1>3, <1>5, <2>1, <2>2, <2>3, <2>4, Zenon DEF Reading
<1>6. QED
  BY <1>1, <1>4, <1>5, Zenon DEF EvidenceInv

\* The verdict is the one that the points bear out.
LEMMA DecideKeeps ==
  ASSUME Parameters, EvidenceInv, Decide
  PROVE  EvidenceInv'
<1>1. /\ pc = "reading" /\ left = {} /\ pc' = "done" /\ status' = compare
      /\ points' = points /\ left' = left /\ value' = value /\ query' = query
  BY Zenon DEF Decide, Return, inquiry, series
<1>2. EvidenceTypes /\ Reading /\ Done = flattenPoints
  BY <1>1, Zenon DEF EvidenceInv, Done
<1>3. flattenPoints' = flattenPoints
  BY <1>1, Zenon DEF flattenPoints
<1>4. EvidenceTypes'
  BY <1>1, <1>2, <1>3, Zenon DEF EvidenceTypes
<1> DEFINE good == flattenPoints
           newest == {i \in good : \A j \in good : points[j].at <= points[i].at}
           met == {i \in good : Meets(points[i])}
<1>5. /\ value \in Int /\ Threshold \in Int
      /\ query.mode \in {"last", "avg", "max"} /\ query.comparator \in {"lte", "gte"}
      /\ query.age \in Nat /\ {From, To} \subseteq Nat
      /\ \A i \in good : points[i].at \in Nat /\ points[i].value \in Int
  BY <1>2, GoodPoints, Zenon DEF EvidenceTypes, Parameters
<1>6. \A i \in newest : points[i].at \in From .. To + 2 /\ points[i].at >= To - query.age
  BY <1>2, <1>5 DEF Reading, Stale, Newest
<1>7. good # {} /\ Cardinality(good) >= query.minimum
  BY <1>2, Zenon DEF Reading
<1>8. \A i \in good : i \in met <=> IF query.comparator = "lte" THEN points[i].value <= Threshold
                                                              ELSE points[i].value >= Threshold
  BY Zenon DEF Meets
<1>9. met \subseteq good /\ newest \subseteq good
  OBVIOUS
<1> DEFINE bears ==
      /\ compare = "PASS" =>
           /\ met # {}
           /\ query.mode = "max" /\ query.comparator = "lte" => met = good
           /\ query.mode = "last" => met \cap newest # {}
      /\ compare = "FAIL" =>
           /\ met # good
           /\ query.mode = "max" /\ query.comparator = "gte" => met = {}
           /\ query.mode = "last" => newest \ met # {}
<1> HIDE DEF good, newest, met
<1>10. ASSUME query.mode = "last" PROVE bears
  <2>1. PICK i \in good : points[i].value = value /\ i \in newest
    BY <1>2, <1>7, <1>10, Zenon DEF Reading, LastIs, good, newest
  <2>2. (compare = "PASS" => i \in met) /\ (compare = "FAIL" => i \notin met)
    BY <1>5, <1>8, <1>10, <2>1, Zenon DEF compare
  <2>3. QED
    BY <1>10, <2>1, <2>2, Zenon
<1>11. ASSUME query.mode = "max" PROVE bears
  <2>1. PICK i \in good : points[i].value = value
    BY <1>2, <1>7, <1>11, Zenon DEF Reading, MaxIs, good
  <2>2. \A j \in good : points[j].value <= value
    BY <1>2, <1>7, <1>11, Zenon DEF Reading, MaxIs, good
  <2>3. CASE query.comparator = "lte"
    <3>1. compare = "PASS" => \A j \in good : j \in met
      BY <1>5, <1>8, <1>11, <2>2, <2>3 DEF compare
    <3>2. compare = "FAIL" => i \notin met
      BY <1>5, <1>8, <1>11, <2>1, <2>3, Zenon DEF compare
    <3>3. QED
      BY <1>7, <1>9, <1>11, <2>1, <2>3, <3>1, <3>2, Zenon
  <2>4. CASE query.comparator = "gte"
    <3>1. compare = "PASS" => i \in met
      BY <1>5, <1>8, <1>11, <2>1, <2>4, Zenon DEF compare
    <3>2. compare = "FAIL" => \A j \in good : j \notin met
      BY <1>5, <1>8, <1>11, <2>2, <2>4 DEF compare
    <3>3. QED
      BY <1>7, <1>9, <1>11, <2>1, <2>4, <3>1, <3>2, Zenon
  <2>5. QED
    BY <1>5, <2>3, <2>4, Zenon
<1>12. ASSUME query.mode = "avg" PROVE bears
  <2> DEFINE bound == Threshold * Cardinality(good)
  <2>1. /\ (\A i \in good : points[i].value <= Threshold) => value <= bound
        /\ (\A i \in good : points[i].value >= Threshold) => value >= bound
        /\ (\A i \in good : points[i].value > Threshold) => value > bound
        /\ (\A i \in good : points[i].value < Threshold) => value < bound
    BY <1>2, <1>7, <1>12, Zenon DEF Reading, SumIs, good
  <2>2. bound \in Int
    <3>1. Cardinality(good) \in Nat
      BY <1>2, GoodPoints, Zenon DEF good
    <3>2. QED
      BY <1>5, <3>1
  <2>3. compare = IF \/ query.comparator = "lte" /\ value <= bound
                     \/ query.comparator = "gte" /\ value >= bound
                  THEN "PASS" ELSE "FAIL"
    BY <1>12, Zenon DEF compare, good
  <2> HIDE DEF bound
  <2>4. CASE query.comparator = "lte"
    <3>1. compare = "PASS" => \E j \in good : j \in met
      BY <1>5, <1>8, <2>1, <2>2, <2>3, <2>4
    <3>2. compare = "FAIL" => \E j \in good : j \notin met
      BY <1>5, <1>8, <2>1, <2>2, <2>3, <2>4, Zenon
    <3>3. QED
      BY <1>12, <3>1, <3>2, Zenon
  <2>5. CASE query.comparator = "gte"
    <3>1. compare = "PASS" => \E j \in good : j \in met
      BY <1>5, <1>8, <2>1, <2>2, <2>3, <2>5
    <3>2. compare = "FAIL" => \E j \in good : j \notin met
      BY <1>5, <1>8, <2>1, <2>2, <2>3, <2>5, Zenon
    <3>3. QED
      BY <1>12, <3>1, <3>2, Zenon
  <2>6. QED
    BY <1>5, <2>4, <2>5, Zenon
<1>13. bears
  BY <1>5, <1>10, <1>11, <1>12, Zenon
<1>14. VerdictIsEarned'
  <2>1. /\ {i \in DOMAIN points' : points'[i].good} = good
        /\ {i \in good : \A j \in good : points'[j].at <= points'[i].at} = newest
        /\ {i \in good : Meets(points[i])'} = met
        /\ query' = query /\ status' = compare
    BY <1>1, Zenon DEF good, newest, met, flattenPoints, Meets
  <2>2. QED
    BY <1>1, <1>6, <1>7, <1>13, <2>1, Zenon DEF VerdictIsEarned
<1>15. QED
  BY <1>1, <1>4, <1>14, Zenon DEF EvidenceInv

\* Every step keeps the invariant.
LEMMA NextEvidenceInv == ASSUME Parameters, EvidenceInv, [EvidenceNext]_evidenceVars PROVE EvidenceInv'
<1>1. CASE Acquire \/ Refuse \/ Send \/ SourceFails \/ TimePasses \/ UNCHANGED evidenceVars
  BY <1>1, EarlyKeeps, Zenon
<1>2. CASE Answered
  BY <1>2, AnsweredKeeps, Zenon
<1>3. CASE Judge
  BY <1>3, JudgeKeeps, Zenon
<1>4. ASSUME NEW i \in left, Read(i) PROVE EvidenceInv'
  BY <1>4, ReadKeeps, Zenon
<1>5. CASE Decide
  BY <1>5, DecideKeeps, Zenon
<1>6. QED
  BY <1>1, <1>2, <1>3, <1>4, <1>5, Zenon DEF EvidenceNext

\* A verdict is earned whatever the points, their order among equal times, the
\* aggregation and the comparator: PASS and FAIL rest on enough points, a newest one
\* in the window, and values on the side of the threshold that the verdict names.
THEOREM VerdictsAreEarned == EvidenceSpec => []VerdictIsEarned
<1>1. ASSUME EvidenceInit PROVE EvidenceInv
  <2>1. points \in [1 .. 0 -> RawPoints] /\ left = {} /\ value = 0 /\ status = "none"
        /\ pc = "acquiring"
        /\ query \in [comparator : Comparators, mode : Modes, minimum : Minimums, age : Ages]
    BY <1>1 DEF EvidenceInit
  <2>2. EvidenceTypes
    BY <2>1 DEF EvidenceTypes
  <2>3. VerdictIsEarned
    BY <2>1, Zenon DEF VerdictIsEarned
  <2>4. QED
    BY <2>1, <2>2, <2>3, Zenon DEF EvidenceInv
<1>2. EvidenceInv /\ [EvidenceNext]_evidenceVars => EvidenceInv'
  BY EvidenceAssumption, NextEvidenceInv, Zenon
<1>3. EvidenceInv => VerdictIsEarned
  BY Zenon DEF EvidenceInv
<1>4. QED
  BY <1>1, <1>2, <1>3, PTL DEF EvidenceSpec

-----------------------------------------------------------------------------
(* RunnerAuthority *)

\* What Evaluate needs to allow an input.
Allowed(b, i) ==
    /\ i.env = "production" => i.typed /\ i.pinned
    /\ i.risk = "high" => i.proofs
    /\ b \in Standard /\ i.env = "production" /\ i.risk = "medium" => i.proofs

\* The control plane's half: what the decision says about the request, with the
\* bundle that made it, and that nothing is decided before there is a plan.
Judged ==
    /\ decision \in {"none", "started", "ALLOW", "REQUIRE_APPROVAL", "DENY"}
    /\ control \in Bundles
    /\ decision # "none" => plan \in Bundles
    /\ decision \in {"none", "started"} => approval = "none"
    /\ approval # "none" => decision = "REQUIRE_APPROVAL"
    /\ decision = "ALLOW" => Allowed(judge, InputForRelease)

\* What was issued is what the control plane cleared.
Issued ==
    /\ context # None => Cleared /\ context.policy = plan
    /\ grant # None =>
          /\ context # None /\ WellFormed
          /\ grant.policy = plan
          /\ grant.proofs = (approval = "APPROVED")
          /\ grant.input = InputForRelease

\* What Execute has seen to be unexpired by a stage.
Seen(s) ==
    {"grant"} \cup {x \in {"token"} : s # "verified"}
              \cup {x \in {"delegation"} : s \notin {"verified", "identified"}}

\* The runner's half: what Execute has established by each stage.  What has not
\* expired now had not expired when the grant was verified.
Established ==
    /\ stage \in Stages
    /\ stage # "idle" =>
          /\ grant # None
          /\ held \subseteq Papers
          /\ Seen(stage) \subseteq held
          /\ Papers \ lapsed \subseteq held
    /\ stage \in {"approved", "allowed", "written"} => (context.required => grant.proofs)
    /\ stage \in {"allowed", "written"} =>
          /\ InputForGrant = grant.input
          /\ Allowed(grant.policy, InputForGrant)

AuthorityIInv == Judged /\ Issued /\ Established

\* Evaluate allows exactly what Allowed describes (OPA.Evaluate, the Rego rules).
LEMMA AllowIsAllowed ==
    ASSUME NEW b, NEW i
    PROVE  Evaluate(b, i) = "ALLOW" <=> Allowed(b, i)
<1>1. BaselineDeny(i) = {} <=> (i.env = "production" => i.typed /\ i.pinned)
  BY Zenon DEF BaselineDeny
<1>2. {r \in StandardDeny(i) : b \in Standard} = {}
        <=> (b \in Standard /\ i.env = "production" /\ i.risk = "medium" => i.proofs)
  BY Zenon DEF StandardDeny
<1>3. Deny(b, i) = {} <=> BaselineDeny(i) = {} /\ {r \in StandardDeny(i) : b \in Standard} = {}
  BY Zenon DEF Deny
<1> QED
  BY <1>1, <1>2, <1>3, Zenon DEF Evaluate, ApprovalRequired, Allowed

\* The first state satisfies the invariant (nothing is decided or issued).
LEMMA InitAuthority == Init => AuthorityIInv
BY Zenon DEF Init, AuthorityIInv, Judged, Issued, Established, Stages

\* Established depends on the papers, the request and the runner only; a decision
\* that is not yet an issued grant cannot disturb it.
LEMMA EstablishedStays ==
    ASSUME Established, UNCHANGED <<request, bearer, context, grant, stage, held, lapsed>>
    PROVE  Established'
BY Zenon DEF Established, InputForGrant, Allowed, Seen

\* Judged depends on the request and the control plane only.
LEMMA JudgedStays ==
    ASSUME Judged, UNCHANGED <<request, control, plan, judge, decision, approval>>
    PROVE  Judged'
BY Zenon DEF Judged, InputForRelease, Allowed

\* Issued depends on the request, the plan, the decision and what was issued.
LEMMA IssuedStays ==
    ASSUME Issued, UNCHANGED <<request, plan, decision, approval, context, grant>>
    PROVE  Issued'
BY Zenon DEF Issued, InputForRelease, Cleared, WellFormed

\* The control plane's steps, restarts included, keep the invariant.
LEMMA ControlKeeps == AuthorityIInv /\ Control => AuthorityIInv'
<1> SUFFICES ASSUME AuthorityIInv, Control PROVE AuthorityIInv'
  OBVIOUS
<1> USE DEF AuthorityIInv, asked, issued, runnerVars
<1>0. Established'
  BY EstablishedStays, Zenon DEF Control, Plan, StartRun, EvaluateStep,
     DecideApproval, RestartControl
<1>1. CASE Plan
  <2>1. context = None /\ grant = None
    BY <1>1, Zenon DEF Plan, Judged, Issued, Cleared
  <2> QED
    BY <1>0, <1>1, <2>1, Zenon DEF Plan, Judged, Issued
<1>2. CASE StartRun
  <2>1. context = None /\ grant = None
    BY <1>2, Zenon DEF StartRun, Judged, Issued, Cleared
  <2> QED
    BY <1>0, <1>2, <2>1, Zenon DEF StartRun, Judged, Issued
<1>3. CASE EvaluateStep
  <2>1. context = None /\ grant = None
    BY <1>3, Zenon DEF EvaluateStep, Judged, Issued, Cleared
  <2>2. Issued'
    BY <1>3, <2>1, Zenon DEF EvaluateStep, Issued
  <2>3. approval = "none" /\ plan \in Bundles /\ control \in Bundles
    BY <1>3, Zenon DEF EvaluateStep, Judged
  <2>4. CASE decision' = "DENY"
    BY <1>0, <1>3, <2>2, <2>3, <2>4, Zenon DEF EvaluateStep, Judged
  <2>5. CASE decision' = "ALLOW"
    <3>1. Allowed(control, InputForRelease)
      BY <1>3, <2>5, AllowIsAllowed, Zenon DEF EvaluateStep
    <3>2. InputForRelease' = InputForRelease
      BY <1>3, <2>5, Zenon DEF EvaluateStep, InputForRelease
    <3>3. Allowed(judge', InputForRelease')
      BY <1>3, <3>1, <3>2, Zenon DEF EvaluateStep, Allowed
    <3>4. Allowed(judge, InputForRelease)'
      BY <3>3, Zenon DEF Allowed
    <3> QED
      BY <1>0, <1>3, <2>2, <2>3, <2>5, <3>4, Zenon DEF EvaluateStep, Judged
  <2>6. CASE decision' = "REQUIRE_APPROVAL"
    BY <1>0, <1>3, <2>2, <2>3, <2>6, Zenon DEF EvaluateStep, Judged
  <2> QED
    BY <1>3, <2>4, <2>5, <2>6, Zenon DEF EvaluateStep, Evaluate
<1>4. CASE DecideApproval
  <2>1. decision = "REQUIRE_APPROVAL" /\ ~ Cleared
    BY <1>4, Zenon DEF DecideApproval, Judged, Cleared
  <2>2. context = None /\ grant = None
    BY <2>1, Zenon DEF Issued
  <2> QED
    BY <1>0, <1>4, <2>1, <2>2, Zenon DEF DecideApproval, Judged, Issued
<1>5. CASE RestartControl
  <2>1. Issued'
    BY <1>5, IssuedStays, Zenon DEF RestartControl
  <2>2. Allowed(judge, InputForRelease) <=> Allowed(judge, InputForRelease)'
    BY <1>5, Zenon DEF RestartControl, InputForRelease, Allowed
  <2> QED
    BY <1>0, <1>5, <2>1, <2>2, Zenon DEF RestartControl, Judged
<1> QED
  BY <1>1, <1>2, <1>3, <1>4, <1>5, Zenon DEF Control

\* What happens between the two processes, expiry included, keeps the invariant.
LEMMA BetweenKeeps ==
  AuthorityIInv /\ (PinContext \/ IssueGrant \/ Lapse) => AuthorityIInv'
<1> SUFFICES ASSUME AuthorityIInv, PinContext \/ IssueGrant \/ Lapse
             PROVE  AuthorityIInv'
  OBVIOUS
<1> USE DEF AuthorityIInv, asked, controlVars, issued, runnerVars
<1>0. Judged'
  BY JudgedStays, Zenon DEF PinContext, IssueGrant, Lapse
<1>1. CASE PinContext
  <2>1. grant = None /\ stage = "idle"
    BY <1>1, Zenon DEF PinContext, Issued, Established
  <2>2. Issued'
    BY <1>1, <2>1 DEF PinContext, Issued, Cleared
  <2> QED
    BY <1>0, <1>1, <2>1, <2>2, Zenon DEF PinContext, Established
<1>2. CASE IssueGrant
  <2>1. Issued'
    BY <1>2, Zenon DEF IssueGrant, Issued, Cleared, WellFormed,
       InputForRelease
  <2> QED
    BY <1>0, <1>2, <2>1, Zenon DEF IssueGrant, Established
<1>3. CASE Lapse
  <2>1. Issued'
    BY <1>3, IssuedStays, Zenon DEF Lapse
  <2>2. Papers \ lapsed' \subseteq Papers \ lapsed
    BY <1>3, Zenon DEF Lapse
  <2>3. Established'
    BY <1>3, <2>2 DEF Lapse, Established, InputForGrant, Allowed, Seen
  <2> QED
    BY <1>0, <2>1, <2>3, Zenon
<1> QED
  BY <1>1, <1>2, <1>3, Zenon

\* The runner's steps, restarts included, keep the invariant.
LEMMA RunnerKeeps ==
  AuthorityIInv /\ (LoadBundle \/ RestartRunner \/ Execute) => AuthorityIInv'
<1> SUFFICES ASSUME AuthorityIInv, LoadBundle \/ RestartRunner \/ Execute
             PROVE  AuthorityIInv'
  OBVIOUS
<1> USE DEF AuthorityIInv, asked, controlVars, issued, runnerVars
<1>0. UNCHANGED <<request, bearer, control, plan, judge, decision, approval, context, grant,
                  lapsed>>
  BY Zenon DEF LoadBundle, RestartRunner, Execute, Reject, Pass,
     VerifyGrant, VerifySubject, VerifyDelegation, MatchContext,
     VerifyApprovals, EvaluateLocally, Write
<1>1. Judged' /\ Issued'
  BY <1>0, JudgedStays, IssuedStays, Zenon
<1>2. InputForGrant' = InputForGrant
  BY <1>0, Zenon DEF InputForGrant
<1>3. \A b : Allowed(b, InputForGrant) <=> Allowed(b, InputForGrant')
  BY <1>2, Zenon DEF Allowed
<1>4. CASE LoadBundle
  BY <1>0, <1>1, <1>4, EstablishedStays, Zenon DEF LoadBundle
<1>5. CASE RestartRunner \/ Reject
  BY <1>1, <1>5, Zenon DEF RestartRunner, Reject, Established, Stages
<1>6. CASE VerifyGrant
  BY <1>0, <1>1, <1>6, Zenon DEF VerifyGrant, Pass, Established, Stages,
     Seen, Papers
<1>7. CASE VerifySubject
  BY <1>0, <1>1, <1>7, Zenon DEF VerifySubject, Pass, Established, Stages,
     Seen, Papers
<1>8. CASE VerifyDelegation
  BY <1>0, <1>1, <1>8, Zenon DEF VerifyDelegation, Pass, Established,
     Stages, Seen, Papers
<1>9. CASE MatchContext
  BY <1>0, <1>1, <1>9, Zenon DEF MatchContext, Pass, Established, Stages,
     Seen
<1>10. CASE VerifyApprovals
  BY <1>0, <1>1, <1>10, Zenon DEF VerifyApprovals, Pass, Established,
     Stages, Seen
<1>11. CASE EvaluateLocally
  <2>1. InputForGrant = grant.input /\ Allowed(grant.policy, InputForGrant)
    BY <1>11, AllowIsAllowed, Zenon DEF EvaluateLocally, Pass, Agrees
  <2>2. (InputForGrant = grant.input /\ Allowed(grant.policy, InputForGrant))'
    BY <1>0, <1>2, <2>1, Zenon DEF Allowed
  <2> QED
    BY <1>0, <1>1, <1>11, <2>2, Zenon DEF EvaluateLocally, Pass, Established,
       Stages, Seen
<1>12. CASE Write
  <2>1. (InputForGrant = grant.input /\ Allowed(grant.policy, InputForGrant))'
    BY <1>0, <1>2, <1>12, Zenon DEF Write, Pass, Established, Allowed
  <2> QED
    BY <1>0, <1>1, <1>12, <2>1, Zenon DEF Write, Pass, Established, Stages,
       Seen
<1> QED
  BY <1>4, <1>5, <1>6, <1>7, <1>8, <1>9, <1>10, <1>11, <1>12, Zenon DEF Execute

\* AuthorityIInv holds in every state of every behaviour.
LEMMA AuthorityInvariant == Spec => []AuthorityIInv
<1>1. AuthorityIInv /\ UNCHANGED vars => AuthorityIInv'
  BY EstablishedStays, JudgedStays, IssuedStays, Zenon DEF AuthorityIInv, vars,
     asked, controlVars, issued, runnerVars
<1>2. AuthorityIInv /\ [Next]_vars => AuthorityIInv'
  BY <1>1, ControlKeeps, BetweenKeeps, RunnerKeeps, Zenon DEF Next
<1> QED
  BY <1>2, InitAuthority, PTL DEF Spec

\* Whatever the bundles and however often either process is replaced, what the
\* runner writes was cleared, is allowed by the pinned bundle on the facts of the
\* request and was asked for by the verified user (Runner.Execute).
THEOREM WritesAreAgreed == Spec => []WrittenIsAgreed
<1>1. AuthorityIInv => WrittenIsAgreed
  <2> SUFFICES ASSUME AuthorityIInv, stage = "written" PROVE WrittenIsAgreed
    BY Zenon DEF WrittenIsAgreed
  <2>1. /\ grant # None /\ context # None /\ Cleared
        /\ grant.input = InputForRelease /\ InputForGrant = grant.input
        /\ grant.policy = plan /\ grant.proofs = (approval = "APPROVED")
        /\ Allowed(grant.policy, InputForGrant)
        /\ context.required => grant.proofs
    BY Zenon DEF AuthorityIInv, Established, Issued
  <2>2. InputForGrant = InputForRelease /\ Allowed(plan, InputForRelease)
    BY <2>1, Zenon
  <2>3. Evaluate(plan, InputForRelease) = "ALLOW"
    BY <2>2, AllowIsAllowed, Zenon
  <2>4. request.ci /\ request.deps /\ bearer = Requester
    <3>1. /\ InputForGrant.ci = InputForRelease.ci
          /\ InputForGrant.deps = InputForRelease.deps
          /\ InputForGrant.user = InputForRelease.user
      BY <2>2, Zenon
    <3> QED
      BY <3>1, Zenon DEF InputForGrant, InputForRelease
  <2>5. request.risk = "high" => approval = "APPROVED"
    BY <2>2, Zenon DEF Allowed, InputForRelease
  <2>6. held = Papers
    BY Zenon DEF AuthorityIInv, Established, Seen, Papers
  <2> QED
    BY <2>1, <2>3, <2>4, <2>5, <2>6, Zenon DEF WrittenIsAgreed
<1> QED
  BY <1>1, AuthorityInvariant, PTL

\* A runner with the pinned bundle accepts what that bundle cleared: an approval
\* settles what was asked for, and both sides hash the same input.
THEOREM ClearedStepsAreAccepted == Spec => []ClearedIsAccepted
<1>1. AuthorityIInv => ClearedIsAccepted
  <2> SUFFICES ASSUME AuthorityIInv, stage = "approved", judge = plan, local = plan,
                      bearer = Requester, request.ci, request.deps
               PROVE  Agrees
    BY Zenon DEF ClearedIsAccepted
  <2>1. /\ grant # None /\ Cleared /\ WellFormed
        /\ grant.input = InputForRelease /\ grant.policy = plan
        /\ grant.proofs = (approval = "APPROVED")
    BY Zenon DEF AuthorityIInv, Established, Issued
  <2>2. plan \in Bundles
    BY <2>1, Zenon DEF AuthorityIInv, Judged, Cleared
  <2>3. Allowed(plan, InputForRelease)
    <3>1. CASE decision = "ALLOW"
      BY <3>1, Zenon DEF AuthorityIInv, Judged
    <3>2. CASE approval = "APPROVED"
      BY <2>1, <3>2, Zenon DEF Allowed, InputForRelease, WellFormed
    <3> QED
      BY <2>1, <3>1, <3>2, Zenon DEF Cleared
  <2>4. InputForGrant = InputForRelease
    BY <2>1, Zenon DEF InputForGrant, InputForRelease, WellFormed
  <2> QED
    BY <2>1, <2>2, <2>3, <2>4, AllowIsAllowed, BundlesAssumption, Zenon
       DEF Agrees, BundlesLoaded
<1> QED
  BY <1>1, AuthorityInvariant, PTL
=============================================================================
