--------------------------- MODULE SchedulerProofs ---------------------------
(***************************************************************************)
(* Proofs about Scheduler, for every set of dispatches, every list of      *)
(* failure domains, all limits and every policy of the circuit breaker.    *)
(*                                                                         *)
(* That the budget is exact needs to know that a dispatch whose capacity   *)
(* has been read is not scheduled (otherwise it would be counted twice)    *)
(* and that what is held is finite; that a freeze holds needs to know that *)
(* a reservation still on its way is the first since its runner was frozen.*)
(***************************************************************************)
EXTENDS Scheduler, FiniteSetTheorems, SequenceTheorems, TLAPS

-----------------------------------------------------------------------------
(* What the budget counts *)

\* A function of 1 .. n is a list.
LEMMA FunctionIsList ==
    ASSUME NEW T, NEW n \in Nat, NEW f \in [1 .. n -> T]
    PROVE  f \in Seq(T)
BY SeqDef, Zenon

\* keysFor returns a list, of a step's seven dimensions and its failure domains.
LEMMA KeysAreListed ==
    ASSUME NEW d \in Dispatches
    PROVE  \E n \in Nat : DOMAIN KeysFor(StepOf[d]) = 1 .. n
PROOF
<1> DEFINE s == StepOf[d]
           dimensions == << <<"tenant", s.tenant>>,
                            <<"environment", s.tenant, s.environment>>,
                            <<"region", s.tenant, s.environment, s.region>>,
                            <<"cluster", s.tenant, s.environment, s.region, s.cluster>>,
                            <<"team", s.tenant, s.team>>,
                            <<"riskTier", s.tenant, s.riskTier>>,
                            <<"service", s.tenant, s.environment, s.id>> >>
           domains == [n \in DOMAIN s.failureDomains |->
                         <<"failureDomain", s.tenant, s.environment, s.failureDomains[n]>>]
           T == Range(dimensions) \cup Range(domains)
<1>1. dimensions \in [1 .. 7 -> T]
  BY DEF Range
<1>2. PICK n \in Nat : DOMAIN s.failureDomains = 1 .. n
  BY PolicyAssumption
<1>3. domains \in [1 .. n -> T]
  BY <1>2, Zenon DEF Range
<1>4. KeysFor(s) = dimensions \o domains
  BY Zenon DEF KeysFor
<1> HIDE DEF s, dimensions, domains, T
<1>5. dimensions \in Seq(T)
  BY <1>1, FunctionIsList, Zenon
<1>6. domains \in Seq(T)
  BY <1>3, FunctionIsList, Zenon
<1>7. dimensions \o domains \in Seq(T)
  BY <1>5, <1>6, ConcatProperties, Zenon
<1>8. \E m \in Nat : DOMAIN (dimensions \o domains) = 1 .. m
  BY <1>7, LenProperties, Zenon
<1> QED
  BY <1>4, <1>8, Zenon DEF s

\* The keys of a dispatch can be counted.
LEMMA UsesFinite ==
    ASSUME NEW d \in Dispatches, NEW key \in KeySet
    PROVE  /\ IsFiniteSet(Uses[d][key])
           /\ Count[d][key] = Cardinality(Uses[d][key])
           /\ Count[d][key] \in Nat
           /\ Uses[d][key] # {} <=> key \in KeysOf[d]
           /\ \A p \in Uses[d][key] : p[1] = d
PROOF
<1> DEFINE keys == KeysFor(StepOf[d])
           places == {n \in DOMAIN keys : keys[n] = key}
<1>1. \E n \in Nat : DOMAIN keys = 1 .. n
  BY KeysAreListed, Zenon
<1>2. IsFiniteSet(DOMAIN keys)
  BY <1>1, FS_Interval
<1>3. IsFiniteSet(places)
  BY <1>2, FS_Subset, Zenon
<1>4. Uses[d][key] = {d} \X places
  BY Zenon DEF Uses
<1>5. IsFiniteSet({d})
  BY FS_Singleton, Zenon
<1>6. IsFiniteSet(Uses[d][key])
  BY <1>3, <1>4, <1>5, FS_Product
<1>7. Count[d][key] = Cardinality(Uses[d][key])
  BY Zenon DEF Count
<1>8. Cardinality(Uses[d][key]) \in Nat
  BY <1>6, FS_CardinalityType, Zenon
<1>9. Uses[d][key] # {} <=> key \in KeysOf[d]
  <2>1. key \in KeysOf[d] <=> \E n \in DOMAIN keys : keys[n] = key
    BY Zenon DEF KeysOf, Range
  <2>2. places # {} <=> key \in KeysOf[d]
    BY <2>1, Zenon
  <2>3. {d} \X places # {} <=> places # {}
    <3> HIDE DEF places
    <3>1. \A n \in places : <<d, n>> \in {d} \X places
      OBVIOUS
    <3>2. \A p \in {d} \X places : p[2] \in places
      OBVIOUS
    <3> QED
      BY <3>1, <3>2, Zenon
  <2> QED
    BY <2>2, <2>3, <1>4, Zenon
<1>10. \A p \in Uses[d][key] : p[1] = d
  BY <1>4, Zenon
<1> QED
  BY <1>6, <1>7, <1>8, <1>9, <1>10, Zenon

\* A dispatch that joins takes places nobody had.
LEMMA HeldGrows ==
    ASSUME NEW S \in SUBSET Dispatches, NEW d \in Dispatches \ S, NEW key \in KeySet,
           IsFiniteSet(Held(S, key))
    PROVE  /\ IsFiniteSet(Held(S \cup {d}, key))
           /\ Cardinality(Held(S \cup {d}, key)) =
                 Cardinality(Held(S, key)) + Count[d][key]
PROOF
<1> DEFINE before == Held(S, key)
           after == Held(S \cup {d}, key)
           own == Uses[d][key]
<1>1. after = before \cup own
  BY Zenon DEF Held
<1>2. before \cap own = {}
  <2>1. \A p \in before : p[1] \in S
    BY UsesFinite DEF Held
  <2> QED
    BY <2>1, UsesFinite
<1>3. IsFiniteSet(own) /\ Count[d][key] = Cardinality(own) /\ Count[d][key] \in Nat
  BY UsesFinite, Zenon
<1>4. IsFiniteSet(before) /\ Cardinality(before) \in Nat
  BY FS_CardinalityType, Zenon
<1> HIDE DEF before, after, own
<1>5. /\ IsFiniteSet(after)
      /\ Cardinality(after) = Cardinality(before) + Cardinality(own) - Cardinality({})
  BY <1>1, <1>2, <1>3, <1>4, FS_Union
<1>6. IsFiniteSet(after) /\ Cardinality(after) = Cardinality(before) + Count[d][key]
  BY <1>3, <1>4, <1>5, FS_EmptySet
<1> QED
  BY <1>6, Zenon DEF before, after

\* A dispatch that leaves gives back exactly the places it had.
LEMMA HeldShrinks ==
    ASSUME NEW S \in SUBSET Dispatches, NEW d \in S, NEW key \in KeySet,
           IsFiniteSet(Held(S, key))
    PROVE  /\ IsFiniteSet(Held(S \ {d}, key))
           /\ Cardinality(Held(S \ {d}, key)) \in Nat
           /\ Cardinality(Held(S, key)) =
                 Cardinality(Held(S \ {d}, key)) + Count[d][key]
PROOF
<1>1. Held(S \ {d}, key) \subseteq Held(S, key)
  BY Zenon DEF Held
<1>2. IsFiniteSet(Held(S \ {d}, key))
  BY <1>1, FS_Subset, Zenon
<1>3. (S \ {d}) \cup {d} = S /\ d \in Dispatches \ (S \ {d}) /\ S \ {d} \in SUBSET Dispatches
  OBVIOUS
<1>4. Cardinality(Held(S, key)) = Cardinality(Held(S \ {d}, key)) + Count[d][key]
  <2> DEFINE R == S \ {d}
  <2>1. R \in SUBSET Dispatches /\ d \in Dispatches \ R /\ IsFiniteSet(Held(R, key))
    BY <1>2, <1>3, Zenon
  <2>2. R \cup {d} = S
    BY <1>3, Zenon
  <2> HIDE DEF R
  <2>3. Cardinality(Held(R \cup {d}, key)) = Cardinality(Held(R, key)) + Count[d][key]
    BY <2>1, HeldGrows, Zenon
  <2> QED
    BY <2>2, <2>3, Zenon DEF R
<1> QED
  BY <1>2, <1>4, FS_CardinalityType, Zenon

\* Every dispatch that uses a key takes a place under it.
LEMMA HoldersBounded ==
    ASSUME NEW S \in SUBSET Dispatches, NEW key \in KeySet, IsFiniteSet(Held(S, key))
    PROVE  /\ IsFiniteSet({d \in S : key \in KeysOf[d]})
           /\ Cardinality({d \in S : key \in KeysOf[d]}) <= Cardinality(Held(S, key))
PROOF
<1> DEFINE holders == {d \in S : key \in KeysOf[d]}
           owner == [p \in Held(S, key) |-> p[1]]
<1>1. owner \in [Held(S, key) -> holders]
  <2>1. \A p \in Held(S, key) : p[1] \in holders
    BY UsesFinite DEF Held
  <2> QED
    BY <2>1, Zenon
<1>2. ASSUME NEW d \in holders PROVE \E p \in Held(S, key) : owner[p] = d
  <2>1. PICK p \in Uses[d][key] : p[1] = d
    BY UsesFinite
  <2>2. p \in Held(S, key)
    BY Zenon DEF Held
  <2> QED
    BY <2>1, <2>2, Zenon
<1>3. owner \in Surjection(Held(S, key), holders)
  BY <1>1, <1>2, Zenon DEF Surjection
<1> QED
  BY <1>3, FS_Surjection, Zenon

-----------------------------------------------------------------------------
(* The inductive invariant *)

\* What each variable holds.  The window of a tenant never outgrows the policy's.
SchedulerTypes ==
    /\ phase \in [Dispatches -> {"idle", "acquiring", "holding", "completing", "ended",
                              "failed"}]
    /\ scheduled \subseteq Dispatches
    /\ active \in [KeySet -> Nat]
    /\ window \in [Tenants -> Seq(BOOLEAN)]
    /\ \A t \in Tenants : Len(window[t]) <= WindowSize
    /\ open \in [Tenants -> BOOLEAN]
    /\ frozen \subseteq Runners
    /\ reader = {} \/ \E d \in Dispatches : reader = {d}
    /\ slipped \in [Runners -> Nat]
    /\ late \subseteq Dispatches
    /\ restarts \in 0 .. MaxRestarts

\* The budget is exact, and the dispatch about to be counted is not counted yet.
BudgetInv ==
    /\ reader \cap scheduled = {}
    /\ \A key \in KeySet : IsFiniteSet(Held(scheduled, key))
    /\ BudgetIsExact

\* In one process, the reservation on its way is the first since the freeze.
FreezeInv ==
    OneProcess =>
        /\ \A r \in Runners : slipped[r] <= 1 /\ (r \notin frozen => slipped[r] = 0)
        /\ \A d \in reader : slipped[RunnerOf(d)] = 0

IInv ==
    /\ SchedulerTypes
    /\ BudgetInv
    /\ ReleasedAtEnd
    /\ TripsInTime
    /\ FreezeInv

-----------------------------------------------------------------------------
(* Helpers *)

\* The larger of two integers.
LEMMA MaxOfTwo ==
    ASSUME NEW a \in Int, NEW b \in Int
    PROVE  Max({a, b}) = IF a >= b THEN a ELSE b
PROOF
<1> DEFINE larger == IF a >= b THEN a ELSE b
<1>1. larger \in {a, b} /\ \A y \in {a, b} : larger >= y
  OBVIOUS
<1>2. \A x \in {a, b} : (\A y \in {a, b} : x >= y) => x = larger
  OBVIOUS
<1> QED
  BY <1>1, <1>2, Zenon DEF Max

\* Release does not count below zero.
LEMMA Subtracted ==
    ASSUME NEW a \in Nat, NEW c \in Nat
    PROVE  Max({0, a - c}) = IF c <= a THEN a - c ELSE 0
PROOF
<1> DEFINE rest == a - c
<1>1. rest \in Int /\ (rest >= 0 <=> c <= a)
  OBVIOUS
<1> HIDE DEF rest
<1>2. Max({0, rest}) = IF 0 >= rest THEN 0 ELSE rest
  BY <1>1, MaxOfTwo
<1>3. Max({0, rest}) = IF c <= a THEN rest ELSE 0
  BY <1>1, <1>2
<1> QED
  BY <1>3, Zenon DEF rest

\* The window slides: it stays a list of outcomes, no longer than the policy's.
LEMMA SlideType ==
    ASSUME NEW w \in Seq(BOOLEAN), NEW failed \in BOOLEAN
    PROVE  Slide(w, failed) \in Seq(BOOLEAN) /\ Len(Slide(w, failed)) <= WindowSize
PROOF
<1> DEFINE longer == Append(w, failed)
           first == Max({1, Len(longer) - WindowSize + 1})
<1>1. longer \in Seq(BOOLEAN) /\ Len(longer) \in Nat /\ Len(longer) >= 1
  OBVIOUS
<1>2. WindowSize \in Nat /\ WindowSize >= 1
  BY PolicyAssumption
<1>3. first = IF 1 >= Len(longer) - WindowSize + 1 THEN 1 ELSE Len(longer) - WindowSize + 1
  BY <1>1, <1>2, MaxOfTwo
<1>4. Slide(w, failed) = SubSeq(longer, first, Len(longer))
  BY Zenon DEF Slide
<1> HIDE DEF longer
<1>5. first \in Int /\ first >= 1 /\ Len(longer) - first + 1 <= WindowSize
  BY <1>1, <1>2, <1>3
<1> HIDE DEF first
<1>6. \A i \in first .. Len(longer) : longer[i] \in BOOLEAN
  BY <1>1, <1>5, ElementOfSeq
<1>7. /\ SubSeq(longer, first, Len(longer)) \in Seq(BOOLEAN)
      /\ Len(SubSeq(longer, first, Len(longer))) =
            IF first <= Len(longer) THEN Len(longer) - first + 1 ELSE 0
  BY <1>1, <1>5, <1>6, SubSeqProperties
<1> QED
  BY <1>2, <1>4, <1>5, <1>7

\* Record keeps the circuit breaker's state well formed.
LEMMA RecordTypes ==
    ASSUME SchedulerTypes, NEW d \in Dispatches, NEW failed \in BOOLEAN,
           Record(StepOf[d], failed)
    PROVE  /\ window' \in [Tenants -> Seq(BOOLEAN)]
           /\ \A t \in Tenants : Len(window'[t]) <= WindowSize
           /\ open' \in [Tenants -> BOOLEAN]
           /\ \A t \in Tenants : open[t] => open'[t]
           /\ \A t \in Tenants : window'[t] = window[t] \/ (Tripped(window'[t]) => open'[t])
PROOF
<1> DEFINE tenant == StepOf[d].tenant
           w == Slide(window[tenant], failed)
<1>1. tenant \in Tenants
  BY Zenon DEF Tenants
<1>2. /\ window \in [Tenants -> Seq(BOOLEAN)]
      /\ \A t \in Tenants : Len(window[t]) <= WindowSize
      /\ open \in [Tenants -> BOOLEAN]
  BY Zenon DEF SchedulerTypes
<1>3. w \in Seq(BOOLEAN) /\ Len(w) <= WindowSize
  BY <1>1, <1>2, SlideType, Zenon
<1>4. CASE UNCHANGED <<window, open>>
  BY <1>2, <1>4, Zenon
<1>5. CASE /\ window' = [window EXCEPT ![tenant] = w]
           /\ open' = [open EXCEPT ![tenant] = @ \/ Tripped(w)]
  <2> HIDE DEF tenant, w
  <2>1. Tripped(w) \in BOOLEAN
    BY Zenon DEF Tripped
  <2> HIDE DEF Tripped
  <2>2. \A t \in Tenants : window'[t] = IF t = tenant THEN w ELSE window[t]
    BY <1>2, <1>5, Zenon
  <2>3. \A t \in Tenants : open'[t] = IF t = tenant THEN open[t] \/ Tripped(w) ELSE open[t]
    BY <1>2, <1>5, Zenon
  <2>4. window' \in [Tenants -> Seq(BOOLEAN)] /\ open' \in [Tenants -> BOOLEAN]
    BY <1>1, <1>2, <1>3, <1>5, <2>1, Zenon
  <2> QED
    BY <1>2, <1>3, <2>2, <2>3, <2>4, Zenon
<1> QED
  BY <1>4, <1>5, Zenon DEF Record

-----------------------------------------------------------------------------
(* Kinds of steps *)

\* A step that leaves the reservations alone.
Idle == UNCHANGED <<scheduled, active, window, open, restarts>>

\* A reservation is made, in time or late.
Reserves(d) ==
    /\ Dispatch(d)
    /\ UNCHANGED <<window, open, restarts>>
    /\ late \subseteq late'
    /\ phase'[d] = "ended" => d \in late'
    /\ \A e \in Dispatches \ {d} : phase'[e] = phase[e]

\* Every step of the coordinator makes a reservation, gives one back, forgets all
\* of them in a restart, or leaves them alone.
LEMMA StepKinds ==
    ASSUME SchedulerTypes, Next
    PROVE  \/ Idle
           \/ \E d \in Dispatches : Reserves(d)
           \/ \E d \in Dispatches, failed \in BOOLEAN : CompleteReleases(d, failed)
           \/ WorkerRestart
PROOF
<1>1. ASSUME NEW d \in Dispatches, AcquireGrants(d) PROVE Reserves(d)
  BY <1>1, Zenon DEF AcquireGrants, Reserves, SchedulerTypes
<1>2. ASSUME NEW d \in Dispatches, AcquireLate(d) PROVE Reserves(d)
  BY <1>2, Zenon DEF AcquireLate, Reserves
<1>3. ASSUME NEW d \in Dispatches,
             \/ Call(d) \/ ReadCapacity(d) \/ AcquireFinds(d) \/ AcquireRefuses(d)
             \/ RefusesLate(d) \/ WorkflowFails(d) \/ Finish(d) \/ CompleteFindsNothing(d)
      PROVE  Idle
  BY <1>3, Zenon DEF Call, ReadCapacity, AcquireFinds, AcquireRefuses, RefusesLate,
     WorkflowFails, Finish, CompleteFindsNothing, Idle
<1>4. ASSUME NEW r \in Freezable, FreezeRunner(r) PROVE Idle
  BY <1>4, Zenon DEF FreezeRunner, Idle
<1> QED
  BY <1>1, <1>2, <1>3, <1>4, Zenon DEF Next

\* Every action keeps the types.
LEMMA NextTypes ==
    ASSUME SchedulerTypes, [Next]_vars
    PROVE  SchedulerTypes'
PROOF
<1> USE DEF SchedulerTypes
<1>1. ASSUME NEW d \in Dispatches,
             \/ Call(d) \/ AcquireFinds(d)
             \/ WorkflowFails(d) \/ Finish(d) \/ CompleteFindsNothing(d)
      PROVE  SchedulerTypes'
  BY <1>1, Zenon DEF Call, AcquireFinds, WorkflowFails, Finish, CompleteFindsNothing, freezing
<1>2. ASSUME NEW d \in Dispatches, ReadCapacity(d) \/ AcquireRefuses(d) \/ RefusesLate(d)
      PROVE  SchedulerTypes'
  BY <1>2, Zenon DEF ReadCapacity, AcquireRefuses, RefusesLate
<1>3. ASSUME NEW d \in Dispatches, AcquireGrants(d) \/ AcquireLate(d)
      PROVE  SchedulerTypes'
  <2>1. Dispatch(d) /\ UNCHANGED <<window, open, restarts>>
    BY <1>3, Zenon DEF AcquireGrants, AcquireLate
  <2>2. active' \in [KeySet -> Nat]
    BY <2>1, UsesFinite DEF Dispatch, TryAcquire
  <2>3. RunnerOf(d) \in Runners
    BY Zenon DEF Runners
  <2>4. slipped' \in [Runners -> Nat]
    BY <2>1, <2>3 DEF Dispatch
  <2>5. scheduled' \subseteq Dispatches /\ reader' = {} /\ frozen' = frozen
    BY <2>1, Zenon DEF Dispatch
  <2>6. late' \subseteq Dispatches
    BY <1>3, Zenon DEF AcquireGrants, AcquireLate
  <2>7. phase' \in [Dispatches -> {"idle", "acquiring", "holding", "completing", "ended",
                                   "failed"}]
    BY <1>3, Zenon DEF AcquireGrants, AcquireLate
  <2> QED
    BY <2>1, <2>2, <2>4, <2>5, <2>6, <2>7
<1>4. ASSUME NEW d \in Dispatches, NEW failed \in BOOLEAN, CompleteReleases(d, failed)
      PROVE  SchedulerTypes'
  <2>1. ASSUME NEW key \in KeySet PROVE Max({0, active[key] - Count[d][key]}) \in Nat
    <3>1. active[key] \in Nat /\ Count[d][key] \in Nat
      BY UsesFinite, Zenon
    <3>2. Max({0, active[key] - Count[d][key]}) =
             IF Count[d][key] <= active[key] THEN active[key] - Count[d][key] ELSE 0
      BY <3>1, Subtracted, Zenon
    <3> QED
      BY <3>1, <3>2
  <2>2. active' \in [KeySet -> Nat]
    BY <1>4, <2>1, Zenon DEF CompleteReleases, ReleaseBudget
  <2>3. Record(StepOf[d], failed)
    BY <1>4, Zenon DEF CompleteReleases
  <2>4. /\ window' \in [Tenants -> Seq(BOOLEAN)]
        /\ \A t \in Tenants : Len(window'[t]) <= WindowSize
        /\ open' \in [Tenants -> BOOLEAN]
    BY <2>3, RecordTypes, Zenon
  <2> QED
    BY <1>4, <2>2, <2>4, Zenon DEF CompleteReleases, freezing
<1>5. ASSUME NEW r \in Freezable, FreezeRunner(r) PROVE SchedulerTypes'
  <2>1. r \in Runners
    BY PolicyAssumption, Zenon DEF Runners, RunnerOf
  <2> QED
    BY <1>5, <2>1, Zenon DEF FreezeRunner
<1>6. CASE WorkerRestart
  <2>1. WindowSize \in Nat /\ MaxRestarts \in Nat
    BY PolicyAssumption, Zenon
  <2>2. <<>> \in Seq(BOOLEAN) /\ Len(<<>>) = 0
    BY EmptySeq, Zenon
  <2> QED
    BY <1>6, <2>1, <2>2 DEF WorkerRestart, Fresh
<1>7. CASE UNCHANGED vars
  BY <1>7, Zenon DEF vars, freezing
<1> QED
  BY <1>1, <1>2, <1>3, <1>4, <1>5, <1>6, <1>7, Zenon DEF Next

-----------------------------------------------------------------------------
(* The budget *)

\* A step that leaves the reservations alone reads a capacity only for a dispatch
\* that has none.
LEMMA IdleReads ==
    ASSUME SchedulerTypes, reader \cap scheduled = {}, Next, Idle
    PROVE  reader' \cap scheduled' = {}
PROOF
<1>1. scheduled' = scheduled
  BY Zenon DEF Idle
<1>2. ASSUME NEW d \in Dispatches, ReadCapacity(d) PROVE reader' \cap scheduled' = {}
  BY <1>1, <1>2, Zenon DEF ReadCapacity
<1>3. ASSUME NEW d \in Dispatches,
             \/ AcquireGrants(d) \/ AcquireRefuses(d) \/ AcquireLate(d) \/ RefusesLate(d)
      PROVE  reader' \cap scheduled' = {}
  BY <1>3, Zenon DEF AcquireGrants, AcquireRefuses, AcquireLate, RefusesLate,
     Dispatch
<1>4. ASSUME NEW d \in Dispatches,
             \/ Call(d) \/ AcquireFinds(d) \/ WorkflowFails(d) \/ Finish(d)
             \/ CompleteFindsNothing(d) \/ \E failed \in BOOLEAN : CompleteReleases(d, failed)
      PROVE  reader' = reader
  BY <1>4, Zenon DEF Call, AcquireFinds, WorkflowFails, Finish,
     CompleteFindsNothing, CompleteReleases, freezing
<1>5. ASSUME NEW r \in Freezable, FreezeRunner(r) PROVE reader' = reader
  BY <1>5, Zenon DEF FreezeRunner
<1>6. CASE WorkerRestart
  BY <1>6, Zenon DEF WorkerRestart, Fresh
<1> QED
  BY <1>1, <1>2, <1>3, <1>4, <1>5, <1>6, Zenon DEF Next

\* A reservation counts each of the dispatch's keys, and only under limits that
\* are not reached yet.
LEMMA ReservesBudget ==
    ASSUME SchedulerTypes, BudgetInv, NEW d \in Dispatches, Dispatch(d)
    PROVE  BudgetInv'
PROOF
<1>1. /\ d \notin scheduled /\ scheduled \in SUBSET Dispatches
      /\ scheduled' = scheduled \cup {d} /\ reader' = {}
      /\ Blocked(d) = {}
      /\ active \in [KeySet -> Nat]
      /\ active' = [key \in KeySet |-> active[key] + Count[d][key]]
  BY Zenon DEF SchedulerTypes, BudgetInv, Dispatch, TryAcquire
<1>2. ASSUME NEW key \in KeySet
      PROVE  /\ IsFiniteSet(Held(scheduled', key))
             /\ active'[key] = Cardinality(Held(scheduled', key))
             /\ Cardinality({e \in scheduled' : key \in KeysOf[e]}) <= LimitOf(key)
  <2> DEFINE holders == {e \in scheduled : key \in KeysOf[e]}
  <2>1. IsFiniteSet(Held(scheduled, key)) /\ active[key] = Cardinality(Held(scheduled, key))
    BY Zenon DEF BudgetInv, BudgetIsExact
  <2>2. /\ IsFiniteSet(Held(scheduled \cup {d}, key))
        /\ Cardinality(Held(scheduled \cup {d}, key)) =
              Cardinality(Held(scheduled, key)) + Count[d][key]
    BY <1>1, <2>1, HeldGrows, Zenon
  <2>3. active'[key] = active[key] + Count[d][key]
    BY <1>1, Zenon
  <2>4. /\ IsFiniteSet(holders)
        /\ Cardinality(holders) <= active[key]
        /\ Cardinality(holders) <= LimitOf(key)
    BY <1>1, <2>1, HoldersBounded, Zenon DEF BudgetInv, BudgetIsExact
  <2>5. Cardinality(holders) \in Nat
    BY <2>4, FS_CardinalityType, Zenon
  <2>6. active[key] \in Nat /\ LimitOf(key) \in Nat
    BY <1>1, LimitAssumption, Zenon
  <2>7. CASE key \in KeysOf[d]
    <3>1. {e \in scheduled' : key \in KeysOf[e]} = holders \cup {d} /\ d \notin holders
      BY <1>1, <2>7, Zenon
    <3>2. ~(active[key] >= LimitOf(key))
      BY <1>1, <2>7, Zenon DEF Blocked
    <3> HIDE DEF holders
    <3>3. Cardinality(holders \cup {d}) = Cardinality(holders) + 1
      BY <2>4, <3>1, FS_AddElement, Zenon
    <3>4. Cardinality(holders) + 1 <= LimitOf(key)
      BY <2>4, <2>5, <2>6, <3>2
    <3> QED
      BY <1>1, <2>1, <2>2, <2>3, <3>1, <3>3, <3>4, Zenon
  <2>8. CASE key \notin KeysOf[d]
    <3>1. {e \in scheduled' : key \in KeysOf[e]} = holders
      BY <1>1, <2>8, Zenon
    <3> QED
      BY <1>1, <2>1, <2>2, <2>3, <2>4, <3>1, Zenon
  <2> QED
    BY <2>7, <2>8, Zenon
<1> QED
  BY <1>1, <1>2, Zenon DEF BudgetInv, BudgetIsExact

\* A completion gives back what the dispatch held, and never counts below zero.
LEMMA CompletesBudget ==
    ASSUME SchedulerTypes, BudgetInv, NEW d \in Dispatches, NEW failed \in BOOLEAN,
           CompleteReleases(d, failed)
    PROVE  BudgetInv'
PROOF
<1>1. /\ d \in scheduled /\ scheduled \in SUBSET Dispatches
      /\ scheduled' = scheduled \ {d} /\ reader' = reader /\ reader = {}
      /\ active \in [KeySet -> Nat]
      /\ active' = [key \in KeySet |-> Max({0, active[key] - Count[d][key]})]
  BY Zenon DEF SchedulerTypes, CompleteReleases, ReleaseBudget, freezing
<1>2. ASSUME NEW key \in KeySet
      PROVE  /\ IsFiniteSet(Held(scheduled', key))
             /\ active'[key] = Cardinality(Held(scheduled', key))
             /\ Cardinality({e \in scheduled' : key \in KeysOf[e]}) <= LimitOf(key)
  <2> DEFINE holders == {e \in scheduled : key \in KeysOf[e]}
             left == {e \in scheduled \ {d} : key \in KeysOf[e]}
  <2>1. /\ IsFiniteSet(Held(scheduled, key)) /\ active[key] = Cardinality(Held(scheduled, key))
        /\ Cardinality(holders) <= LimitOf(key)
    BY Zenon DEF BudgetInv, BudgetIsExact
  <2>2. /\ IsFiniteSet(Held(scheduled \ {d}, key))
        /\ Cardinality(Held(scheduled \ {d}, key)) \in Nat
        /\ Cardinality(Held(scheduled, key)) =
              Cardinality(Held(scheduled \ {d}, key)) + Count[d][key]
    BY <1>1, <2>1, HeldShrinks, Zenon
  <2>3. Count[d][key] \in Nat /\ active[key] \in Nat
    BY <1>1, UsesFinite, Zenon
  <2>4. active'[key] = Max({0, active[key] - Count[d][key]})
    BY <1>1, Zenon
  <2>5. active'[key] = IF Count[d][key] <= active[key] THEN active[key] - Count[d][key] ELSE 0
    BY <2>3, <2>4, Subtracted, Zenon
  <2>6. active'[key] = Cardinality(Held(scheduled \ {d}, key))
    BY <2>1, <2>2, <2>3, <2>5
  <2>7. IsFiniteSet(holders)
    BY <1>1, <2>1, HoldersBounded, Zenon
  <2>8. left \subseteq holders
    OBVIOUS
  <2>9. Cardinality(left) <= Cardinality(holders) /\ Cardinality(left) \in Nat
        /\ Cardinality(holders) \in Nat
    <3> HIDE DEF left, holders
    <3> QED
      BY <2>7, <2>8, FS_Subset, FS_CardinalityType, Zenon
  <2>10. Cardinality(left) <= LimitOf(key)
    BY <2>1, <2>9, LimitAssumption
  <2> QED
    BY <1>1, <2>2, <2>6, <2>10, Zenon
<1> QED
  BY <1>1, <1>2, Zenon DEF BudgetInv, BudgetIsExact

\* A fresh coordinator holds nothing.
LEMMA EmptyBudget ==
    ASSUME NEW key \in KeySet
    PROVE  /\ IsFiniteSet(Held({}, key)) /\ Cardinality(Held({}, key)) = 0
           /\ Cardinality({d \in {} : key \in KeysOf[d]}) <= LimitOf(key)
PROOF
<1>1. Held({}, key) = {} /\ {d \in {} : key \in KeysOf[d]} = {}
  BY Zenon DEF Held
<1>2. LimitOf(key) \in Nat
  BY LimitAssumption, Zenon
<1> QED
  BY <1>1, <1>2, FS_EmptySet

\* The budget stays exact whatever the next step is.
LEMMA NextBudget ==
    ASSUME SchedulerTypes, BudgetInv, [Next]_vars
    PROVE  BudgetInv'
PROOF
<1>1. CASE Next /\ Idle
  <2>1. reader' \cap scheduled' = {}
    BY <1>1, IdleReads, Zenon DEF BudgetInv
  <2>2. scheduled' = scheduled /\ active' = active
    BY <1>1, Zenon DEF Idle
  <2> QED
    BY <2>1, <2>2, Zenon DEF BudgetInv, BudgetIsExact
<1>2. ASSUME NEW d \in Dispatches, Reserves(d) PROVE BudgetInv'
  BY <1>2, ReservesBudget, Zenon DEF Reserves
<1>3. ASSUME NEW d \in Dispatches, NEW failed \in BOOLEAN, CompleteReleases(d, failed)
      PROVE  BudgetInv'
  BY <1>3, CompletesBudget, Zenon
<1>4. CASE WorkerRestart
  <2>1. scheduled' = {} /\ active' = [key \in KeySet |-> 0] /\ reader' = {}
    BY <1>4, Zenon DEF WorkerRestart, Fresh
  <2> QED
    BY <2>1, EmptyBudget, Zenon DEF BudgetInv, BudgetIsExact
<1>5. CASE UNCHANGED vars
  BY <1>5, Zenon DEF vars, freezing, BudgetInv, BudgetIsExact
<1> QED
  BY <1>1, <1>2, <1>3, <1>4, <1>5, StepKinds

-----------------------------------------------------------------------------
(* The end of a dispatch, the circuit breaker and the freeze *)

\* A step ends without a reservation, or one came late.
LEMMA NextReleased ==
    ASSUME SchedulerTypes, ReleasedAtEnd, [Next]_vars
    PROVE  ReleasedAtEnd'
PROOF
<1> USE DEF SchedulerTypes, ReleasedAtEnd
<1>1. ASSUME NEW d \in Dispatches,
             \/ Call(d) \/ ReadCapacity(d) \/ AcquireFinds(d) \/ AcquireRefuses(d)
             \/ RefusesLate(d) \/ WorkflowFails(d) \/ Finish(d) \/ CompleteFindsNothing(d)
      PROVE  ReleasedAtEnd'
  BY <1>1, Zenon DEF Call, ReadCapacity, AcquireFinds, AcquireRefuses, RefusesLate,
     WorkflowFails, Finish, CompleteFindsNothing
<1>2. ASSUME NEW d \in Dispatches, AcquireGrants(d) PROVE ReleasedAtEnd'
  BY <1>2, Zenon DEF AcquireGrants, Dispatch
<1>3. ASSUME NEW d \in Dispatches, AcquireLate(d) PROVE ReleasedAtEnd'
  BY <1>3, Zenon DEF AcquireLate, Dispatch
<1>4. ASSUME NEW d \in Dispatches, NEW failed \in BOOLEAN, CompleteReleases(d, failed)
      PROVE  ReleasedAtEnd'
  BY <1>4, Zenon DEF CompleteReleases
<1>5. ASSUME NEW r \in Freezable, FreezeRunner(r) PROVE ReleasedAtEnd'
  BY <1>5, Zenon DEF FreezeRunner
<1>6. CASE WorkerRestart
  BY <1>6, Zenon DEF WorkerRestart, Fresh
<1>7. CASE UNCHANGED vars
  BY <1>7, Zenon DEF vars
<1> QED
  BY <1>1, <1>2, <1>3, <1>4, <1>5, <1>6, <1>7 DEF Next

\* What Record compares is the policy's threshold.
LEMMA ThresholdTrips == \A w : ThresholdMet(w) <=> Tripped(w)
PROOF
  BY Zenon DEF ThresholdMet, Tripped, Failures

\* Only Record moves a window, and it looks at the window it leaves.
LEMMA NextTrips ==
    ASSUME SchedulerTypes, TripsInTime, [Next]_vars
    PROVE  TripsInTime'
PROOF
<1>1. CASE window' = window /\ open' = open
  BY <1>1, Zenon DEF TripsInTime, ThresholdMet
<1>2. ASSUME NEW d \in Dispatches, NEW failed \in BOOLEAN, CompleteReleases(d, failed)
      PROVE  TripsInTime'
  <2>1. Record(StepOf[d], failed)
    BY <1>2, Zenon DEF CompleteReleases
  <2>2. ASSUME NEW t \in Tenants, Tripped(window'[t]) PROVE open'[t]
    <3>1. open[t] => open'[t]
      BY <2>1, RecordTypes, Zenon
    <3>2. window'[t] = window[t] \/ (Tripped(window'[t]) => open'[t])
      BY <2>1, RecordTypes, Zenon
    <3>3. CASE window'[t] = window[t]
      BY <2>2, <3>1, <3>3, ThresholdTrips, Zenon DEF TripsInTime
    <3> QED
      BY <2>2, <3>2, <3>3, Zenon
  <2> QED
    BY <2>2, ThresholdTrips, Zenon DEF TripsInTime
<1>3. CASE WorkerRestart
  <2>1. window' = [t \in Tenants |-> <<>>]
    BY <1>3, Zenon DEF WorkerRestart, Fresh
  <2>2. ~ Tripped(<<>>)
    BY PolicyAssumption DEF Tripped
  <2>3. \A t \in Tenants : ~ Tripped(window'[t])
    BY <2>1, <2>2, Zenon
  <2> QED
    BY <2>3, ThresholdTrips, Zenon DEF TripsInTime
<1>4. CASE UNCHANGED vars
  BY <1>1, <1>4, Zenon DEF vars
<1> QED
  BY <1>1, <1>2, <1>3, <1>4, StepKinds, Zenon DEF Idle, Reserves

\* In one process a capacity is read only for a runner that is not frozen, so the
\* reservation that follows is the first of its freeze.
LEMMA NextFreeze ==
    ASSUME SchedulerTypes, FreezeInv, [Next]_vars
    PROVE  FreezeInv'
PROOF
<1> SUFFICES ASSUME OneProcess
             PROVE  /\ \A r \in Runners :
                          slipped'[r] <= 1 /\ (r \notin frozen' => slipped'[r] = 0)
                    /\ \A d \in reader' : slipped'[RunnerOf(d)] = 0
  BY Zenon DEF FreezeInv, RunnerOf
<1> DEFINE Goal == /\ \A r \in Runners :
                          slipped'[r] <= 1 /\ (r \notin frozen' => slipped'[r] = 0)
                   /\ \A d \in reader' : slipped'[RunnerOf(d)] = 0
<1>1. /\ \A r \in Runners : slipped[r] <= 1 /\ (r \notin frozen => slipped[r] = 0)
      /\ \A d \in reader : slipped[RunnerOf(d)] = 0
  BY Zenon DEF FreezeInv
<1>2. CASE slipped' = slipped /\ frozen \subseteq frozen' /\ reader' \subseteq reader
  BY <1>1, <1>2, Zenon
<1>3. ASSUME NEW d \in Dispatches, ReadCapacity(d) PROVE Goal
  <2>1. RunnerOf(d) \in Runners /\ RunnerOf(d) \notin frozen
    BY <1>3, Zenon DEF ReadCapacity, Runners
  <2>2. reader' = {d} /\ slipped' = slipped /\ frozen' = frozen
    BY <1>3, Zenon DEF ReadCapacity
  <2> QED
    BY <1>1, <2>1, <2>2, Zenon
<1>4. ASSUME NEW d \in Dispatches, Dispatch(d) PROVE Goal
  <2> DEFINE own == RunnerOf(d)
  <2>1. own \in Runners /\ d \in reader /\ reader' = {} /\ frozen' = frozen
    BY <1>4, Zenon DEF Dispatch, Runners
  <2>2. slipped' = [slipped EXCEPT ![own] = IF own \in frozen THEN @ + 1 ELSE 0]
    BY <1>4, Zenon DEF Dispatch
  <2>3. slipped[own] = 0
    BY <1>1, <2>1, Zenon
  <2> HIDE DEF own
  <2>4. \A r \in Runners :
           slipped'[r] = IF r = own THEN (IF own \in frozen THEN 1 ELSE 0) ELSE slipped[r]
    BY <2>1, <2>2, <2>3 DEF SchedulerTypes
  <2> QED
    BY <1>1, <2>1, <2>4
<1>5. ASSUME WorkerRestart PROVE Goal
  BY <1>5 DEF WorkerRestart, Fresh
<1>6. ASSUME NEW d \in Dispatches, AcquireRefuses(d) \/ RefusesLate(d) PROVE Goal
  BY <1>2, <1>6, Zenon DEF AcquireRefuses, RefusesLate
<1>7. ASSUME NEW d \in Dispatches,
             \/ Call(d) \/ AcquireFinds(d) \/ WorkflowFails(d) \/ Finish(d)
             \/ CompleteFindsNothing(d) \/ \E failed \in BOOLEAN : CompleteReleases(d, failed)
      PROVE  Goal
  BY <1>2, <1>7, Zenon DEF Call, AcquireFinds, WorkflowFails, Finish, CompleteFindsNothing,
                    CompleteReleases, freezing
<1>8. ASSUME NEW r \in Freezable, FreezeRunner(r) PROVE Goal
  BY <1>2, <1>8, Zenon DEF FreezeRunner
<1>9. ASSUME NEW d \in Dispatches, AcquireGrants(d) \/ AcquireLate(d) PROVE Goal
  BY <1>4, <1>9, Zenon DEF AcquireGrants, AcquireLate
<1>10. ASSUME UNCHANGED vars PROVE Goal
  BY <1>2, <1>10, Zenon DEF vars, freezing
<1> HIDE DEF Goal
<1>11. Goal
  BY <1>3, <1>5, <1>6, <1>7, <1>8, <1>9, <1>10, Zenon DEF Next
<1> QED
  BY <1>11, Zenon DEF Goal

-----------------------------------------------------------------------------
(* Theorems *)

\* Every behaviour of the coordinator keeps the inductive invariant.
LEMMA Invariance == Spec => []IInv
PROOF
<1>1. Init => IInv
  <2> SUFFICES ASSUME Init PROVE IInv
    OBVIOUS
  <2>1. SchedulerTypes
    <3>1. <<>> \in Seq(BOOLEAN) /\ Len(<<>>) = 0
      BY EmptySeq, Zenon
    <3>2. WindowSize \in Nat /\ MaxRestarts \in Nat
      BY PolicyAssumption, Zenon
    <3>3. /\ scheduled = {} /\ frozen = {} /\ reader = {} /\ late = {} /\ restarts = 0
          /\ phase = [d \in Dispatches |-> "idle"]
          /\ active = [key \in KeySet |-> 0]
          /\ window = [t \in Tenants |-> <<>>]
          /\ open = [t \in Tenants |-> FALSE]
          /\ slipped = [r \in Runners |-> 0]
      BY Zenon DEF Init, Fresh
    <3>4. window \in [Tenants -> Seq(BOOLEAN)] /\ \A t \in Tenants : Len(window[t]) <= WindowSize
      BY <3>1, <3>2, <3>3
    <3> QED
      BY <3>2, <3>3, <3>4 DEF SchedulerTypes
  <2>2. scheduled = {} /\ active = [key \in KeySet |-> 0] /\ reader = {}
    BY Zenon DEF Init, Fresh
  <2>3. BudgetInv
    BY <2>2, EmptyBudget, Zenon DEF BudgetInv, BudgetIsExact
  <2>4. ReleasedAtEnd
    BY <2>2, Zenon DEF ReleasedAtEnd
  <2>5. TripsInTime
    <3>1. \A t \in Tenants : window[t] = <<>>
      BY Zenon DEF Init, Fresh
    <3>2. ~ Tripped(<<>>)
      BY PolicyAssumption DEF Tripped
    <3> QED
      BY <3>1, <3>2, ThresholdTrips, Zenon DEF TripsInTime
  <2>6. FreezeInv
    BY <2>2 DEF FreezeInv, Init, Fresh
  <2> QED
    BY <2>1, <2>3, <2>4, <2>5, <2>6, Zenon DEF IInv
<1>2. IInv /\ [Next]_vars => IInv'
  <2> SUFFICES ASSUME IInv, [Next]_vars PROVE IInv'
    OBVIOUS
  <2>1. SchedulerTypes /\ BudgetInv /\ ReleasedAtEnd /\ TripsInTime /\ FreezeInv
    BY Zenon DEF IInv
  <2>2. SchedulerTypes'
    BY <2>1, NextTypes, Zenon
  <2>3. BudgetInv'
    BY <2>1, NextBudget, Zenon
  <2>4. ReleasedAtEnd'
    BY <2>1, NextReleased, Zenon
  <2>5. TripsInTime'
    BY <2>1, NextTrips, Zenon
  <2>6. FreezeInv'
    BY <2>1, NextFreeze, Zenon
  <2> QED
    BY <2>2, <2>3, <2>4, <2>5, <2>6, Zenon DEF IInv
<1> QED
  BY <1>1, <1>2, PTL DEF Spec

\* The budget counts exactly what the scheduled map holds and exceeds no limit,
\* whatever the limits and however often a step names a failure domain
\* (Budget.TryAcquire, Budget.Release).
THEOREM BudgetExact == Spec => []BudgetIsExact
PROOF
<1>1. IInv => BudgetIsExact
  BY Zenon DEF IInv, BudgetInv
<1> QED
  BY <1>1, Invariance, PTL

\* A step that went through CompleteSchedule, or was refused, holds nothing unless
\* an attempt of AcquireSchedule came late.
THEOREM EndsReleased == Spec => []ReleasedAtEnd
PROOF
<1>1. IInv => ReleasedAtEnd
  BY Zenon DEF IInv
<1> QED
  BY <1>1, Invariance, PTL

\* Under every policy, a window that meets the threshold has opened the circuit
\* (CircuitBreaker.Record).
THEOREM BreakerTrips == Spec => []TripsInTime
PROOF
<1>1. IInv => TripsInTime
  BY Zenon DEF IInv
<1> QED
  BY <1>1, Invariance, PTL

\* When the worker runs in the process that serves the API, a frozen runner gets at
\* most the one reservation that had passed the check (FreezeRunner).
THEOREM FreezeIsKept ==
    ASSUME OneProcess
    PROVE  Spec => []FreezeHolds
PROOF
<1>1. IInv => FreezeHolds
  BY Zenon DEF IInv, FreezeInv, FreezeHolds
<1> QED
  BY <1>1, Invariance, PTL

\* An open circuit is closed by a restart of the worker only, and until then no
\* reservation for production is made for the tenant (CircuitBreaker.Allow).
THEOREM OpenCircuitStops == Spec => OpenStopsProduction
PROOF
<1> DEFINE Stops == \A t \in Tenants : open[t] =>
                      \/ restarts' # restarts
                      \/ /\ open'[t]
                         /\ \A d \in scheduled' \ scheduled :
                              ~(StepOf[d].tenant = t /\ StepOf[d].environment = "production")
<1>1. IInv /\ [Next]_vars => [Stops]_vars
  <2> SUFFICES ASSUME IInv, Next PROVE Stops
    OBVIOUS
  <2>1. SchedulerTypes
    BY Zenon DEF IInv
  <2>2. CASE Idle
    BY <2>2, Zenon DEF Idle
  <2>3. ASSUME NEW e \in Dispatches, Reserves(e) PROVE Stops
    BY <2>3, Zenon DEF Reserves, Dispatch, Allow
  <2>4. ASSUME NEW e \in Dispatches, NEW failed \in BOOLEAN, CompleteReleases(e, failed)
        PROVE  Stops
    <3>1. Record(StepOf[e], failed) /\ scheduled' = scheduled \ {e}
      BY <2>4, Zenon DEF CompleteReleases
    <3>2. \A t \in Tenants : open[t] => open'[t]
      BY <2>1, <3>1, RecordTypes, Zenon
    <3> QED
      BY <3>1, <3>2, Zenon
  <2>5. CASE WorkerRestart
    BY <2>1, <2>5 DEF WorkerRestart, SchedulerTypes
  <2> QED
    BY <2>1, <2>2, <2>3, <2>4, <2>5, StepKinds
<1>2. [][Next]_vars /\ []IInv => [][Stops]_vars
  BY <1>1, PTL
<1> QED
  BY <1>2, Invariance, PTL DEF Spec, OpenStopsProduction
=============================================================================
