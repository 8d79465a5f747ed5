------------------------- MODULE ReleasePlanProofs --------------------------
(***************************************************************************)
(* The safety properties of ReleasePlan for any catalog, any repetition of *)
(* a dependency in it, any selection, and any keys and limits.             *)
(*                                                                         *)
(* What the ordering leaves to do is counted: a service's counter is the   *)
(* number of its entries for services not yet processed, so a service that *)
(* is ready has all its parents behind it, and one that never becomes      *)
(* ready stands behind a cycle.                                            *)
(***************************************************************************)
EXTENDS ReleasePlan, FiniteSetTheorems, TLAPS

PlanTypes ==
    /\ made \in Constructors
    /\ times \in [Services -> [Services -> 0 .. MaxTimes[made]]]
    /\ release \in [Services -> Nat]
    /\ phase \in [Services -> Nat]
    /\ selected \subseteq Services
    /\ processed \subseteq selected
    /\ pc \in {"contracts", "rejected", "loaded", "planning", "cycle",
               "waves", "wave", "done", "stuck"}

\* The counts are those of the entries not processed, and the services that have
\* none are ready.
Counted ==
    /\ indegree \in [Services -> Nat]
    /\ \A s \in selected : indegree[s] = Names(s, selected \ processed)
    /\ ready = {s \in selected \ processed : indegree[s] = 0}

\* What was processed is in order: it has its dependencies, no cycle, and a phase
\* after theirs.  No service was delayed further than that.
InOrder ==
    /\ \A s \in processed : Deps(s) \subseteq processed
    /\ \A S \in SUBSET processed : S # {} => \E s \in S : Deps(s) \cap S = {}
    /\ \A s \in selected :
          /\ \A d \in Deps(s) \cap processed : phase[d] < phase[s]
          /\ \/ phase[s] = release[s]
             \/ \E d \in Deps(s) \cap processed : phase[s] = phase[d] + 1

\* Where planning stands says what it has found; accepted contracts are ordered by
\* their release phases, which planning keeps.
Found ==
    /\ pc \in {"contracts", "rejected"} => selected = Services /\ made = "NewFromContracts"
    /\ pc \in {"rejected", "cycle"} => ready = {} /\ processed # selected
    /\ Planned \/ (pc = "loaded" /\ made = "NewFromContracts") => processed = selected
    /\ made = "NewFromContracts" /\ pc \notin {"contracts", "rejected"} =>
          /\ pc # "cycle"
          /\ phase = release
          /\ \A s, d \in Services : times[s][d] > 0 => release[d] < release[s]

PlanInv == PlanTypes /\ Counted /\ InOrder /\ Found

\* The steps of a plan are waiting, or tried for the next wave, or in a wave; only
\* while a wave is built does it have candidates and reservations.
WaveTypes ==
    /\ pending \subseteq selected
    /\ Planned \/ pending = {}
    /\ taken \subseteq pending
    /\ queue \subseteq pending
    /\ active \in [Keys -> Nat]
    /\ wave \in [Services -> Nat]
    /\ waves \in Nat
    /\ pc # "wave" => taken = {} /\ queue = {} /\ active = [k \in Keys |-> 0]

\* Waves follow the phases.
WaveOrder ==
    /\ \A s \in selected \ pending :
          /\ wave[s] < waves
          /\ \A t \in selected : phase[t] < phase[s] => t \notin pending /\ wave[t] < wave[s]
    /\ \A s \in queue \cup taken : \A t \in pending : phase[s] <= phase[t]

UsersOf(k, S) == {s \in S : Uses[s][k] > 0}
InWave(w) == {s \in selected \ pending : wave[s] = w}

\* The wave being built holds what the budget has reserved for it, and every wave
\* stays within the limits.
WaveLimits ==
    \A k \in Keys :
        /\ Cardinality(UsersOf(k, taken)) <= active[k]
        /\ Cardinality(UsersOf(k, taken)) <= LimitOf[k]
        /\ \A w \in Nat : Cardinality(UsersOf(k, InWave(w))) <= LimitOf[k]

\* A wave is never built in vain: a step is left to try, or was taken.
WaveProgress ==
    /\ pc # "stuck"
    /\ pc = "wave" /\ taken = {} => queue # {} /\ active = [k \in Keys |-> 0]

WaveInv ==
    /\ WaveTypes
    /\ WaveProgress
    /\ Planned => WaveOrder /\ WaveLimits

PlanIInv == PlanInv /\ WaveInv

-----------------------------------------------------------------------------

\* A nonempty set of natural numbers has a least one.
LEMMA NatLeast ==
  ASSUME NEW T, T \subseteq Nat, T # {}
  PROVE  \E x \in T : \A y \in T : x <= y
<1> DEFINE R == OpToRel(<, Nat)
<1>1. IsWellFoundedOn(R, Nat)
  BY NatLessThanWellFounded, Zenon
<1>2. \A x, y \in Nat : x < y => <<x, y>> \in R
  BY Zenon DEF OpToRel
<1> HIDE DEF R
<1>3. PICK x \in T : \A y \in T : ~ (<<y, x>> \in R)
  BY <1>1, WFMin, Zenon
<1>4. \A y \in T : x \in Nat /\ y \in Nat /\ ~ (y < x)
  BY <1>2, <1>3, Zenon
<1>5. QED
  BY <1>4

\* Counting one more user of a key, when the key has room.
LEMMA OneMore ==
  ASSUME NEW c \in Nat, NEW d \in {c, c + 1}, NEW a \in Nat, NEW u \in Nat, NEW l \in Nat,
         c <= a, c <= l, u > 0 => a < l, ~ (u > 0) => d = c
  PROVE  d <= a + u /\ d <= l
BY SMT

\* A nonempty set of services has one with the smallest value of a phase.
LEMMA LeastService ==
  ASSUME NEW S \in SUBSET Services, S # {}, NEW f \in [Services -> Nat]
  PROVE  \E s \in S : \A t \in S : f[s] <= f[t]
<1> DEFINE T == {f[s] : s \in S}
<1>1. T \subseteq Nat /\ T # {}
  OBVIOUS
<1>2. PICK x \in T : \A y \in T : x <= y
  BY <1>1, NatLeast, Zenon
<1>3. QED
  BY <1>2, Zenon

\* The entries of a service are finitely many, and it has none exactly when it
\* names none of the services.
LEMMA NoNames ==
  ASSUME Parameters, PlanTypes, NEW s \in Services, NEW A \in SUBSET Services
  PROVE  /\ IsFiniteSet(Entries(s, A))
         /\ Names(s, A) \in Nat
         /\ Names(s, A) = 0 <=> \A d \in A : ~ (times[s][d] > 0)
<1> DEFINE M == MaxTimes[made]
<1>1. M \in Nat /\ \A d \in Services : times[s][d] \in 0 .. M
  BY DEF Parameters, PlanTypes
<1>2. IsFiniteSet(A \X (1 .. M))
  <2>1. IsFiniteSet(A)
    BY FS_Subset, Zenon DEF Parameters
  <2>2. IsFiniteSet(1 .. M)
    BY <1>1, FS_Interval
  <2>3. QED
    BY <2>1, <2>2, FS_Product, Zenon
<1>3. IsFiniteSet(Entries(s, A))
  <2>1. Entries(s, A) \in SUBSET (A \X (1 .. M))
    BY Zenon DEF Entries
  <2>2. QED
    BY <1>2, <2>1, FS_Subset, Zenon
<1>4. Entries(s, A) = {} <=> \A d \in A : ~ (times[s][d] > 0)
  <2>1. ASSUME NEW d \in A, times[s][d] > 0 PROVE Entries(s, A) # {}
    <3>1. <<d, 1>> \in A \X (1 .. M) /\ <<d, 1>>[1] = d /\ <<d, 1>>[2] = 1
      BY <1>1, <2>1
    <3>2. <<d, 1>> \in Entries(s, A)
      BY <1>1, <2>1, <3>1 DEF Entries
    <3>3. QED
      BY <3>2, Zenon
  <2>2. ASSUME NEW e \in Entries(s, A) PROVE e[1] \in A /\ times[s][e[1]] > 0
    BY <1>1 DEF Entries
  <2>3. QED
    BY <2>1, <2>2, Zenon
<1>5. QED
  BY <1>3, <1>4, FS_CardinalityType, FS_EmptySet, Zenon DEF Names

\* Without one of the services, the entries for it are gone.
LEMMA NamesWithout ==
  ASSUME Parameters, PlanTypes, NEW s \in Services, NEW A \in SUBSET Services, NEW n \in A
  PROVE  Names(s, A \ {n}) = Names(s, A) - times[s][n]
<1> DEFINE M == MaxTimes[made]
           k == times[s][n]
           own == {n} \X (1 .. k)
           rest == Entries(s, A \ {n})
<1>1. M \in Nat /\ k \in Nat /\ k <= M
  BY DEF Parameters, PlanTypes
<1>2. IsFiniteSet(own) /\ Cardinality(own) = k
  <2>1. IsFiniteSet(1 .. k) /\ Cardinality(1 .. k) = k
    <3> HIDE DEF k
    <3>1. 1 \in Int /\ k \in Int
      BY <1>1
    <3>2. IsFiniteSet(1 .. k) /\ Cardinality(1 .. k) = IF 1 > k THEN 0 ELSE k - 1 + 1
      BY <3>1, FS_Interval, Zenon
    <3>3. QED
      BY <1>1, <3>2
  <2>2. IsFiniteSet({n}) /\ Cardinality({n}) = 1
    BY FS_Singleton, Zenon
  <2>3. IsFiniteSet(own) /\ Cardinality(own) = Cardinality({n}) * Cardinality(1 .. k)
    BY <2>1, <2>2, FS_Product, Zenon
  <2> HIDE DEF k, own
  <2>4. QED
    BY <1>1, <2>1, <2>2, <2>3
<1>3. IsFiniteSet(rest) /\ Cardinality(rest) \in Nat /\ Cardinality(rest) = Names(s, A \ {n})
  BY NoNames, Zenon DEF Names
<1>4. Entries(s, A) = rest \cup own
  <2>1. ASSUME NEW e \in Entries(s, A) PROVE e \in rest \cup own
    <3>1. e \in A \X (1 .. M) /\ e[2] <= times[s][e[1]]
      BY Zenon DEF Entries
    <3>2. CASE e[1] = n
      BY <1>1, <3>1, <3>2
    <3>3. CASE e[1] # n
      BY <3>1, <3>3, Zenon DEF Entries
    <3>4. QED
      BY <3>2, <3>3, Zenon
  <2>2. ASSUME NEW e \in rest PROVE e \in Entries(s, A)
    BY Zenon DEF Entries
  <2>3. ASSUME NEW e \in own PROVE e \in Entries(s, A)
    BY <1>1 DEF Entries
  <2>4. QED
    BY <2>1, <2>2, <2>3, Zenon
<1>5. rest \cap own = {}
  BY Zenon DEF Entries
<1> HIDE DEF rest, own, k
<1>6. Names(s, A) = Cardinality(rest) + k
  <2>1. Cardinality(rest \cup own) = Cardinality(rest) + Cardinality(own) - Cardinality(rest \cap own)
    BY <1>2, <1>3, FS_Union, Zenon
  <2>2. QED
    BY <1>1, <1>2, <1>3, <1>4, <1>5, <2>1, FS_EmptySet DEF Names
<1>7. QED
  BY <1>1, <1>3, <1>6 DEF k

-----------------------------------------------------------------------------

\* The first state: nothing is processed yet.
LEMMA InitPlan == ASSUME Parameters, Init PROVE PlanInv
<1>1. PlanTypes
  BY DEF Parameters, Init, PlanTypes, Constructors
<1>2. \A s \in Services : Names(s, Services) \in Nat
  BY <1>1, NoNames, Zenon
<1>3. selected = Services /\ processed = {} /\ Services \ {} = Services /\ phase = release
  BY Zenon DEF Init
<1>4. Counted
  BY <1>2, <1>3, Zenon DEF Init, Counted
<1>5. InOrder
  BY <1>3, Zenon DEF InOrder
<1>6. Found
  BY Zenon DEF Init, Found, Planned, Constructors
<1>7. QED
  BY <1>1, <1>4, <1>5, <1>6, Zenon DEF PlanInv

\* What a ready service is: its dependencies are processed, it is not, and nobody
\* processed depends on it.
LEMMA ReadyFacts ==
  ASSUME Parameters, PlanInv, NEW n \in ready
  PROVE  /\ n \in selected /\ n \notin processed /\ n \in Services
         /\ Deps(n) \subseteq processed
         /\ n \notin Children(n)
         /\ \A s \in processed : n \notin Deps(s) /\ s \notin Children(n)
<1>1. n \in selected \ processed /\ indegree[n] = 0 /\ n \in Services
  BY Zenon DEF PlanInv, Counted, PlanTypes
<1>2. Names(n, selected \ processed) = 0
  BY <1>1, Zenon DEF PlanInv, Counted
<1>3. \A d \in selected \ processed : ~ (times[n][d] > 0)
  <2>1. selected \ processed \in SUBSET Services
    BY Zenon DEF PlanInv, PlanTypes
  <2>2. QED
    BY <1>1, <1>2, <2>1, NoNames, Zenon DEF PlanInv
<1>4. Deps(n) \subseteq processed /\ n \notin Children(n)
  BY <1>1, <1>3, Zenon DEF Deps, Children
<1>5. \A s \in processed : Deps(s) \subseteq processed
  BY Zenon DEF PlanInv, InOrder
<1>6. \A s \in processed : n \notin Deps(s)
  BY <1>1, <1>5, Zenon
<1>7. \A s \in processed : s \notin Children(n)
  BY <1>1, <1>6, Zenon DEF Deps, Children
<1>8. QED
  BY <1>1, <1>4, <1>6, <1>7, Zenon

\* Processing a ready service keeps the counts.
LEMMA ProcessCounted ==
  ASSUME Parameters, PlanInv, NEW n \in Services, Process(n)
  PROVE  Counted'
<1>1. /\ n \in ready /\ processed' = processed \cup {n} /\ selected' = selected
      /\ times' = times /\ made' = made
      /\ indegree' = [s \in Services |-> IF s \in Children(n) THEN indegree[s] - times[s][n]
                                                              ELSE indegree[s]]
      /\ ready' = (ready \ {n}) \cup {s \in Children(n) : indegree'[s] = 0}
  BY Zenon DEF Process, Chosen, ReadyNow, input
<1>2. /\ n \in selected /\ n \notin processed /\ n \notin Children(n)
      /\ \A s \in processed : s \notin Children(n)
  BY <1>1, ReadyFacts, Zenon
<1>3. selected \subseteq Services /\ times \in [Services -> [Services -> 0 .. MaxTimes[made]]]
      /\ MaxTimes[made] \in Nat
  BY Zenon DEF PlanInv, PlanTypes, Parameters
<1> DEFINE A == selected \ processed
<1>4. A \in SUBSET Services /\ n \in A /\ A \ {n} \in SUBSET Services
      /\ selected' \ processed' = A \ {n}
  BY <1>1, <1>2, <1>3, Zenon
<1> HIDE DEF A
<1>6. ASSUME NEW s \in selected
      PROVE  indegree'[s] \in Nat /\ indegree'[s] = Names(s, A \ {n})
  <2>1. s \in Services /\ indegree[s] = Names(s, A) /\ times[s][n] \in Nat
    <3>1. s \in Services /\ indegree[s] = Names(s, A)
      BY <1>3, Zenon DEF A, PlanInv, Counted
    <3>2. times[s][n] \in 0 .. MaxTimes[made]
      BY <1>3, <3>1, Zenon
    <3>3. QED
      BY <1>3, <3>1, <3>2
  <2>2. Names(s, A) \in Nat /\ Names(s, A \ {n}) \in Nat
    BY <1>4, <2>1, NoNames, Zenon DEF PlanInv
  <2>3. Names(s, A \ {n}) = Names(s, A) - times[s][n]
    BY <1>4, <2>1, NamesWithout DEF PlanInv
  <2>4. s \notin Children(n) => times[s][n] = 0
    BY <2>1 DEF Children
  <2>5. indegree'[s] = IF s \in Children(n) THEN indegree[s] - times[s][n] ELSE indegree[s]
    BY <1>1, <2>1, Zenon
  <2>6. QED
    BY <2>1, <2>2, <2>3, <2>4, <2>5
<1>7. indegree' \in [Services -> Nat]
  <2>1. indegree \in [Services -> Nat]
    BY Zenon DEF PlanInv, Counted
  <2>2. \A s \in Services : indegree'[s] \in Nat
    BY <1>1, <1>6, <2>1, Zenon DEF Children
  <2>3. QED
    BY <1>1, <2>2, Zenon
<1>8. ready' = {s \in selected \ (processed \cup {n}) : indegree'[s] = 0}
  <2>1. ready = {s \in selected \ processed : indegree[s] = 0}
    BY Zenon DEF PlanInv, Counted
  <2>2. \A s \in Services : s \notin Children(n) => indegree'[s] = indegree[s]
    BY <1>1, Zenon
  <2>3. ASSUME NEW s \in ready' PROVE s \in selected \ (processed \cup {n}) /\ indegree'[s] = 0
    <3>1. CASE s \in Children(n) /\ indegree'[s] = 0
      BY <1>2, <3>1, Zenon DEF Children
    <3>2. CASE s \in ready \ {n} /\ s \notin Children(n)
      BY <1>3, <2>1, <2>2, <3>2, Zenon
    <3>3. CASE s \in ready \ {n} /\ s \in Children(n)
      <4>1. Deps(s) \subseteq processed
        BY <3>3, ReadyFacts, Zenon
      <4>2. n \in Deps(s)
        BY <1>2, <3>3, Zenon DEF Children, Deps
      <4>3. QED
        BY <1>2, <4>1, <4>2, Zenon
    <3>4. QED
      BY <1>1, <2>3, <3>1, <3>2, <3>3, Zenon
  <2>4. ASSUME NEW s \in selected \ (processed \cup {n}), indegree'[s] = 0 PROVE s \in ready'
    <3>1. CASE s \in Children(n)
      BY <1>1, <2>4, <3>1, Zenon
    <3>2. CASE s \notin Children(n)
      BY <1>1, <1>3, <2>1, <2>2, <2>4, <3>2, Zenon
    <3>3. QED
      BY <3>1, <3>2, Zenon
  <2>5. QED
    BY <2>3, <2>4, Zenon
<1>9. \A s \in selected' : indegree'[s] = Names(s, selected \ processed)'
  <2> SUFFICES ASSUME NEW s \in selected' PROVE indegree'[s] = Names(s, selected \ processed)'
    OBVIOUS
  <2>1. s \in selected /\ s \in Services /\ indegree'[s] = Names(s, A \ {n})
    BY <1>1, <1>3, <1>6, Zenon
  <2>2. Names(s, selected \ processed)' = Cardinality(Entries(s, A \ {n}))
    BY <1>1, <1>4, Zenon DEF Names, Entries
  <2>3. QED
    BY <2>1, <2>2, Zenon DEF Names
<1>10. ready' = {s \in selected' \ processed' : indegree'[s] = 0}
  BY <1>1, <1>8, Zenon
<1>11. QED
  BY <1>7, <1>9, <1>10, Zenon DEF Counted

\* Processing a ready service keeps the order of those processed.
LEMMA ProcessInOrder ==
  ASSUME Parameters, PlanInv, NEW n \in Services, Process(n)
  PROVE  /\ InOrder'
         /\ phase' \in [Services -> Nat]
<1>1. /\ n \in ready /\ processed' = processed \cup {n} /\ selected' = selected
      /\ times' = times /\ release' = release
      /\ phase' = [s \in Services |-> IF s \in Children(n) /\ phase[s] <= phase[n]
                                      THEN phase[n] + 1 ELSE phase[s]]
  BY Zenon DEF Process, Chosen, Delay, input
<1>2. /\ n \in selected /\ n \notin processed /\ n \notin Children(n)
      /\ Deps(n) \subseteq processed
      /\ \A s \in processed : n \notin Deps(s) /\ s \notin Children(n)
  BY <1>1, ReadyFacts, Zenon
<1>3. selected \subseteq Services /\ processed \subseteq selected /\ phase \in [Services -> Nat]
  BY Zenon DEF PlanInv, PlanTypes
<1>4. \A s : Deps(s)' = Deps(s)
  BY <1>1, Zenon DEF Deps
<1>5. \A s \in selected : s \in Children(n) <=> n \in Deps(s)
  BY <1>2, Zenon DEF Children, Deps
<1>6. \A s \in processed \cup {n} : phase'[s] = phase[s]
  BY <1>1, <1>2, <1>3, Zenon
<1>7. \A s \in Services : phase'[s] \in Nat /\ phase[s] \in Nat /\ phase[s] <= phase'[s]
  BY <1>1, <1>3
<1>8. phase' \in [Services -> Nat]
  BY <1>1, <1>7, Zenon
<1>9. \A s \in processed' : Deps(s)' \subseteq processed'
  BY <1>1, <1>2, <1>4, Zenon DEF PlanInv, InOrder
<1>10. ASSUME NEW S \in SUBSET processed', S # {}
       PROVE  \E s \in S : Deps(s)' \cap S = {}
  <2>1. CASE S \ {n} = {}
    BY <1>1, <1>2, <1>4, <1>10, <2>1
  <2>2. CASE S \ {n} # {}
    <3>1. S \ {n} \in SUBSET processed
      BY <1>1, Zenon
    <3>2. PICK s \in S \ {n} : Deps(s) \cap (S \ {n}) = {}
      BY <2>2, <3>1, Zenon DEF PlanInv, InOrder
    <3>3. n \notin Deps(s)
      BY <1>2, <3>1, Zenon
    <3>4. QED
      BY <1>4, <3>2, <3>3, Zenon
  <2>3. QED
    BY <2>1, <2>2, Zenon
<1>11. ASSUME NEW s \in selected
       PROVE  /\ \A d \in Deps(s) \cap (processed \cup {n}) : phase'[d] < phase'[s]
              /\ \/ phase'[s] = release[s]
                 \/ \E d \in Deps(s) \cap (processed \cup {n}) : phase'[s] = phase'[d] + 1
  <2>1. /\ \A d \in Deps(s) \cap processed : phase[d] < phase[s]
        /\ \/ phase[s] = release[s]
           \/ \E d \in Deps(s) \cap processed : phase[s] = phase[d] + 1
    BY Zenon DEF PlanInv, InOrder
  <2>2. s \in Services /\ n \in Services /\ phase[s] \in Nat /\ phase[n] \in Nat
    BY <1>2, <1>3, Zenon
  <2>3. \A d \in Deps(s) : d \in Services /\ phase[d] \in Nat
    BY <1>3, Zenon DEF Deps
  <2>4. CASE s \in Children(n) /\ phase[s] <= phase[n]
    <3>1. n \in Deps(s) /\ phase'[s] = phase[n] + 1 /\ phase'[n] = phase[n]
      BY <1>1, <1>5, <1>6, <2>2, <2>4, Zenon
    <3>2. \A d \in Deps(s) \cap processed : phase'[d] < phase'[s]
      BY <1>6, <2>1, <2>2, <2>3, <2>4, <3>1
    <3>3. QED
      BY <2>2, <3>1, <3>2
  <2>5. CASE ~ (s \in Children(n) /\ phase[s] <= phase[n])
    <3>1. phase'[s] = phase[s]
      BY <1>1, <2>2, <2>5, Zenon
    <3>2. n \in Deps(s) => phase'[n] < phase'[s]
      BY <1>5, <1>6, <2>2, <2>5, <3>1
    <3>3. QED
      BY <1>6, <2>1, <3>1, <3>2, Zenon
  <2>6. QED
    BY <2>4, <2>5, Zenon
<1>12. InOrder'
  BY <1>1, <1>4, <1>9, <1>10, <1>11, Zenon DEF InOrder
<1>13. QED
  BY <1>8, <1>12, Zenon

\* Processing a ready service keeps what planning has found: when the release phases
\* already are in order, none is moved.
LEMMA ProcessKeeps ==
  ASSUME Parameters, PlanInv, NEW n \in Services, Process(n)
  PROVE  PlanInv'
<1>1. /\ n \in ready /\ processed' = processed \cup {n} /\ selected' = selected
      /\ times' = times /\ made' = made /\ release' = release
      /\ pc' = pc /\ pc \in {"contracts", "planning"}
      /\ phase' = [s \in Services |-> IF s \in Children(n) /\ phase[s] <= phase[n]
                                      THEN phase[n] + 1 ELSE phase[s]]
  BY Zenon DEF Process, Chosen, Delay, input
<1>2. Counted' /\ InOrder' /\ phase' \in [Services -> Nat]
  BY ProcessCounted, ProcessInOrder, Zenon
<1>3. n \in selected
  BY <1>1, ReadyFacts, Zenon
<1>4. PlanTypes'
  BY <1>1, <1>2, <1>3, Zenon DEF PlanInv, PlanTypes
<1>5. ASSUME made = "NewFromContracts", pc \notin {"contracts", "rejected"}
      PROVE  phase' = phase
  <2>1. /\ phase = release /\ release \in [Services -> Nat] /\ selected \subseteq Services
        /\ \A s, d \in Services : times[s][d] > 0 => release[d] < release[s]
    BY <1>5, Zenon DEF PlanInv, Found, PlanTypes
  <2>2. \A s \in Services : s \in Children(n) => ~ (phase[s] <= phase[n])
    BY <2>1 DEF Children
  <2>3. phase' = [s \in Services |-> phase[s]]
    BY <1>1, <2>2, Zenon
  <2>4. QED
    BY <2>1, <2>3, Zenon
<1>6. Found'
  BY <1>1, <1>5, Zenon DEF PlanInv, Found, Planned
<1>7. QED
  BY <1>2, <1>4, <1>6, Zenon DEF PlanInv

\* When nothing is ready, every service left names another that is left.
LEMMA NothingReady ==
  ASSUME Parameters, PlanInv, ready = {}
  PROVE  \A s \in selected \ processed : \E d \in selected \ processed : times[s][d] > 0
<1> SUFFICES ASSUME NEW s \in selected \ processed
             PROVE  \E d \in selected \ processed : times[s][d] > 0
  OBVIOUS
<1>1. selected \ processed \in SUBSET Services /\ s \in Services
  BY Zenon DEF PlanInv, PlanTypes
<1>2. indegree[s] # 0 /\ indegree[s] = Names(s, selected \ processed)
  BY Zenon DEF PlanInv, Counted
<1>3. QED
  BY <1>1, <1>2, NoNames, Zenon DEF PlanInv

\* So services ordered by their release phases are all processed then.
LEMMA OrderedIsProcessed ==
  ASSUME Parameters, PlanInv, ready = {},
         \A s, d \in Services : times[s][d] > 0 => release[d] < release[s]
  PROVE  processed = selected
<1> SUFFICES ASSUME selected \ processed # {} PROVE FALSE
  BY Zenon DEF PlanInv, PlanTypes
<1>1. selected \ processed \in SUBSET Services /\ release \in [Services -> Nat]
  BY Zenon DEF PlanInv, PlanTypes
<1>2. PICK s \in selected \ processed : \A t \in selected \ processed : release[s] <= release[t]
  BY <1>1, LeastService, Zenon
<1>3. PICK d \in selected \ processed : times[s][d] > 0
  BY NothingReady, Zenon
<1>4. QED
  BY <1>1, <1>2, <1>3

\* The counts and the order are those of what planning has read and found.
LEMMA SamePlan ==
  ASSUME Counted, InOrder, UNCHANGED <<input, release, planning>>
  PROVE  Counted' /\ InOrder'
<1>1. /\ made' = made /\ times' = times /\ release' = release /\ phase' = phase
      /\ selected' = selected /\ indegree' = indegree /\ ready' = ready
      /\ processed' = processed
  BY Zenon DEF input, planning
<1>2. Counted'
  BY <1>1 DEF Counted, Names, Entries
<1>3. InOrder'
  BY <1>1 DEF InOrder, Deps
<1>4. QED
  BY <1>2, <1>3, Zenon

\* The ends of the loops, the start of a plan, and the steps of BuildWaves.
LEMMA PlanningKeeps ==
  ASSUME Parameters, PlanInv, Rejected \/ Loaded \/ PlanEnds
  PROVE  PlanInv'
<1>1. CASE Rejected
  <2>1. /\ pc = "contracts" /\ pc' = "rejected" /\ ready = {} /\ processed # Services
        /\ made' = made /\ times' = times /\ release' = release /\ phase' = phase
        /\ selected' = selected /\ indegree' = indegree /\ ready' = ready
        /\ processed' = processed
    BY <1>1, Zenon DEF Rejected, input, planning
  <2>2. PlanTypes' /\ Found'
    BY <2>1, Zenon DEF PlanInv, PlanTypes, Found, Planned
  <2>3. Counted' /\ InOrder'
    BY <1>1, SamePlan, Zenon DEF PlanInv, Rejected
  <2>4. QED
    BY <2>2, <2>3, Zenon DEF PlanInv
<1>2. CASE Loaded
  <2>1. /\ pc = "contracts" /\ pc' = "loaded" /\ ready = {} /\ processed = Services
        /\ made' = made /\ times' = times /\ release' = phase /\ phase' = phase
        /\ selected' = selected /\ indegree' = indegree /\ ready' = ready
        /\ processed' = processed
    BY <1>2, Zenon DEF Loaded, input, planning
  <2>2. selected = Services /\ made = "NewFromContracts"
    BY <2>1, Zenon DEF PlanInv, Found
  <2>3. \A s, d \in Services : times[s][d] > 0 => phase[d] < phase[s]
    BY <2>1, <2>2, Zenon DEF PlanInv, InOrder, Deps
  <2>4. PlanTypes' /\ Found'
    BY <2>1, <2>2, <2>3, Zenon DEF PlanInv, PlanTypes, Found, Planned
  <2>5. Counted' /\ InOrder'
    BY <2>1 DEF PlanInv, Counted, InOrder, Names, Entries, Deps
  <2>6. QED
    BY <2>4, <2>5, Zenon DEF PlanInv
<1>3. CASE PlanEnds
  <2>1. /\ pc = "planning" /\ ready = {}
        /\ pc' = IF processed = selected THEN "waves" ELSE "cycle"
        /\ made' = made /\ times' = times /\ release' = release /\ phase' = phase
        /\ selected' = selected /\ indegree' = indegree /\ ready' = ready
        /\ processed' = processed
    BY <1>3, Zenon DEF PlanEnds, input, planning
  <2>2. made = "NewFromContracts" => processed = selected
    BY <2>1, OrderedIsProcessed, Zenon DEF PlanInv, Found
  <2>3. PlanTypes' /\ Found'
    BY <2>1, <2>2, Zenon DEF PlanInv, PlanTypes, Found, Planned
  <2>4. Counted' /\ InOrder'
    BY <1>3, SamePlan, Zenon DEF PlanInv, PlanEnds
  <2>5. QED
    BY <2>3, <2>4, Zenon DEF PlanInv
<1>4. QED
  BY <1>1, <1>2, <1>3, Zenon

\* A plan starts with the release phases and nothing processed.
LEMMA PlanIntentKeeps ==
  ASSUME Parameters, PlanInv, NEW S \in SUBSET Services, PlanIntent(S)
  PROVE  PlanInv'
<1>1. /\ pc = "loaded" /\ pc' = "planning"
      /\ made' = made /\ times' = times /\ release' = release /\ phase' = release
      /\ selected' = S /\ processed' = {} /\ ready' = {s \in S : Names(s, S) = 0}
      /\ indegree' = [s \in Services |-> IF s \in S THEN Names(s, S) ELSE 0]
  BY Zenon DEF PlanIntent, input
<1>2. \A s \in Services : Names(s, S) \in Nat
  BY NoNames, Zenon DEF PlanInv
<1>3. PlanTypes' /\ Found'
  BY <1>1, Zenon DEF PlanInv, PlanTypes, Found, Planned
<1>4. Counted'
  <2>1. \A s \in S : indegree'[s] = Names(s, S) /\ s \in Services
    BY <1>1, Zenon
  <2>2. selected' \ processed' = S
    BY <1>1, Zenon
  <2>3. \A s \in S : Names(s, selected \ processed)' = Names(s, S)
    BY <1>1, <2>2, Zenon DEF Names, Entries
  <2>4. indegree' \in [Services -> Nat]
    BY <1>1, <1>2, Zenon
  <2>5. QED
    BY <1>1, <2>1, <2>2, <2>3, <2>4, Zenon DEF Counted
<1>5. InOrder'
  BY <1>1, Zenon DEF InOrder, Deps
<1>6. QED
  BY <1>3, <1>4, <1>5, Zenon DEF PlanInv

\* The rest of the steps leave the plan alone.
LEMMA PlanStays ==
  ASSUME PlanInv, Planned, pc' \in {"waves", "wave", "done", "stuck"},
         UNCHANGED <<input, release, planning>>
  PROVE  PlanInv'
<1>1. /\ made' = made /\ times' = times /\ release' = release /\ phase' = phase
      /\ selected' = selected /\ indegree' = indegree /\ ready' = ready
      /\ processed' = processed
  BY Zenon DEF input, planning
<1>2. PlanTypes' /\ Found'
  BY <1>1, Zenon DEF PlanInv, PlanTypes, Found, Planned
<1>3. Counted' /\ InOrder'
  BY SamePlan, Zenon DEF PlanInv
<1>4. QED
  BY <1>2, <1>3, Zenon DEF PlanInv

-----------------------------------------------------------------------------

\* The steps of a plan that use a key are finitely many.
LEMMA Users ==
  ASSUME Parameters, PlanTypes, NEW k, NEW S \in SUBSET selected
  PROVE  IsFiniteSet(UsersOf(k, S)) /\ Cardinality(UsersOf(k, S)) \in Nat
<1>1. UsersOf(k, S) \in SUBSET Services
  BY Zenon DEF UsersOf, PlanTypes
<1>2. QED
  BY <1>1, FS_Subset, FS_CardinalityType, Zenon DEF Parameters

\* A set without users counts none.
LEMMA NoUsers == ASSUME NEW k PROVE Cardinality(UsersOf(k, {})) = 0
BY FS_EmptySet, Zenon DEF UsersOf

\* Before BuildWaves there are no waves.
LEMMA WavesLater ==
  ASSUME WaveInv, ~ Planned, ~ Planned', pc' # "stuck", UNCHANGED waving
  PROVE  WaveInv'
<1>1. /\ pending' = pending /\ queue' = queue /\ taken' = taken /\ active' = active
      /\ wave' = wave /\ waves' = waves
  BY Zenon DEF waving
<1>2. WaveTypes' /\ WaveProgress'
  BY <1>1, Zenon DEF WaveInv, WaveTypes, WaveProgress, Planned
<1>3. QED
  BY <1>2, Zenon DEF WaveInv

\* BuildWaves starts with all steps waiting and every budget free.
LEMMA PlanEndsWaves ==
  ASSUME Parameters, PlanInv, WaveInv, PlanEnds
  PROVE  WaveInv'
<1>1. /\ pc = "planning" /\ queue' = queue /\ taken' = taken /\ active' = active
      /\ wave' = wave /\ waves' = waves /\ selected' = selected /\ phase' = phase
      /\ \/ pc' = "waves" /\ pending' = selected
         \/ pc' = "cycle" /\ pending' = pending
  BY Zenon DEF PlanEnds, planning
<1>2. taken = {} /\ queue = {} /\ active = [k \in Keys |-> 0]
  BY <1>1, Zenon DEF WaveInv, WaveTypes
<1>3. WaveTypes' /\ WaveProgress'
  BY <1>1, <1>2, Zenon DEF WaveInv, WaveTypes, WaveProgress, Planned
<1>4. ASSUME pc' = "waves" PROVE WaveOrder' /\ WaveLimits'
  <2>1. pending' = selected' /\ taken' = {} /\ queue' = {}
    BY <1>1, <1>2, <1>4, Zenon
  <2>2. WaveOrder'
    BY <2>1, Zenon DEF WaveOrder
  <2>3. \A w : InWave(w)' = {}
    BY <2>1, Zenon DEF InWave
  <2>4. \A k : Cardinality(UsersOf(k, {})) = 0
    BY NoUsers, Zenon
  <2>5. \A k \in Keys : LimitOf[k] \in Nat /\ active'[k] = 0
    BY <1>1, <1>2, Zenon DEF Parameters
  <2>6. \A k : UsersOf(k, taken)' = UsersOf(k, {}) /\ \A w : UsersOf(k, InWave(w))' = UsersOf(k, {})
    BY <2>1, <2>3, Zenon DEF UsersOf
  <2>7. QED
    BY <2>2, <2>4, <2>5, <2>6 DEF WaveLimits
<1>5. QED
  BY <1>1, <1>3, <1>4, Zenon DEF WaveInv, Planned

\* Among the waiting steps, one of the smallest phase is ready: a next wave has
\* candidates, and they are of the smallest phase of all that wait.
LEMMA Candidates ==
  ASSUME Parameters, PlanInv, WaveInv, Planned, pending # {}
  PROVE  \E s \in ReadySteps : \A t \in pending : phase[s] <= phase[t]
<1>1. pending \in SUBSET Services /\ phase \in [Services -> Nat] /\ pending \subseteq selected
  BY Zenon DEF PlanInv, PlanTypes, WaveInv, WaveTypes
<1>2. PICK s \in pending : \A t \in pending : phase[s] <= phase[t]
  BY <1>1, LeastService, Zenon
<1>3. \A d \in Deps(s) : phase[d] < phase[s]
  <2>1. processed = selected /\ s \in selected
    BY <1>1, Zenon DEF PlanInv, Found
  <2>2. QED
    BY <2>1, Zenon DEF PlanInv, InOrder, Deps
<1>4. Deps(s) \cap pending = {}
  BY <1>1, <1>2, <1>3
<1>5. QED
  BY <1>2, <1>4, Zenon DEF ReadySteps

\* The next wave is opened with those.
LEMMA OpenWaveKeeps ==
  ASSUME Parameters, PlanInv, WaveInv, OpenWave
  PROVE  WaveInv'
<1>1. /\ pc = "waves" /\ pending # {} /\ pending' = pending /\ active' = active
      /\ taken' = {} /\ wave' = wave /\ waves' = waves /\ selected' = selected /\ phase' = phase
      /\ queue' = {s \in ReadySteps : \A t \in ReadySteps : phase[s] <= phase[t]}
      /\ pc' = IF ReadySteps = {} THEN "stuck" ELSE "wave"
  BY Zenon DEF OpenWave, planning
<1>2. Planned /\ taken = {} /\ active = [k \in Keys |-> 0]
  BY <1>1, Zenon DEF WaveInv, WaveTypes, Planned
<1>3. PICK u \in ReadySteps : \A t \in pending : phase[u] <= phase[t]
  BY <1>1, <1>2, Candidates, Zenon
<1>4. ReadySteps \subseteq pending /\ pending \subseteq Services /\ phase \in [Services -> Nat]
  BY Zenon DEF ReadySteps, PlanInv, PlanTypes, WaveInv, WaveTypes
<1>5. u \in queue' /\ pc' = "wave"
  BY <1>1, <1>3, <1>4, Zenon
<1>6. \A s \in queue' : s \in pending /\ \A t \in pending : phase[s] <= phase[t]
  BY <1>1, <1>3, <1>4
<1>7. WaveTypes' /\ WaveProgress'
  BY <1>1, <1>2, <1>5, <1>6, Zenon DEF WaveInv, WaveTypes, WaveProgress, Planned
<1>8. WaveOrder'
  BY <1>1, <1>2, <1>6, Zenon DEF WaveInv, WaveOrder
<1>9. WaveLimits'
  BY <1>1, <1>2 DEF WaveInv, WaveLimits, UsersOf, InWave
<1>10. QED
  BY <1>7, <1>8, <1>9, Zenon DEF WaveInv

\* A candidate is taken when the budget has room for it, and the first one always
\* fits.
LEMMA TryAcquireKeeps ==
  ASSUME Parameters, PlanInv, WaveInv, NEW s \in Services, TryAcquire(s)
  PROVE  WaveInv'
<1>1. /\ pc = "wave" /\ pc' = "wave" /\ s \in queue /\ queue' = queue \ {s}
      /\ pending' = pending /\ wave' = wave /\ waves' = waves
      /\ selected' = selected /\ phase' = phase
  BY Zenon DEF TryAcquire, First, planning
<1>2. /\ WaveTypes /\ WaveProgress /\ WaveOrder /\ WaveLimits
      /\ s \in pending /\ pending \subseteq selected
  BY <1>1, Zenon DEF WaveInv, WaveTypes, Planned
<1>3. \A k \in Keys : active[k] \in Nat /\ LimitOf[k] \in Nat \ {0} /\ Uses[s][k] \in Nat
  BY <1>2 DEF WaveTypes, Parameters
<1>4. CASE Fits(s)
  <2>1. taken' = taken \cup {s} /\ active' = [k \in Keys |-> active[k] + Uses[s][k]]
    BY <1>4, Zenon DEF TryAcquire
  <2>2. WaveTypes' /\ WaveProgress'
    BY <1>1, <1>2, <1>3, <2>1 DEF WaveTypes, WaveProgress, Planned
  <2>3. WaveOrder'
    BY <1>1, <1>2, <2>1, Zenon DEF WaveOrder
  <2>4. ASSUME NEW k \in Keys
        PROVE  /\ Cardinality(UsersOf(k, taken)') <= active'[k]
               /\ Cardinality(UsersOf(k, taken)') <= LimitOf[k]
    <3> DEFINE U == UsersOf(k, taken)
    <3>1. IsFiniteSet(U) /\ Cardinality(U) \in Nat
      BY <1>2, Users, Zenon DEF PlanInv, WaveTypes
    <3>2. Cardinality(U) <= active[k] /\ Cardinality(U) <= LimitOf[k]
      BY <1>2, Zenon DEF WaveLimits
    <3>3. active'[k] = active[k] + Uses[s][k]
      BY <2>1, Zenon
    <3>4. UsersOf(k, taken)' = IF Uses[s][k] > 0 THEN U \cup {s} ELSE U
      BY <2>1, Zenon DEF UsersOf
    <3>5. Cardinality(U \cup {s}) = Cardinality(U) \/ Cardinality(U \cup {s}) = Cardinality(U) + 1
      BY <3>1, FS_AddElement, Zenon
    <3>6. Uses[s][k] > 0 => active[k] < LimitOf[k]
      BY <1>4, Zenon DEF Fits
    <3>7. Cardinality(UsersOf(k, taken)') \in {Cardinality(U), Cardinality(U) + 1}
      BY <3>4, <3>5, Zenon
    <3>8. ~ (Uses[s][k] > 0) => Cardinality(UsersOf(k, taken)') = Cardinality(U)
      BY <3>4, Zenon
    <3> HIDE DEF U
    <3>9. QED
      BY <1>3, <3>1, <3>2, <3>3, <3>6, <3>7, <3>8, OneMore
  <2>5. \A k, w : UsersOf(k, InWave(w))' = UsersOf(k, InWave(w))
    BY <1>1, Zenon DEF UsersOf, InWave
  <2>6. WaveLimits'
    BY <1>2, <2>4, <2>5, Zenon DEF WaveLimits
  <2>7. QED
    BY <2>2, <2>3, <2>6, Zenon DEF WaveInv
<1>5. CASE ~ Fits(s)
  <2>1. taken' = taken /\ active' = active
    BY <1>5, Zenon DEF TryAcquire
  <2>2. taken # {}
    <3> SUFFICES ASSUME taken = {} PROVE Fits(s)
      BY <1>5, Zenon
    <3>1. active = [k \in Keys |-> 0]
      BY <1>1, <1>2, Zenon DEF WaveProgress
    <3>2. QED
      BY <1>3, <3>1 DEF Fits
  <2>3. WaveTypes' /\ WaveProgress'
    BY <1>1, <1>2, <2>1, <2>2, Zenon DEF WaveTypes, WaveProgress, Planned
  <2>4. WaveOrder'
    BY <1>1, <1>2, <2>1, Zenon DEF WaveOrder
  <2>5. WaveLimits'
    BY <1>1, <1>2, <2>1, Zenon DEF WaveLimits, UsersOf, InWave
  <2>6. QED
    BY <2>3, <2>4, <2>5, Zenon DEF WaveInv
<1>6. QED
  BY <1>4, <1>5, Zenon

\* A wave that is closed took a step, and its steps are the last wave.
LEMMA CloseWaveKeeps ==
  ASSUME Parameters, PlanInv, WaveInv, CloseWave
  PROVE  WaveInv'
<1>1. /\ pc = "wave" /\ queue = {} /\ queue' = {} /\ taken' = {}
      /\ active' = [k \in Keys |-> 0] /\ pending' = pending \ taken
      /\ wave' = [s \in Services |-> IF s \in taken THEN waves ELSE wave[s]]
      /\ waves' = waves + 1 /\ pc' = IF taken = {} THEN "stuck" ELSE "waves"
      /\ selected' = selected /\ phase' = phase
  BY Zenon DEF CloseWave, ReleaseWave, planning
<1>2. /\ WaveTypes /\ WaveProgress /\ WaveOrder /\ WaveLimits
      /\ pending \subseteq selected /\ selected \subseteq Services
      /\ taken \subseteq pending /\ waves \in Nat /\ wave \in [Services -> Nat]
      /\ phase \in [Services -> Nat]
  BY <1>1, Zenon DEF WaveInv, WaveTypes, Planned, PlanInv, PlanTypes
<1>3. taken # {} /\ pc' = "waves"
  BY <1>1, <1>2, Zenon DEF WaveProgress
<1>4. wave' \in [Services -> Nat]
  BY <1>1, <1>2, Zenon
<1>5. WaveTypes' /\ WaveProgress'
  BY <1>1, <1>2, <1>3, <1>4 DEF WaveTypes, WaveProgress, Planned
<1>6. \A s \in selected \ pending : wave'[s] = wave[s] /\ wave[s] < waves /\ wave[s] \in Nat
  BY <1>1, <1>2, Zenon DEF WaveOrder
<1>7. \A s \in taken : wave'[s] = waves
  BY <1>1, <1>2, Zenon
<1>8. WaveOrder'
  <2>1. ASSUME NEW s \in selected \ pending' PROVE wave'[s] < waves'
    BY <1>1, <1>2, <1>6, <1>7
  <2>2. ASSUME NEW s \in selected \ pending', NEW t \in selected, phase[t] < phase[s]
        PROVE  t \notin pending' /\ wave'[t] < wave'[s]
    <3>1. CASE s \in taken
      <4>1. t \notin pending
        BY <1>2, <2>2, <3>1 DEF WaveOrder
      <4>2. QED
        BY <1>1, <1>6, <1>7, <3>1, <4>1, Zenon
    <3>2. CASE s \in selected \ pending
      <4>1. t \notin pending /\ wave[t] < wave[s]
        BY <1>2, <2>2, <3>2, Zenon DEF WaveOrder
      <4>2. QED
        BY <1>1, <1>6, <3>2, <4>1, Zenon
    <3>3. QED
      BY <1>1, <3>1, <3>2, Zenon
  <2>3. QED
    BY <1>1, <2>1, <2>2, Zenon DEF WaveOrder
<1>9. ASSUME NEW w \in Nat
      PROVE  InWave(w)' = IF w = waves THEN taken ELSE InWave(w)
  BY <1>1, <1>2, <1>6, <1>7 DEF InWave
<1>10. ASSUME NEW k \in Keys, NEW w \in Nat
       PROVE  Cardinality(UsersOf(k, InWave(w))') <= LimitOf[k]
  <2>1. UsersOf(k, InWave(w))' = IF w = waves THEN UsersOf(k, taken) ELSE UsersOf(k, InWave(w))
    BY <1>9, Zenon DEF UsersOf
  <2>2. QED
    BY <1>2, <2>1, Zenon DEF WaveLimits
<1>11. ASSUME NEW k \in Keys
       PROVE  Cardinality(UsersOf(k, taken)') = 0 /\ active'[k] = 0 /\ LimitOf[k] \in Nat
  <2>1. UsersOf(k, taken)' = UsersOf(k, {})
    BY <1>1, Zenon DEF UsersOf
  <2>2. QED
    BY <1>1, <2>1, NoUsers, Zenon DEF Parameters
<1>12. WaveLimits'
  BY <1>10, <1>11 DEF WaveLimits
<1>13. QED
  BY <1>5, <1>8, <1>12, Zenon DEF WaveInv

-----------------------------------------------------------------------------

\* The invariant holds at first.
LEMMA InitPlanIInv == ASSUME Parameters, Init PROVE PlanIInv
<1>1. PlanInv
  BY InitPlan, Zenon
<1>2. WaveTypes /\ WaveProgress /\ ~ Planned
  BY Zenon DEF Init, WaveTypes, WaveProgress, Planned
<1>3. QED
  BY <1>1, <1>2, Zenon DEF PlanIInv, WaveInv

\* Every step keeps it.
LEMMA NextPlanIInv == ASSUME Parameters, PlanIInv, [Next]_vars PROVE PlanIInv'
<1> USE DEF PlanIInv
<1>1. ASSUME NEW n \in Services, Process(n) PROVE PlanIInv'
  <2>1. ~ Planned /\ ~ Planned' /\ pc' # "stuck" /\ UNCHANGED waving
    BY <1>1, Zenon DEF Process, Planned
  <2>2. QED
    BY <1>1, <2>1, ProcessKeeps, WavesLater, Zenon
<1>2. ASSUME NEW n \in Services, TryAcquire(n) PROVE PlanIInv'
  <2>1. Planned /\ pc' = "wave" /\ UNCHANGED <<input, release, planning>>
    BY <1>2, Zenon DEF TryAcquire, Planned
  <2>2. QED
    BY <1>2, <2>1, PlanStays, TryAcquireKeeps, Zenon
<1>3. CASE Rejected \/ Loaded
  <2>1. ~ Planned /\ ~ Planned' /\ pc' # "stuck" /\ UNCHANGED waving
    BY <1>3, Zenon DEF Rejected, Loaded, Planned
  <2>2. QED
    BY <1>3, <2>1, PlanningKeeps, WavesLater, Zenon
<1>4. CASE PlanEnds
  BY <1>4, PlanningKeeps, PlanEndsWaves, Zenon
<1>5. CASE OpenWave
  <2>1. Planned /\ pc' \in {"wave", "stuck"} /\ UNCHANGED <<input, release, planning>>
    BY <1>5, Zenon DEF OpenWave, Planned
  <2>2. QED
    BY <1>5, <2>1, PlanStays, OpenWaveKeeps, Zenon
<1>6. CASE CloseWave
  <2>1. Planned /\ pc' \in {"waves", "stuck"} /\ UNCHANGED <<input, release, planning>>
    BY <1>6, Zenon DEF CloseWave, Planned
  <2>2. QED
    BY <1>6, <2>1, PlanStays, CloseWaveKeeps, Zenon
<1>7. CASE WavesEnd
  <2>1. /\ pc = "waves" /\ pc' = "done" /\ pending' = pending /\ queue' = queue
        /\ taken' = taken /\ active' = active /\ wave' = wave /\ waves' = waves
        /\ selected' = selected /\ phase' = phase
        /\ Planned /\ Planned' /\ UNCHANGED <<input, release, planning>>
    BY <1>7, Zenon DEF WavesEnd, waving, planning, Planned
  <2>2. WaveTypes' /\ WaveProgress'
    BY <2>1, Zenon DEF WaveInv, WaveTypes, WaveProgress
  <2>3. WaveOrder' /\ WaveLimits'
    BY <2>1, Zenon DEF WaveInv, WaveOrder, WaveLimits, UsersOf, InWave
  <2>4. PlanInv'
    BY <2>1, PlanStays, Zenon
  <2>5. QED
    BY <2>2, <2>3, <2>4, Zenon DEF WaveInv
<1>8. ASSUME NEW S \in SUBSET Services, PlanIntent(S) PROVE PlanIInv'
  <2>1. ~ Planned /\ ~ Planned' /\ pc' # "stuck" /\ UNCHANGED waving
    BY <1>8, Zenon DEF PlanIntent, Planned
  <2>2. QED
    BY <1>8, <2>1, PlanIntentKeeps, WavesLater, Zenon
<1>9. CASE UNCHANGED vars
  <2>1. /\ made' = made /\ times' = times /\ release' = release /\ phase' = phase
        /\ selected' = selected /\ indegree' = indegree /\ ready' = ready
        /\ processed' = processed /\ pc' = pc
        /\ pending' = pending /\ queue' = queue
        /\ taken' = taken /\ active' = active /\ wave' = wave /\ waves' = waves
    BY <1>9, Zenon DEF vars, input, planning, waving
  <2>2. PlanTypes' /\ Found'
    BY <2>1, Zenon DEF PlanInv, PlanTypes, Found, Planned
  <2>3. Counted' /\ InOrder'
    BY <1>9, SamePlan, Zenon DEF PlanInv, vars
  <2>4. WaveTypes' /\ WaveProgress'
    BY <2>1, Zenon DEF WaveInv, WaveTypes, WaveProgress, Planned
  <2>5. Planned' => WaveOrder' /\ WaveLimits'
    BY <2>1, Zenon DEF WaveInv, WaveOrder, WaveLimits, UsersOf, InWave, Planned
  <2>6. QED
    BY <2>2, <2>3, <2>4, <2>5, Zenon DEF PlanInv, WaveInv
<1>10. QED
  BY <1>1, <1>2, <1>3, <1>4, <1>5, <1>6, <1>7, <1>8, <1>9, Zenon DEF Next

\* It is an invariant of the planner.
LEMMA PlanInvariant == Spec => []PlanIInv
<1>1. Init => PlanIInv
  BY PlanAssumption, InitPlanIInv, Zenon
<1>2. PlanIInv /\ [Next]_vars => PlanIInv'
  BY PlanAssumption, NextPlanIInv, Zenon
<1>3. QED
  BY <1>1, <1>2, PTL DEF Spec

\* A cycle is reported exactly when there is one, by either loop, and the phases of
\* a plan are the least that the dependencies and the release phases allow, for any
\* services that name each other any number of times.
THEOREM PlannedPhasesAreLeast == Spec => []PhasesAreLeast
<1>1. ASSUME PlanInv PROVE PhasesAreLeast
  <2>1. ASSUME pc \in {"rejected", "cycle"} PROVE Cyclic
    <3> DEFINE U == selected \ processed
    <3>1. ready = {} /\ U # {} /\ U \in SUBSET selected
      BY <1>1, <2>1, Zenon DEF PlanInv, Found, PlanTypes
    <3>2. \A s \in U : Deps(s) \cap U # {}
      BY <1>1, <3>1, PlanAssumption, NothingReady, Zenon DEF Deps
    <3>3. QED
      BY <3>1, <3>2, Zenon DEF Cyclic
  <2>2. ASSUME Planned \/ (pc = "loaded" /\ made = "NewFromContracts") PROVE ~ Cyclic
    <3>1. processed = selected
      BY <1>1, <2>2, Zenon DEF PlanInv, Found
    <3>2. QED
      BY <1>1, <3>1, Zenon DEF PlanInv, InOrder, Cyclic
  <2>3. ASSUME Planned, NEW s \in selected
        PROVE  /\ \A d \in Deps(s) : phase[d] < phase[s]
               /\ phase[s] = release[s] \/ \E d \in Deps(s) : phase[s] = phase[d] + 1
    <3>1. processed = selected
      BY <1>1, <2>3, Zenon DEF PlanInv, Found
    <3>2. QED
      BY <1>1, <3>1, Zenon DEF PlanInv, InOrder, Deps
  <2>4. QED
    BY <2>1, <2>2, <2>3, Zenon DEF PhasesAreLeast
<1>2. PlanIInv => PhasesAreLeast
  BY <1>1, Zenon DEF PlanIInv
<1>3. QED
  BY <1>2, PlanInvariant, PTL

\* Contracts accepted as a whole are planned for every selection without a cycle,
\* and in an order that also respects the services in between that are left out.
THEOREM PlannedOrderSurvives == Spec => []OrderSurvivesSelection
<1>1. ASSUME PlanInv, made = "NewFromContracts" PROVE pc # "cycle"
  BY <1>1, Zenon DEF PlanInv, Found
<1>2. ASSUME PlanInv, made = "NewFromContracts", Planned,
             NEW s \in selected, NEW d \in selected, Needs(s, d)
      PROVE  phase[d] < phase[s]
  <2> DEFINE S == {e \in Services : release[e] < release[s]}
  <2>1. /\ phase = release /\ release \in [Services -> Nat] /\ s \in Services
        /\ \A e, f \in Services : times[e][f] > 0 => release[f] < release[e]
    BY <1>2, Zenon DEF PlanInv, Found, PlanTypes, Planned
  <2>2. {e \in Services : times[s][e] > 0} \subseteq S
    BY <2>1, Zenon
  <2>3. {e \in Services : \E f \in S : times[f][e] > 0} \subseteq S
    BY <2>1
  <2>4. S \in SUBSET Services
    OBVIOUS
  <2> HIDE DEF S
  <2>5. d \in S
    BY <1>2, <2>2, <2>3, <2>4, Zenon DEF Needs
  <2>6. QED
    BY <2>1, <2>5, Zenon DEF S
<1>3. PlanIInv => OrderSurvivesSelection
  BY <1>1, <1>2, Zenon DEF PlanIInv, OrderSurvivesSelection
<1>4. QED
  BY <1>3, PlanInvariant, PTL

\* Waves come in the order of the phases, after the dependencies of their steps,
\* and within every concurrency limit.
THEOREM WavesAreOrdered == Spec => []WavesFollowOrder
<1>1. ASSUME PlanInv, WaveInv, Planned PROVE WavesFollowOrder
  <2>1. WaveOrder /\ WaveLimits /\ waves \in Nat
    BY <1>1, Zenon DEF WaveInv, WaveTypes
  <2>2. \A s \in selected : \A d \in Deps(s) : d \in selected /\ phase[d] < phase[s]
    BY <1>1, Zenon DEF PlanInv, InOrder, Found, Deps
  <2>3. ASSUME NEW k \in Keys, NEW w \in 0 .. waves
        PROVE  Cardinality({s \in selected \ pending : wave[s] = w /\ Uses[s][k] > 0}) <= LimitOf[k]
    <3>1. UsersOf(k, InWave(w)) = {s \in selected \ pending : wave[s] = w /\ Uses[s][k] > 0}
      BY Zenon DEF UsersOf, InWave
    <3>2. w \in Nat
      BY <2>1
    <3>3. QED
      BY <2>1, <3>1, <3>2, Zenon DEF WaveLimits
  <2>4. ASSUME NEW s \in selected \ pending
        PROVE  /\ \A d \in Deps(s) : d \notin pending /\ wave[d] < wave[s]
               /\ \A t \in selected : phase[t] < phase[s] => t \notin pending /\ wave[t] < wave[s]
    BY <2>1, <2>2, Zenon DEF WaveOrder
  <2>5. QED
    BY <2>3, <2>4, Zenon DEF WavesFollowOrder
<1>2. PlanIInv => WavesFollowOrder
  BY <1>1, Zenon DEF PlanIInv, WavesFollowOrder
<1>3. QED
  BY <1>2, PlanInvariant, PTL

\* BuildWaves never reports that it cannot go on: a waiting step of the smallest
\* phase is ready, and the first one tried fits every limit.
THEOREM WavesNeverStick == Spec => [](pc # "stuck")
<1>1. PlanIInv => pc # "stuck"
  BY Zenon DEF PlanIInv, WaveInv, WaveProgress
<1>2. QED
  BY <1>1, PlanInvariant, PTL
=============================================================================
