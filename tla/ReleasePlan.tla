----------------------------- MODULE ReleasePlan -----------------------------
(***************************************************************************)
(* The order of a release.  A planner is made from contracts, which are    *)
(* ordered as a whole (NewFromContracts, validateGlobalOrderingGraph), or  *)
(* from services that declare their phases (New).  PlanIntent gives every  *)
(* selected service a phase, and BuildWaves, called by assignWaves of the  *)
(* workflow, splits the plan's steps into waves that fit the concurrency   *)
(* limits (internal/planner, internal/scheduler).                          *)
(*                                                                         *)
(* A service is a number, in the order of the names.  A dependency counts  *)
(* as often as a service names another with a type that enforces the       *)
(* rollout order.                                                          *)
(***************************************************************************)
EXTENDS Integers, FiniteSets

CONSTANTS
    Services,
    MaxTimes,  \* how often a service names one dependency, per constructor
    MaxPhase,  \* the largest ReleasePhase a service declares
    Keys,      \* concurrency budget keys
    Uses,      \* how often each service's step names each key
    LimitOf    \* the limit of each key

Constructors == {"New", "NewFromContracts"}

Parameters ==
    /\ Services \subseteq Nat /\ IsFiniteSet(Services)
    /\ MaxTimes \in [Constructors -> Nat] /\ MaxPhase \in Nat
    /\ Uses \in [Services -> [Keys -> Nat]]
    /\ LimitOf \in [Keys -> Nat \ {0}]

ASSUME PlanAssumption == Parameters

VARIABLES
    made,       \* the constructor of the planner
    times,      \* times[s][d]: how often s names d
    release,    \* the ReleasePhase of each service
    pc,
    selected,   \* the services being ordered
    phase,      \* the phase found so far
    indegree,   \* how many dependencies are not processed yet
    ready,      \* services that have none and are not processed
    processed,
    pending,    \* BuildWaves: steps in no wave yet
    queue,      \* ready steps still to be tried for the next wave
    taken,      \* the steps of the next wave
    active,     \* Budget.active
    wave,       \* the number of each step's wave
    waves       \* waves built

input == <<made, times>>
planning == <<selected, phase, indegree, ready, processed>>
waving == <<pending, queue, taken, active, wave, waves>>
vars == <<input, release, pc, planning, waving>>

TypeOK ==
    /\ made \in Constructors
    /\ times \in [Services -> [Services -> 0 .. MaxTimes[made]]]
    /\ release \in [Services -> Nat]
    /\ pc \in {"contracts", "rejected", "loaded", "planning", "cycle",
               "waves", "wave", "done", "stuck"}
    /\ selected \subseteq Services
    /\ phase \in [Services -> Nat]
    /\ indegree \in [Services -> Nat]
    /\ ready \subseteq selected \ processed
    /\ processed \subseteq selected
    /\ pending \subseteq selected
    /\ queue \subseteq pending \ taken
    /\ taken \subseteq pending
    /\ active \in [Keys -> Nat]
    /\ wave \in [Services -> Nat]
    /\ waves \in Nat

Deps(s) == {d \in selected : times[s][d] > 0}
Children(n) == {s \in selected : times[s][n] > 0}

\* How many entries a service has for the services of a set: one for each time it
\* names one of them.
Entries(s, among) == {e \in among \X (1 .. MaxTimes[made]) : e[2] <= times[s][e[1]]}
Names(s, among) == Cardinality(Entries(s, among))

\* NewFromContracts up to the loop of validateGlobalOrderingGraph, which starts
\* with no phases, or New, which takes them as declared.
Init ==
    /\ made \in Constructors
    /\ times \in [Services -> [Services -> 0 .. MaxTimes[made]]]
    /\ IF made = "New"
       THEN /\ release \in [Services -> 0 .. MaxPhase]
            /\ pc = "loaded"
       ELSE /\ release = [s \in Services |-> 0]
            /\ pc = "contracts"
    /\ selected = Services
    /\ phase = release
    /\ indegree = [s \in Services |-> Names(s, Services)]
    /\ ready = {s \in Services : Names(s, Services) = 0}
    /\ processed = {}
    /\ pending = {}
    /\ queue = {}
    /\ taken = {}
    /\ active = [k \in Keys |-> 0]
    /\ wave = [s \in Services |-> 0]
    /\ waves = 0

-----------------------------------------------------------------------------
(* The order of a set of services *)

First(n, S) == n \in S /\ \A m \in S : n <= m

\* Which ready service comes next: the first by name for an intent, while the
\* order of the contracts' map leaves it open for the whole graph.
Chosen(n) == n \in ready /\ (pc = "planning" => First(n, ready))

\* Mutation: a child is moved only when it would come before its parent.
DelayLess(n) ==
    phase' = [s \in Services |->
                IF s \in Children(n) /\ phase[s] < phase[n] THEN phase[n] + 1 ELSE phase[s]]

Delay(n) ==
    phase' = [s \in Services |->
                IF s \in Children(n) /\ phase[s] <= phase[n] THEN phase[n] + 1 ELSE phase[s]]

\* A child that names its parent several times is counted down as often.
ReadyNow(n) ==
    /\ indegree' = [s \in Services |-> IF s \in Children(n) THEN indegree[s] - times[s][n]
                                                            ELSE indegree[s]]
    /\ ready' = (ready \ {n}) \cup {s \in Children(n) : indegree'[s] = 0}

\* One turn of either loop: a ready service delays its children.
Process(n) ==
    /\ pc \in {"contracts", "planning"}
    /\ Chosen(n)
    /\ processed' = processed \cup {n}
    /\ Delay(n)
    /\ ReadyNow(n)
    /\ UNCHANGED <<input, release, pc, selected, waving>>

\* A cycle anywhere refuses all contracts.
Rejected ==
    /\ pc = "contracts" /\ ready = {} /\ processed # Services
    /\ pc' = "rejected"
    /\ UNCHANGED <<input, release, planning, waving>>

\* Mutation: the phases of the whole graph are only used to find cycles.
LoadedOnly ==
    /\ pc = "contracts" /\ ready = {} /\ processed = Services
    /\ pc' = "loaded"
    /\ UNCHANGED <<input, release, planning, waving>>

\* The phase in the whole graph becomes the ReleasePhase of each service.
Loaded ==
    /\ pc = "contracts" /\ ready = {} /\ processed = Services
    /\ pc' = "loaded"
    /\ release' = phase
    /\ UNCHANGED <<input, planning, waving>>

\* PlanIntent for a selection of services, up to its loop.
PlanIntent(S) ==
    /\ pc = "loaded"
    /\ pc' = "planning"
    /\ selected' = S
    /\ phase' = release
    /\ indegree' = [s \in Services |-> IF s \in S THEN Names(s, S) ELSE 0]
    /\ ready' = {s \in S : Names(s, S) = 0}
    /\ processed' = {}
    /\ UNCHANGED <<input, release, waving>>

\* Mutation: the number of processed services is not compared.
PlanEndsAnyway ==
    /\ pc = "planning"
    /\ ready = {}
    /\ pc' = "waves"
    /\ pending' = selected
    /\ UNCHANGED <<input, release, planning, queue, taken, active, wave, waves>>

\* A cycle among the selected services is an error; otherwise the plan's steps
\* are handed to BuildWaves.
PlanEnds ==
    /\ pc = "planning"
    /\ ready = {}
    /\ IF processed = selected
       THEN pc' = "waves" /\ pending' = selected
       ELSE pc' = "cycle" /\ UNCHANGED pending
    /\ UNCHANGED <<input, release, planning, queue, taken, active, wave, waves>>

-----------------------------------------------------------------------------
(* BuildWaves *)

ReadySteps == {s \in pending : Deps(s) \cap pending = {}}

\* Mutation: every ready step is a candidate.
OpenWaveAnyPhase ==
    /\ pc = "waves"
    /\ pending # {}
    /\ queue' = ReadySteps
    /\ taken' = {}
    /\ pc' = IF ReadySteps = {} THEN "stuck" ELSE "wave"
    /\ UNCHANGED <<input, release, planning, pending, active, wave, waves>>

\* The ready steps of the smallest phase are the candidates of the next wave.
OpenWave ==
    /\ pc = "waves"
    /\ pending # {}
    /\ queue' = {s \in ReadySteps : \A t \in ReadySteps : phase[s] <= phase[t]}
    /\ taken' = {}
    /\ pc' = IF ReadySteps = {} THEN "stuck" ELSE "wave"
    /\ UNCHANGED <<input, release, planning, pending, active, wave, waves>>

\* Mutation: the limit itself is still granted.
FitsAboveLimit(s) == \A k \in Keys : Uses[s][k] > 0 => active[k] <= LimitOf[k]

Fits(s) == \A k \in Keys : Uses[s][k] > 0 => active[k] < LimitOf[k]

TryAcquire(s) ==
    /\ pc = "wave"
    /\ First(s, queue)
    /\ queue' = queue \ {s}
    /\ IF Fits(s)
       THEN /\ taken' = taken \cup {s}
            /\ active' = [k \in Keys |-> active[k] + Uses[s][k]]
       ELSE UNCHANGED <<taken, active>>
    /\ UNCHANGED <<input, release, pc, planning, pending, wave, waves>>

\* Mutation: the reservations of a wave are kept.
ReleaseNone == UNCHANGED active

\* Every reservation of the wave is released, and the budget holds no others.
ReleaseWave == active' = [k \in Keys |-> 0]

CloseWave ==
    /\ pc = "wave"
    /\ queue = {}
    /\ ReleaseWave
    /\ pending' = pending \ taken
    /\ taken' = {}
    /\ wave' = [s \in Services |-> IF s \in taken THEN waves ELSE wave[s]]
    /\ waves' = waves + 1
    /\ pc' = IF taken = {} THEN "stuck" ELSE "waves"
    /\ UNCHANGED <<input, release, planning, queue>>

WavesEnd ==
    /\ pc = "waves"
    /\ pending = {}
    /\ pc' = "done"
    /\ UNCHANGED <<input, release, planning, waving>>

Next ==
    \/ \E n \in Services : Process(n) \/ TryAcquire(n)
    \/ Rejected \/ Loaded \/ PlanEnds \/ OpenWave \/ CloseWave \/ WavesEnd
    \/ \E S \in SUBSET Services \ {{}} : PlanIntent(S)

Spec == Init /\ [][Next]_vars

\* The planner and the workflow are sequential code: they run to their end.
FairSpec == Spec /\ WF_vars(Next)

-----------------------------------------------------------------------------
(* Properties *)

Planned == pc \in {"waves", "wave", "done"}
Cyclic == \E S \in SUBSET selected : S # {} /\ \A s \in S : Deps(s) \cap S # {}

\* s needs d, directly or through other services: d is in every set that holds the
\* dependencies of s and is closed under dependencies.
Needs(s, d) ==
    \A S \in SUBSET Services :
        ({e \in Services : times[s][e] > 0}
           \cup {e \in Services : \E f \in S : times[f][e] > 0}) \subseteq S => d \in S

\* A cycle is reported, by NewFromContracts for all services and by PlanIntent for
\* those selected, exactly when the dependencies have one.  Otherwise the plan
\* gives every service a later phase than its dependencies, and the earliest one
\* that this and its ReleasePhase allow.
PhasesAreLeast ==
    /\ pc \in {"rejected", "cycle"} => Cyclic
    /\ Planned \/ (pc = "loaded" /\ made = "NewFromContracts") => ~Cyclic
    /\ Planned =>
          \A s \in selected :
              /\ \A d \in Deps(s) : phase[d] < phase[s]
              /\ phase[s] = release[s] \/ \E d \in Deps(s) : phase[s] = phase[d] + 1

\* Contracts that were accepted can be planned for every selection, and a service
\* comes in a later phase than every selected service it needs, also when the
\* services between the two are not part of the release.
OrderSurvivesSelection ==
    made = "NewFromContracts" =>
        /\ pc # "cycle"
        /\ Planned => \A s, d \in selected : Needs(s, d) => phase[d] < phase[s]

\* A step is in a later wave than its dependencies, and waves follow the phases:
\* none starts while a step of an earlier phase waits for the next one.  And no
\* wave holds more steps of a key than its limit.
WavesFollowOrder ==
    Planned =>
        /\ \A s \in selected \ pending :
              /\ \A d \in Deps(s) : d \notin pending /\ wave[d] < wave[s]
              /\ \A t \in selected :
                    phase[t] < phase[s] => t \notin pending /\ wave[t] < wave[s]
        /\ \A k \in Keys, w \in 0 .. waves :
              Cardinality({s \in selected \ pending : wave[s] = w /\ Uses[s][k] > 0})
                  <= LimitOf[k]

\* Planning ends, in an error or with every step in a wave: assignWaves never fails
\* on a plan PlanIntent made, because each wave takes at least one step.
PlanEndsWell == <>(pc \in {"rejected", "cycle"} \/ (pc = "done" /\ pending = {}))
=============================================================================
