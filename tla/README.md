# TLA+ models of Themisy

Themisy is a control plane that carries out releases on behalf of users and
agents: it plans a release, evaluates policy, asks for approvals, deploys,
verifies and rolls back, and records everything it did. This directory models
the parts of it that hold state, checks them with TLC and proves properties of
them with TLAPS. Paths below are relative to `src/`.

## The system

| Part | State | Operations | What makes it hard |
|---|---|---|---|
| Planner (`internal/planner`) | none | `NewFromContracts`, `PlanIntent`, `ValidatePlan` | phases must follow dependencies, also those that run through services left out; cycles |
| Waves (`internal/scheduler/waves.go`) | budget of the wave | `BuildWaves` | limits against order; an input no wave can finish |
| Application layer (`internal/application`) | frozen runners, per process | start, decide, revoke, cancel, pause, resume, freeze, recovery loop | reads a stored run, then signals a workflow that has moved on |
| Run store (`internal/store`) | runs with versions, executions, runner actions, outbox, audit | create, update, rebuild, reserve, complete, mark | optimistic versions; a commit whose answer is lost; a rebuild that races an update; transactions that wait for each other's rows and for connections |
| Workflow start outbox (`application/outbox.go`) | outbox rows | start, recover, mark | a crash between any two of create, start and mark; two publishers |
| Release workflow (`internal/workflow/release.go`) | the run, four signal channels | one Temporal workflow per run | buffered signals, retried activities, pause across an expiry |
| Activities (`internal/workflow/activities.go`) | executions, scheduled map | persist, deploy, rollback, verify, acquire and complete schedule | at most three attempts; a timed out attempt goes on running |
| Scheduler (`internal/scheduler`) | budget, breaker | dispatch, complete | state in memory of a worker that may restart |
| Runner (`internal/runner`) | runner journal, connectivity | `Execute`, `Reconcile` | two grants for one key; a write with no answer |
| Engine (`internal/engine`) | the run | start, decide, cancel, pause, resume | synchronous calls that interleave around one stored run |
| Policy, identity, grants, credentials (`internal/policy`, `internal/identity`, `internal/grant`) | the bundle of each process | evaluate, load, sign, verify | decided twice, in two processes, whose bundles, tokens and delegations change or expire in between |
| GitHub adapter (`adapters/githubactions`) | workflow runs, outside | dispatch, find by title | a dispatch with no answer; clocks, pages |
| Datadog adapter (`adapters/datadog`), verification service | none | points to verdict | silence, old or thin data must not pass |
| Executor | the outside | deploy, verify, roll back | a call may write and then fail |
| HTTP, MCP, UI, commands, configuration | none | decoding, rendering, wiring | |

The control plane starts one workflow per run through the outbox. The workflow
runs activities on a worker that holds the scheduler, and persists the run
after every change. The application layer reads the stored run and sends
signals. The runner executes signed grants in the customer's environment and
keeps a journal of its own. The engine is a synchronous path kept for
compatibility.

## Modules

| Module | Models | State and actions against the code |
|---|---|---|
| `AtMostOnceWrite` | what both journals promise | per operation: claimed, written, in doubt, confirmed |
| `ExecutionReservation` | `Deploy` and `Rollback` activities | `record` is the executions row, `pc[o][n]` an attempt, `current` the attempt Temporal waits for, `calls` what the executor saw |
| `ReleaseWorkflow` | `ReleaseWorkflow`, `awaitApproval`, `waitForResume`, the signalling API | `steps`, `status`, `approval` are the workflow's run, `stored` the row, `version` and `storedVersion` the optimistic versions, `cont` what follows the persist under way, `deploy` and `rollback` the outside |
| `Scheduler` | budget, breaker, `AcquireSchedule`, `CompleteSchedule`, `FreezeRunner` | `active` the budget, `window` and `open` the breaker, `scheduled` the worker's map, `frozen` the API process's table, `reader` who is between reading a capacity and reserving |
| `RunnerJournal` | `Runner.Execute`, `Runner.Reconcile` | `row` the journal, `pc[d]` a delivery, `batch` what a call of `Reconcile` has still to visit, `writes` and `ended` what the provider saw and made of it, `barred` the deliveries that a disconnection finds before their check |
| `WorkflowOutbox` | `Releases.start`, `RecoverPendingWorkflows` | `outbox` and `published` the rows, `workflows` what Temporal runs |
| `LegacyEngine` | `Engine` | `stored` the run, `copy[c]` what a call works on |
| `ReleasePlan` | `New`, `NewFromContracts` with `validateGlobalOrderingGraph`, `PlanIntent` on a selection, `BuildWaves` | the loops' own variables, `release` the phases a planner keeps |
| `GitHubDispatch` | the GitHub adapter behind `SDKDispatcher` | `runs` GitHub's workflow runs, `request` and `outcome` a dispatch, `record` the journal, `scan` a reconciliation |
| `VerificationEvidence` | `Service.Verify`, the Datadog adapter and broker | `points` the answer, `status` the verdict |
| `RunProjection` | what the PostgreSQL store promises: each operation on a run in one step | `row` the run, `events` its projection events, `copy[w]` the version a writer read, `rebuild` what a rebuild has read |
| `RunStore` | `CreateRunAtomic`, `UpdateRunAtomic` and `RebuildProjection` statement by statement | the state of `RunProjection`, `stage[c]` where a caller's transaction stands, `free` the connections in the pool, `answer` what a creator was told |
| `PolicyDecision` | `baseline/main.rego`, `examples/standard.rego`, `OPA.Evaluate` | pure: the rules over the facts of an input, and the decision with one or two layers |
| `RunnerAuthority` | a step from `PlanIntent` to the runner's write: `ValidatePlan`, `EvaluateStep`, the approval, the grant, the checks of `Runner.Execute` in their order | `plan` the pinned hash, `judge` and `decision` the control plane's verdict, `control` and `local` the bundles of the two processes, `grant` and `context` what the runner is given, `stage` where `Execute` stands, `lapsed` what has expired |
| `ExecutionProofs` | proofs about `ExecutionReservation` and `LegacyEngine` | |
| `RunnerProofs` | proofs about `RunnerJournal` and `GitHubDispatch` | |
| `StoreProofs` | proofs about `RunProjection`, `RunStore` and `WorkflowOutbox` | |
| `AuthorityProofs` | proofs about `RunnerAuthority` and `VerificationEvidence` | |
| `ReleasePlanProofs`, `SchedulerProofs` | proofs about `ReleasePlan` and `Scheduler` | |
| `ReleaseWorkflowInvariant`, `ReleaseWorkflowProofs` | the inductive invariant of `ReleaseWorkflow` with the lemmas about its steps, and the theorems | |

`ExecutionReservation` and `RunnerJournal` are both shown to implement
`AtMostOnceWrite`. `ReleaseWorkflow` uses the outcome of `ExecutionReservation`:
a Deploy that begins writes at most once, possibly after the workflow has given
up on it (`DeployWrites`), and is answered with success only if it wrote.
`GitHubDispatch` is one provider behind `RunnerJournal`, whose result that a key is
dispatched once it takes over. `RunnerAuthority` covers the verifications of
`Execute` that come before the reservation, where `RunnerJournal` takes over.
`RunStore` implements `RunProjection`. `Scheduler` sees the workflow only as acquire,
then complete, fail, or restart.

The `MC*` modules give the constants their values; each `.cfg` is one run.

### Choices worth knowing

- A guard such as `Authorise` in `RunnerJournal` stands for a list of
  verifications of signatures, hashes and roles. Each may refuse and none
  changes state, so the model lets the list accept or refuse; `RunnerAuthority`
  has the list itself.
- In `RunnerAuthority` an input is a record of the facts the rules look at, and
  its hash is the input itself: two inputs have one hash when they are equal.
  Nothing under `src/` issues grants or pins contexts for a runner, and only
  tests wire this chain, so `IssueGrant` and `PinContext` are external. The issuer
  is assumed to hash the input of the control plane after the decision, with the
  approval in it, as `internal/policy/opa_test.go:49` does; the fixture of
  `internal/runner/runner_test.go:195` hashes the runner's own input instead.
  `ClearedIsAccepted` depends on that assumption.
- Nothing but tests calls `Reconcile`, so the models let it be called at any time and
  never require it. `calm` in `RunnerJournal` and `quiet` in `GitHubDispatch` turn true
  when crashes and outages end, at any time or never; what one call achieves is stated
  from then on.
- `PolicyDecision` leaves out `MISSING_DELEGATION` (`policies/baseline/main.rego:26`).
  It compares `delegation_ref` with the empty string, and `input.go:25` omits an
  empty reference, so the comparison is undefined and the rule adds no denial.
  This is read from the code and the semantics of Rego; no test of the repository
  covers it and it was not executed here.
- In `RunStore` the locks are PostgreSQL's: a statement that writes the run waits
  while another open transaction has written it. A commit may succeed with its
  answer lost, and any statement may fail.
- `accepted` in `ReleaseWorkflow` keeps the first decision the API accepted for a
  step, and `Authorised` says that this one counts.
- `ReleaseWorkflow` leaves out branches that cannot be taken: a step whose
  dependency did not succeed (shown by `DependencyOrder`), a step that is
  already succeeded, and the error of `assignWaves` (shown by `PlanEndsWell`
  in `ReleasePlan`).
- The application layer's read of the store and its signal are one action. The
  stored row already lags behind the workflow, so the model has the stale reads.
- In `LegacyEngine` one action covers an unmet dependency, a denial and a
  failed audit: they end the call in the same way.
- `ReleasePlan` lets any ready service of the whole graph come next: the code
  takes the last one of a list whose order depends on map iteration.
- `VerificationEvidence` lets any of the points with the newest time be the last,
  because `sort.Slice` is not stable, and keeps averages as exact fractions: the
  sum is compared with the threshold times the number of points. The loop of
  `aggregate` takes one point per step (`Read`).
- In `WorkflowOutbox` what a recovery has read is the set of the oldest unmarked rows
  and it goes through it oldest first, as the query orders them.
- In `GitHubDispatch` a record that `Execute` completes is SUCCEEDED as soon as
  GitHub returns a run ID, as in the code; only `Reconcile` waits for the run.
- In `Scheduler` a freeze is what takes capacity away: the adapter and queue
  figures are constants in `cmd/themisy`. `slipped` counts the reservations made
  for a runner since it was frozen.
- The breaker's error rate is a fraction, compared by cross-multiplication.
- `BudgetIsExact` compares a counter with the number of places (dispatch, position
  in its list of keys) that are held, so that a failure domain named twice counts
  twice, as in the code. That limits are positive is what `Limits.Validate` enforces
  before a budget exists (`internal/scheduler/budget.go:43`).

## Runs

| Run | Shows | Bounds |
|---|---|---|
| `reservation` | one executor call per operation, after its reservation; true and final answers; refinement | one operation, the code's three attempts |
| `workflow` | authorisation, order, true store, cancellation, termination | three steps, each depending on all before it, four signals |
| `scheduler` | budget, breaker, freeze within one process | four dispatches of a tenant, limits 2 and 1, one late attempt, one restart |
| `runner_journal` | one write per key; refinement; no write by a delivery whose check a disconnection precedes; one undisturbed call of `Reconcile` confirms what it lists | two deliveries of three grants sharing a nonce or a key, a batch of two |
| `outbox` | one workflow per run, eventually | three calls, two processes, one crash |
| `engine` | engine safety | two steps, five calls |
| `engine_success` | finding | two steps, three calls |
| `plan` | phases, selections, waves | three services, every dependency relation, phases up to 2, contracts that name a dependency up to twice |
| `github_dispatch` | error classes, confirmed runs, a successful run found by one search unless a page hides it | one key, two runs of others per workflow, a page of two, a clock one minute behind |
| `evidence` | verdicts rest on data | up to three points, all comparators and aggregations |
| `store` | transactions implement the atomic operations; one creation per request; a linear history of versions; every call returns | two creators of one request, two writers, one rebuild, three connections, two versions, one outside edit |
| `authority` | what is written is allowed by the pinned policy and asked for by the verified user; a runner with the same policy does not refuse what was cleared | every request, two bundles (with and without the standard layer), three users (the requester, one of the same id from another issuer, another one), two restarts |

The bounds are enough for the cases that matter. Three attempts are the code's
own limit, and allow two orphans beside a live one. Four signals put a
duplicate, a stale and a contrary signal in the queues together. Two grants for
one key, two publishers and two engine calls around a third are the smallest
sets in which the races exist. Three services make every shape of dependency:
chain, fork, join and cycle, and a service between two others. A page of two,
where the code has a hundred, is filled by the runs of others, so that both cases
happen: the run looked for is on the page, or behind it. A batch of two puts a record
that is skipped before one that is confirmed.
Three points give an old, a new and a tied one. Two creators, one writer ahead of
the other and a rebuild are all the conflicts a row can have, and three
connections are one fewer than the callers that may want one, so the pool runs
dry. Two bundles and two restarts let the control plane decide, and the runner
decide again, with a bundle other than the one pinned.

`CHECK_DEADLOCK FALSE` is set where the system ends: an answered activity, a
returned workflow, calls used up.

### Fairness

- `ExecutionReservation`: only `TimeOut` is fair, because Temporal enforces
  `StartToCloseTimeout` whatever the worker does.
- `ReleaseWorkflow`: the workflow's own steps (Temporal resumes a workflow and
  bounds every activity) and the passing of time. Signals are not fair: nobody
  has to decide, resume or cancel.
- `RunnerJournal`: a call of `Reconcile` that is under way goes through its loop.
  Nobody has to make one, no delivery has to go on and no write has to end.
- `WorkflowOutbox`: `RunWorkflowRecovery` repeats every five seconds, and the
  store and Temporal are not unavailable for ever.
- `GitHubDispatch`: a search that is under way goes on. Nobody has to begin one, and
  no run has to end.
- `RunStore`: each transaction that is under way is treated strongly fairly,
  because the pool hands out connections, and PostgreSQL row locks, in the order
  in which they were asked for. Nobody has to call.
- `ReleasePlan`: a loop that can go on does.

## Findings

`engine_success`: a cancellation between an approval and the read that follows
it makes the engine record success (`internal/engine/engine.go:411`).

### Limits of the guarantees

The models also show what the code does not guarantee. Six definitions state
what a reader of the documents might expect; TLC refutes each as the only
property of the run named, with its constants. Three more properties depend on a
constant.

- `CancelledStays` (`engine`): a decision on an approval left pending reopens a
  cancelled run (`internal/engine/engine.go:137`).
- `NoWriteWhileCut` (`runner_journal`): a delivery looks at the connection once
  (`internal/runner/runner.go:120`), then authorises, reserves and acquires a
  credential, and calls the adapter (`:188`) although the control plane may be lost by
  then. `docs/architecture/overview.md:98` says that "On Control Plane disconnection,
  the Runner starts no new production write"; `docs/adr/0004-customer-environment-runner.md:18`
  and `docs/security/threat-model.md:162` say the same. `CutDeliveriesStop` is what
  holds: a delivery that has not passed its check when the control plane is lost
  reserves and writes nothing until it is back.
- `EndedIsResolved` (`github_dispatch`): a search that finds a run that ended in
  failure leaves its record unresolved (`internal/runner/dispatch.go:119`).
- `SuccessIsFound` (`github_dispatch`): a run pushed off the only page that is read is
  not found (`adapters/githubactions/reconcile.go:61`). `SuccessIsResolved` excepts it.
- `RebuiltIsNewest` (`store`): a rebuild undoes an update committed between
  its read and its write, and updates then fail on the event that exists until
  another rebuild; only tests call it so far
  (`internal/store/postgres/projection.go:39`).
- `ExpiredPolicyStops` (`authority`): a runner goes on with a bundle that expires
  after it was loaded (`internal/policy/opa.go:48`), where
  `docs/security/threat-model.md:159` lists an expired policy under "no new write".
- `FreezeHolds` with `OneProcess = FALSE`: a freeze stays in the process that
  serves the API, and `deploy/compose/compose.yaml` runs the worker in another one
  (`internal/application/releases.go:203`), where
  `docs/operations/capacity.md:33` says that a freeze "sets that Runner projection
  to zero capacity".
- `CallsReturn` with `Conns = 2`: two duplicates of a request each hold a
  connection and wait, without a deadline, for a second one
  (`internal/store/postgres/store.go:101`). The pool's default is four or the
  number of CPUs, so as many duplicates as connections are needed.
- `NoRecordStarves` with `Limit = 1`: even if `Reconcile` is called for ever, rows that
  cannot be resolved keep later ones out of the batch
  (`internal/store/postgres/store.go:444`).

Seven more are in the models without a property. A revocation accepted behind an
approval that is still queued has no effect (`internal/application/approvals.go:77`).
Under the standard layer a production step of medium risk is denied before an
approval can be asked for. A second resume sent for one pause ends a later pause at once. A call whose event a recovery loop has marked
first fails although its workflow has started. A restart forgets every freeze. A
workflow whose persist fails after `AcquireSchedule` keeps its reservation until the
worker restarts (`internal/workflow/release.go:111`). Two engine calls that advance one
run both call the executor, with the same idempotency key.

## Proofs

A proof module extends the specifications it is about. Where there are two, they have no
name in common (hence `EngineSpec`, `DispatchSpec`, `OutboxSpec` and `EvidenceSpec`), so
each theorem is about one of them. The proofs rest on the assumptions that
the specifications state of their constants and that TLC evaluates in the runs.
Leaves cite `Zenon` where it proves them quickly.

`ExecutionProofs` proves, for every set of operations and every
number of attempts, the type invariant, `AtMostOneCall`, `CallIsReserved`,
`SuccessIsRecorded`, `CompletedIsFinal` and the refinement of
`AtMostOnceWrite`. `TypeOK`, `CallIsReserved` and `CompletedIsFinal` are proved
and have no run. The only assumption is the one `ExecutionReservation` states of
its constants.

`AtMostOneCall` is not inductive: a state in which two attempts own the
reservation satisfies it and leads to one that does not. The invariant `IInv`
adds three parts to the types. `OneOwner`: at most one attempt is past its
reservation, the record is RESERVED while it is, and it knows whether the call
was made. `RowTellsCalls`: no record means no call, and SUCCEEDED means one that
was confirmed. `AnswersRecorded`: a success on its way to the workflow, or
arrived there, has a SUCCEEDED record behind it. Each action then needs one step per
part it can disturb. The action property and the refinement follow from the same
invariant.

`StoreProofs` proves `HistoryIsLinear` of `RunProjection` for every set of writers
and every number of versions, rebuilds and edits, from the assumptions
`RunProjection` states. The invariant adds that what the row and a rebuild hold
comes from an event that exists (`Backed`); without it an update could leave a gap.
Then it proves, for every set of callers and every size of the pool, that the
transactions of `RunStore` implement `RunProjection` (`StoreIsAtomic`), and with it
`HistoryIsLinear` for the detailed store (`StoreHistory`). The invariant adds
`Locked`: at most one open transaction has written the run, and until it ends it
still finds the row and the events as its statement found them. A commit is then
the whole abstract operation, and every other step a stutter, a read or a failure.
`OneCreation` (`CreatedOnce`) follows with one more fact: a unique violation, once
found, means that the run is stored, and no step removes it (`RowStays`).
`OneWorkflowPerRun` is `OneOfEach` of `WorkflowOutbox` for any calls, processes, batch
sizes and crashes. It needs two facts that the property does not mention: the call
that created a run is the only one on its way to the answer "created"
(`OneCreator`), and whoever is about to mark a row has seen its workflow started
(`MarkedIsStarted`), also when a crash or another publisher comes in between.

`RunnerProofs` proves `AtMostOneWrite`, `SuccessIsOwn`, `CutDeliveriesStop` and the
refinement of `AtMostOnceWrite` for any grants, keys, nonces, deliveries, batches and
crashes. `AtMostOneWrite` alone says nothing of the delivery that is about to
write. The invariant adds `OneRecord` (of the grants that share a key one at most has
a record, and the version tells whether it was completed), `OneOwner` (one delivery
at most holds the reservation of a key, and its place says whether the adapter was
called), `RecordTellsWrites` and `EndedAreWritten`, since `Reconcile` confirms what it
finds to have ended well. The abstract state of a key is read from its one
record and its owner.
It also proves `TerminalIsHarmless` and `ConfirmedIsOwn` of `GitHubDispatch` for any keys,
workflow files, page sizes, clock skew and runs of others. `RunsAreOwn`: a run
that has a key's title is in that key's workflow, and there is one exactly if
a request of that key created it. `DispatchProgress`: what a dispatch knows of its request at each place;
a terminal outcome comes only from a request that was refused or never sent.

`ReleaseWorkflowInvariant` and `ReleaseWorkflowProofs` prove `Authorised`,
`DependencyOrder`, `StoredIsTrue`, `CancelStops` and `FinalStays` for any number of
steps, any dependencies that point backwards and any number of signals. The
invariant has eight parts. `PersistInv`: unless a persist is under way or was given up,
the store holds the run. `ProgressInv`: steps before the current one have succeeded,
those after it are untouched. `PlaceInv`: what is known of the current step at each
place, also while a persist stands between two places. `TruthInv`: the run in memory
and the run in the store agree with the outside, and a status final in the store is
final in memory, since a late attempt may still commit an old snapshot.
`ClearedInv`: what was deployed is cleared in both. `QueueInv`: the first signal queued for a pending approval is the
first decision the application accepted. `CancelInv`: a cancel stays in its channel
until the run is over. The proof separates the workflow's own steps from
those of the others (`StepKinds`), which touch only queues and late writes.

`SchedulerProofs` proves `BudgetIsExact`, `ReleasedAtEnd`, `TripsInTime` and
`OpenStopsProduction` for any dispatches, lists of failure domains, limits and
policies, and `FreezeHolds` under the hypothesis `OneProcess`, without which it is
false. The budget needs `reader \cap scheduled = {}`, since a dispatch counted twice would
be given back once, and lemmas on cardinalities: a dispatch that joins takes places
nobody had (`HeldGrows`), one that leaves gives back exactly those (`HeldShrinks`), so
`Release` never meets its floor at zero, and every dispatch that uses a key takes
a place under it (`HoldersBounded`), so a counter below its limit leaves room. The
freeze needs that the reservation on its way is the first since its runner was frozen.

`ExecutionProofs` also proves `Authorised`, `SucceededIsVerified` and `DecisionsStay` of
`LegacyEngine` for any plan, policy and number of calls. The invariant says what each call knows of its
copy of the run (`Knows`): it tells the truth about what was deployed and verified; if
it has the stored version it keeps every decision and success; and what it takes
for approved was approved, except in the call that is about to store the approval.
The version check of `UpdateRun` is what makes the second part enough.

`AuthorityProofs` proves `WrittenIsAgreed` and `ClearedIsAccepted` for any
bundles, users and number of restarts. The invariant has three parts: what a
decision says about the request (`Judged`), that what was issued is what was
cleared (`Issued`), and what `Execute` has established by each stage
(`Established`), in particular that what has not expired now had not expired when
the grant was verified. `AllowIsAllowed` reduces the evaluation to the conditions
the rules state.
It also proves `VerdictIsEarned` of `VerificationEvidence` for any points, thresholds,
windows and queries. The invariant describes the loop (`Reading`): no point
read so far is newer than one left, and the value is the last or the greatest of those
read. For an average, where the value is a sum, no fact about sums is needed: it
stays on the side of the threshold, times the number of points, on which all of its
terms are (`SumIs`).

`ReleasePlanProofs` proves `PhasesAreLeast`, `OrderSurvivesSelection` and
`WavesFollowOrder` for any finite catalog, any dependencies, repetitions and
selection, and any keys and limits. The ordering rests on a count (`Counted`): the
counter of a service is the number of its entries for services not yet processed.
So a service that becomes ready has all its dependencies behind it with lower phases
(`InOrder`), and when nothing is ready and services are left, those are a set in which
each one depends on another, which is a cycle (`Found`). The waves need that a wave takes steps
of the lowest pending phase only (`WaveOrder`), and that the budget
counts at least the steps it holds (`WaveLimits`). `WavesNeverStick` adds that the error of
`BuildWaves` for steps it cannot place is not reached: the first candidate of a
wave always fits an empty budget.

Each of these inductive invariants was also model-checked on a small instance.

Every safety property the passing runs check has a theorem. Liveness stays with
TLC (`EventuallyDecided`, `EndsUnlessPaused`, `CancelEnds`, `OneCallConfirms`,
`EveryRunStarts`, `PlanEndsWell`, `SuccessIsResolved`, `CallsReturn`): it rests on
fairness and ENABLED, which are outside the prover.

## Plan

1. Extend the models: the composition of the workflow with the scheduler for
   several runs, saved plans, and the composition of `RunnerJournal` with
   `RunnerAuthority` and `GitHubDispatch`.
2. Prove that a run of several components keeps the safety properties proved for each,
   once the compositions exist.

## Not modelled

Signatures, hashing, credential exchange and the parsing of contracts, profiles
and configuration have no state; their verdicts are inputs. The built-in policy
evaluator is used by tests only. The HTTP, MCP and UI front ends translate
requests. Audit rows are written in the transactions modelled here and are not
read back.

## Running

    tlc -workers 2 -config MCReleaseWorkflow.cfg MCReleaseWorkflow
    tlapm ExecutionProofs.tla

The other proof modules are checked in the same way. `ReleaseWorkflowProofs` uses the
lemmas of `ReleaseWorkflowInvariant`, which is checked on its own; each module takes
one to three minutes.
