---------------------------- MODULE GitHubDispatch ----------------------------
(***************************************************************************)
(* The GitHub Actions adapter (adapters/githubactions) behind the runner's *)
(* SDKDispatcher: the dispatch of a deploy or rollback workflow, and the   *)
(* search by which Reconcile finds a run whose dispatch got no answer.     *)
(*                                                                         *)
(* A key is the idempotency key of one journal record; CorrelationID is    *)
(* injective, so the title of a run is the key itself.  The journal        *)
(* (RunnerJournal) lets a key be dispatched once.  What GitHub does is     *)
(* external: a request may arrive late or never, an answer may get lost,   *)
(* its clock may lag, and others dispatch runs of the same workflow.       *)
(***************************************************************************)
EXTENDS Naturals, Sequences, FiniteSets

CONSTANTS
    Keys,
    Files,        \* the configured workflow files in the order Reconcile visits
    FileOf,       \* the workflow file of each key
    Conclusions,  \* how runs may end: "success", "failure"
    PageSize,     \* per_page
    Skew,         \* minutes by which GitHub's clock is behind the runner's
    MaxMinutes,   \* minutes considered
    MaxOthers     \* runs of each workflow that others dispatch

Workflows == {Files[i] : i \in DOMAIN Files}

\* Runs are the keys' or others'; "other" is no key's title.
Configured ==
    /\ Files \in Seq(Workflows)
    /\ FileOf \in [Keys -> Workflows]
    /\ "other" \notin Keys
    /\ Conclusions \subseteq {"success", "failure"}
    /\ PageSize \in Nat \ {0}
    /\ {Skew, MaxMinutes, MaxOthers} \subseteq Nat

ASSUME DispatchAssumption == Configured

VARIABLES
    clock,    \* minutes on the runner's clock
    runs,     \* the workflow runs of each file, oldest first
    request,  \* where the POST of each key is
    at,       \* where Execute is
    outcome,  \* what the adapter returned: an ID or the class of its error
    record,   \* the journal record of each key
    scan,     \* Reconcile: the file to look at next, 0 when it is not running
    quiet     \* from now on nothing goes wrong with a search of Reconcile

execute == <<request, at, outcome>>
dispatchVars == <<clock, runs, execute, record, scan, quiet>>

NoRun == 0
Unresolved == {"RESERVED", "UNKNOWN"}

WorkflowRuns ==
    [title : Keys \cup {"other"}, created : Nat, state : {"queued"} \cup Conclusions]

Records ==
    [status : {"NONE", "SUCCEEDED"} \cup Unresolved, since : Nat, run : Nat,
     via : {"none", "execute", "reconcile"}]

DispatchTypeOK ==
    /\ clock \in Nat
    /\ runs \in [Workflows -> Seq(WorkflowRuns)]
    /\ request \in [Keys -> {"none", "flying", "created", "refused"}]
    /\ at \in [Keys -> {"idle", "ready", "waiting", "returned", "done"}]
    /\ outcome \in [Keys -> {"none", "ID", "TERMINAL", "UNKNOWN_EXTERNAL_STATE"}]
    /\ record \in [Keys -> Records]
    /\ scan \in [Keys -> [next : 0 .. Len(Files), read : {"NONE"} \cup Unresolved]]
    /\ quiet \in BOOLEAN

DispatchInit ==
    /\ clock = Skew
    /\ runs = [f \in Workflows |-> <<>>]
    /\ request = [k \in Keys |-> "none"]
    /\ at = [k \in Keys |-> "idle"]
    /\ outcome = [k \in Keys |-> "none"]
    /\ record = [k \in Keys |-> [status |-> "NONE", since |-> 0, run |-> NoRun, via |-> "none"]]
    /\ scan = [k \in Keys |-> [next |-> 0, read |-> "NONE"]]
    /\ quiet = FALSE

-----------------------------------------------------------------------------
(* Dispatch *)

\* The runner reserves the key; CreatedAt is what Reconcile searches from.
Reserve(k) ==
    /\ at[k] = "idle"
    /\ record' = [record EXCEPT ![k] = [status |-> "RESERVED", since |-> clock,
                                        run |-> NoRun, via |-> "none"]]
    /\ at' = [at EXCEPT ![k] = "ready"]
    /\ UNCHANGED <<clock, runs, request, outcome, scan, quiet>>

\* The request is not valid, its target not allow-listed, or the credential not
\* usable: nothing is sent.
Decline(k) ==
    /\ at[k] = "ready"
    /\ outcome' = [outcome EXCEPT ![k] = "TERMINAL"]
    /\ at' = [at EXCEPT ![k] = "returned"]
    /\ UNCHANGED <<clock, runs, request, record, scan, quiet>>

\* The POST to the dispatches endpoint of the key's workflow.
Post(k) ==
    /\ at[k] = "ready"
    /\ at' = [at EXCEPT ![k] = "waiting"]
    /\ request' = [request EXCEPT ![k] = "flying"]
    /\ UNCHANGED <<clock, runs, outcome, record, scan, quiet>>

\* What the client can get for a request in each state: an answer, or an error
\* or timeout of the connection ("lost").
Responses(state) ==
    {"lost"}
    \cup (IF state = "created" THEN {"200 with ID", "200 without ID", "5xx"} ELSE {})
    \cup (IF state = "refused" THEN {"4xx", "429", "5xx"} ELSE {})

\* Mutation: only a missing answer is ambiguous.
ClassifyStatus(response) ==
    IF response = "200 with ID" THEN "ID"
    ELSE IF response \in {"4xx", "429", "5xx"} THEN "TERMINAL"
    ELSE "UNKNOWN_EXTERNAL_STATE"

\* How dispatch classifies a response.
Classify(response) ==
    IF response = "200 with ID" THEN "ID"
    ELSE IF response = "4xx" THEN "TERMINAL"
    ELSE "UNKNOWN_EXTERNAL_STATE"

Answered(k) ==
    /\ at[k] = "waiting"
    /\ \E response \in Responses(request[k]) :
         outcome' = [outcome EXCEPT ![k] = Classify(response)]
    /\ at' = [at EXCEPT ![k] = "returned"]
    /\ UNCHANGED <<clock, runs, request, record, scan, quiet>>

\* The run of a key in its workflow, if there is one; its position is its ID.
RunOf(k) ==
    LET f == FileOf[k]
        own == {i \in DOMAIN runs[f] : runs[f][i].title = k}
    IN IF own = {} THEN NoRun ELSE CHOOSE i \in own : TRUE

Confirmed(k, run, via) ==
    [status |-> "SUCCEEDED", since |-> record[k].since, run |-> run, via |-> via]

\* Execute records what the adapter returned, unless Reconcile was faster.
CompleteExecute(k) ==
    /\ at[k] = "returned"
    /\ record[k].status = "RESERVED"
    /\ record' = [record EXCEPT ![k] = IF outcome[k] = "ID" THEN Confirmed(k, RunOf(k), "execute")
                                       ELSE [@ EXCEPT !.status = "UNKNOWN"]]
    /\ at' = [at EXCEPT ![k] = "done"]
    /\ UNCHANGED <<clock, runs, request, outcome, scan, quiet>>

\* The runner dies, or its journal refuses the completion.
Interrupted(k) ==
    /\ at[k] \in {"ready", "waiting", "returned"}
    /\ at' = [at EXCEPT ![k] = "done"]
    /\ UNCHANGED <<clock, runs, request, outcome, record, scan, quiet>>

-----------------------------------------------------------------------------
(* GitHub *)

NewRun(title) == [title |-> title, created |-> clock - Skew, state |-> "queued"]

Arrives(k) ==
    /\ request[k] = "flying"
    /\ request' = [request EXCEPT ![k] = "created"]
    /\ runs' = [runs EXCEPT ![FileOf[k]] = Append(@, NewRun(k))]
    /\ UNCHANGED <<clock, at, outcome, record, scan, quiet>>

NotAccepted(k) ==
    /\ request[k] = "flying"
    /\ request' = [request EXCEPT ![k] = "refused"]
    /\ UNCHANGED <<clock, runs, at, outcome, record, scan, quiet>>

OthersDispatch(f) ==
    /\ Cardinality({i \in DOMAIN runs[f] : runs[f][i].title = "other"}) < MaxOthers
    /\ runs' = [runs EXCEPT ![f] = Append(@, NewRun("other"))]
    /\ UNCHANGED <<clock, execute, record, scan, quiet>>

\* The workflow run of a key ends.
RunEnds(k) ==
    /\ RunOf(k) # NoRun
    /\ runs[FileOf[k]][RunOf(k)].state = "queued"
    /\ \E c \in Conclusions : runs' = [runs EXCEPT ![FileOf[k]][RunOf(k)].state = c]
    /\ UNCHANGED <<clock, execute, record, scan, quiet>>

MinutePasses ==
    /\ clock < Skew + MaxMinutes
    /\ clock' = clock + 1
    /\ UNCHANGED <<runs, execute, record, scan, quiet>>

-----------------------------------------------------------------------------
(* Reconcile *)

ScanEnds(k) == scan' = [scan EXCEPT ![k] = [next |-> 0, read |-> "NONE"]]

\* Reconcile is called and reaches the record; DispatchedAt is its CreatedAt.
ReconcileBegins(k) ==
    /\ scan[k].next = 0
    /\ record[k].status \in Unresolved
    /\ scan' = [scan EXCEPT ![k] = [next |-> 1, read |-> record[k].status]]
    /\ UNCHANGED <<clock, runs, execute, record, quiet>>

\* Mutation: runs are searched from the dispatch on, with no minute to spare.
PageExact(f, since) ==
    LET listed == {i \in DOMAIN runs[f] : runs[f][i].created >= since}
    IN {i \in listed : Cardinality({j \in listed : j > i}) < PageSize}

\* The IDs GitHub lists: created since a minute before the given time, the newest
\* ones, one page.
Page(f, since) ==
    LET listed == {i \in DOMAIN runs[f] : runs[f][i].created + 1 >= since}
    IN {i \in listed : Cardinality({j \in listed : j > i}) < PageSize}

\* The listed runs whose title is the key's.
Matches(k) ==
    LET f == Files[scan[k].next]
    IN {i \in Page(f, record[k].since) : runs[f][i].title = k}

\* The page is read from the newest run on, up to the first match.
FirstMatch(k) == {i \in Matches(k) : \A j \in Matches(k) : j <= i}

\* Mutation: every completed run counts as a success.
CompletedIsSucceeded(state) == IF state = "queued" THEN "PENDING" ELSE "SUCCEEDED"

mapRunStatus(state) ==
    IF state = "queued" THEN "PENDING"
    ELSE IF state = "success" THEN "SUCCEEDED" ELSE "FAILED"

\* There is no credential, GitHub cannot be asked, the completion fails or the
\* runner dies: the record stays as it is.
ListFails(k) ==
    /\ scan[k].next # 0
    /\ ~quiet
    /\ ScanEnds(k)
    /\ UNCHANGED <<clock, runs, execute, record, quiet>>

\* No run of this file carries the title: the next file, or NOT_FOUND.
FindsNothing(k) ==
    /\ scan[k].next # 0
    /\ Matches(k) = {}
    /\ IF scan[k].next < Len(Files) THEN scan' = [scan EXCEPT ![k].next = @ + 1]
       ELSE ScanEnds(k)
    /\ UNCHANGED <<clock, runs, execute, record, quiet>>

\* The run is found but has not succeeded: not found (pending) or an error
\* (failed) to the runner, which skips the record either way.
FindsUnfinished(k) ==
    /\ scan[k].next # 0
    /\ \E i \in FirstMatch(k) :
         mapRunStatus(runs[Files[scan[k].next]][i].state) # "SUCCEEDED"
    /\ ScanEnds(k)
    /\ UNCHANGED <<clock, runs, execute, record, quiet>>

\* The run has succeeded: the record is completed if nobody has changed it.
FindsRun(k) ==
    /\ scan[k].next # 0
    /\ \E i \in FirstMatch(k) :
         /\ mapRunStatus(runs[Files[scan[k].next]][i].state) = "SUCCEEDED"
         /\ record' = IF record[k].status # scan[k].read THEN record
                      ELSE [record EXCEPT ![k] = Confirmed(k, i, "reconcile")]
    /\ ScanEnds(k)
    /\ UNCHANGED <<clock, runs, execute, quiet>>

OutagesEnd ==
    /\ ~quiet
    /\ quiet' = TRUE
    /\ UNCHANGED <<clock, runs, execute, record, scan>>

DispatchNext ==
    \/ \E k \in Keys :
         \/ Reserve(k) \/ Decline(k) \/ Post(k) \/ Answered(k)
         \/ CompleteExecute(k) \/ Interrupted(k)
         \/ Arrives(k) \/ NotAccepted(k) \/ RunEnds(k)
         \/ ReconcileBegins(k) \/ ListFails(k) \/ FindsNothing(k)
         \/ FindsUnfinished(k) \/ FindsRun(k)
    \/ \E f \in Workflows : OthersDispatch(f)
    \/ MinutePasses \/ OutagesEnd

DispatchSpec == DispatchInit /\ [][DispatchNext]_dispatchVars

\* A search, once begun, goes on.  Nothing is assumed of who calls Reconcile, of
\* Execute or of GitHub's runs.
FairDispatchSpec ==
    /\ DispatchSpec
    /\ \A k \in Keys : WF_dispatchVars(FindsNothing(k) \/ FindsUnfinished(k) \/ FindsRun(k))

-----------------------------------------------------------------------------
(* Properties *)

\* An error classified TERMINAL means that GitHub has made no run for the key
\* and will make none: every ambiguous answer of dispatch is
\* UNKNOWN_EXTERNAL_STATE.
TerminalIsHarmless ==
    \A k \in Keys : outcome[k] = "TERMINAL" => RunOf(k) = NoRun /\ request[k] # "flying"

\* A confirmed record names a run of its own key in its own workflow, and a
\* record that Reconcile confirmed names one that succeeded.
ConfirmedIsOwn ==
    \A k \in Keys : record[k].status = "SUCCEEDED" =>
        /\ record[k].run \in DOMAIN runs[FileOf[k]]
        /\ LET r == runs[FileOf[k]][record[k].run]
           IN r.title = k /\ (record[k].via = "reconcile" => r.state = "success")

RunIn(k, states) == RunOf(k) # NoRun /\ runs[FileOf[k]][RunOf(k)].state \in states

\* A page full of newer runs hides the key's run.
Crowded(k) ==
    RunOf(k) # NoRun /\ Cardinality({j \in DOMAIN runs[FileOf[k]] : j > RunOf(k)}) >= PageSize

\* A search that begins when Execute is over and nothing goes wrong any more.
CleanSearch(k) ==
    at[k] = "done" /\ scan[k].next = 1 /\ scan[k].read = record[k].status /\ quiet

\* One such search confirms a run that succeeded, though the answer to its dispatch
\* was lost, the runner died or GitHub's clock lags ("A dispatch timeout is
\* reconciled by that title"), unless a page of newer runs hides it.
SuccessIsResolved ==
    \A k \in Keys :
        CleanSearch(k) /\ RunIn(k, {"success"}) ~> record[k].status = "SUCCEEDED" \/ Crowded(k)

\* The same without the exception.  The code does not guarantee it: findRun asks
\* for one page.
SuccessIsFound ==
    \A k \in Keys :
        CleanSearch(k) /\ RunIn(k, {"success"}) ~> record[k].status = "SUCCEEDED"

\* One such search resolves a run that ended, whatever its end ("the Runner journal
\* prevents another write until reconciliation resolves it").  The code does not
\* guarantee it: a failed run is an error, and is skipped.
EndedIsResolved ==
    \A k \in Keys :
        CleanSearch(k) /\ RunIn(k, {"success", "failure"}) ~>
            record[k].status \notin Unresolved \/ Crowded(k)
=============================================================================
