--------------------------- MODULE WorkflowOutbox ---------------------------
(***************************************************************************)
(* How a release request becomes a workflow: start of                      *)
(* internal/application/releases.go, the outbox row written with the run   *)
(* (CreateRunAtomic), and RecoverPendingWorkflows, which every control     *)
(* plane process repeats every few seconds.                                *)
(*                                                                         *)
(* A run is identified by its request ID.  Temporal accepts a workflow ID  *)
(* once and answers a repeated start as if it had started it.  The store   *)
(* and Temporal may fail, or act and lose the answer; a process may die at *)
(* any point.                                                              *)
(***************************************************************************)
EXTENDS Naturals, Sequences, FiniteSets

CONSTANTS
    Calls,       \* calls of start by clients
    RequestID,   \* the request ID of each call
    Processes,   \* control plane processes
    Home,        \* the process that serves each call
    Limit,       \* rows RecoverPendingWorkflows reads at a time
    MaxCrashes   \* process deaths considered

ASSUME OutboxAssumption == Limit \in Nat \ {0} /\ MaxCrashes \in Nat

VARIABLES
    outbox,     \* request IDs of the runs created, in order
    published,  \* those whose outbox row is marked
    workflows,  \* workflow executions Temporal started, per request ID
    pc,         \* where each call of start is
    told,     \* what its client was told
    batch,      \* the outbox rows each process's recovery has still to publish
    rpc,        \* where each process's recovery is
    crashes

calls == <<pc, told>>
recovery == <<batch, rpc>>
outboxVars == <<outbox, published, workflows, calls, recovery, crashes>>

IDs == {RequestID[c] : c \in Calls}
Created == {outbox[i] : i \in DOMAIN outbox}

OutboxTypeOK ==
    /\ outbox \in Seq(IDs)
    /\ \A i, j \in DOMAIN outbox : outbox[i] = outbox[j] => i = j
    /\ published \subseteq IDs
    /\ workflows \in [IDs -> Nat]
    /\ pc \in [Calls -> {"idle", "creating", "starting", "marking", "done"}]
    /\ told \in [Calls -> {"none", "created", "existing", "error"}]
    /\ batch \in [Processes -> SUBSET DOMAIN outbox]
    /\ rpc \in [Processes -> {"reading", "starting", "marking"}]
    /\ crashes \in 0 .. MaxCrashes

OutboxInit ==
    /\ outbox = <<>>
    /\ published = {}
    /\ workflows = [id \in IDs |-> 0]
    /\ pc = [c \in Calls |-> "idle"]
    /\ told = [c \in Calls |-> "none"]
    /\ batch = [p \in Processes |-> {}]
    /\ rpc = [p \in Processes |-> "reading"]
    /\ crashes = 0

-----------------------------------------------------------------------------
(* Temporal and the outbox row *)

\* Mutation: a workflow ID may be used again.
StartReleaseAgain(id) == workflows' = [workflows EXCEPT ![id] = @ + 1]

\* ExecuteWorkflow with REJECT_DUPLICATE: a second start changes nothing.
StartRelease(id) ==
    workflows' = [workflows EXCEPT ![id] = IF @ = 0 THEN 1 ELSE @]

MarkOutboxPublished(id) ==
    /\ id \notin published
    /\ published' = published \cup {id}

-----------------------------------------------------------------------------
(* start *)

Continue(c, next) ==
    /\ pc' = [pc EXCEPT ![c] = next]
    /\ UNCHANGED told

Answer(c, what) ==
    /\ pc' = [pc EXCEPT ![c] = "done"]
    /\ told' = [told EXCEPT ![c] = what]

Request(c) ==
    /\ pc[c] = "idle"
    /\ Continue(c, "creating")
    /\ UNCHANGED <<outbox, published, workflows, recovery, crashes>>

\* CreateRunAtomic: run, audit event and outbox row in one commit.
Creates(c) ==
    /\ pc[c] = "creating"
    /\ RequestID[c] \notin Created
    /\ outbox' = Append(outbox, RequestID[c])
    /\ Continue(c, "starting") \/ Answer(c, "error")
    /\ UNCHANGED <<published, workflows, recovery, crashes>>

\* Another call with this request ID came first: its run is returned.
FindsExisting(c) ==
    /\ pc[c] = "creating"
    /\ RequestID[c] \in Created
    /\ Answer(c, "existing")
    /\ UNCHANGED <<outbox, published, workflows, recovery, crashes>>

Starts(c) ==
    /\ pc[c] = "starting"
    /\ StartRelease(RequestID[c])
    /\ Continue(c, "marking") \/ Answer(c, "error")
    /\ UNCHANGED <<outbox, published, recovery, crashes>>

Marks(c) ==
    /\ pc[c] = "marking"
    /\ MarkOutboxPublished(RequestID[c])
    /\ Answer(c, "created") \/ Answer(c, "error")
    /\ UNCHANGED <<outbox, workflows, recovery, crashes>>

\* The store or Temporal fails, or recovery has marked the row already.
Fails(c) ==
    /\ pc[c] \in {"creating", "starting", "marking"}
    /\ Answer(c, "error")
    /\ UNCHANGED <<outbox, published, workflows, recovery, crashes>>

-----------------------------------------------------------------------------
(* RecoverPendingWorkflows *)

Pending == {i \in DOMAIN outbox : outbox[i] \notin published}

\* The oldest pending rows, up to the limit.
Oldest == {i \in Pending : Cardinality({j \in Pending : j < i}) < Limit}

Reads(p) ==
    /\ rpc[p] = "reading"
    /\ Pending # {}
    /\ batch' = [batch EXCEPT ![p] = Oldest]
    /\ rpc' = [rpc EXCEPT ![p] = "starting"]
    /\ UNCHANGED <<outbox, published, workflows, calls, crashes>>

\* The row whose turn it is, the oldest of those read.
Current(p) == {i \in batch[p] : \A j \in batch[p] : i <= j}

\* Mutation: rows are marked before the workflow is started.
PublishesMarked(p) ==
    /\ rpc[p] = "starting"
    /\ \E i \in Current(p) : MarkOutboxPublished(outbox[i])
    /\ rpc' = [rpc EXCEPT ![p] = "marking"]
    /\ UNCHANGED <<outbox, workflows, calls, batch, crashes>>

Publishes(p) ==
    /\ rpc[p] = "starting"
    /\ \E i \in Current(p) : StartRelease(outbox[i])
    /\ rpc' = [rpc EXCEPT ![p] = "marking"]
    /\ UNCHANGED <<outbox, published, calls, batch, crashes>>

Finishes(p) ==
    /\ rpc[p] = "marking"
    /\ \E i \in Current(p) :
         /\ MarkOutboxPublished(outbox[i])
         /\ batch' = [batch EXCEPT ![p] = @ \ {i}]
         /\ rpc' = [rpc EXCEPT ![p] = IF batch[p] = {i} THEN "reading" ELSE "starting"]
    /\ UNCHANGED <<outbox, workflows, calls, crashes>>

\* Temporal or the store fails, or the row is marked already: the rest waits.
GivesUp(p) ==
    /\ rpc[p] \in {"starting", "marking"}
    /\ batch' = [batch EXCEPT ![p] = {}]
    /\ rpc' = [rpc EXCEPT ![p] = "reading"]
    /\ UNCHANGED <<outbox, published, workflows, calls, crashes>>

-----------------------------------------------------------------------------
\* A process dies and is started again; its clients get no answer.
Crash(p) ==
    /\ crashes < MaxCrashes
    /\ crashes' = crashes + 1
    /\ pc' = [c \in Calls |-> IF Home[c] = p /\ pc[c] # "idle" THEN "done" ELSE pc[c]]
    /\ batch' = [batch EXCEPT ![p] = {}]
    /\ rpc' = [rpc EXCEPT ![p] = "reading"]
    /\ UNCHANGED <<outbox, published, workflows, told>>

OutboxNext ==
    \/ \E c \in Calls : Request(c) \/ Creates(c) \/ FindsExisting(c) \/ Starts(c)
                          \/ Marks(c) \/ Fails(c)
    \/ \E p \in Processes : Reads(p) \/ Publishes(p) \/ Finishes(p) \/ GivesUp(p) \/ Crash(p)

OutboxSpec == OutboxInit /\ [][OutboxNext]_outboxVars

\* Every process keeps calling RecoverPendingWorkflows; Temporal and the store
\* answer when they are asked often enough.  Nothing is assumed of the clients.
FairSpec ==
    /\ OutboxSpec
    /\ \A p \in Processes :
          /\ WF_outboxVars(Reads(p))
          /\ WF_outboxVars(Publishes(p) \/ Finishes(p) \/ GivesUp(p))
          /\ SF_outboxVars(Publishes(p)) /\ SF_outboxVars(Finishes(p))

-----------------------------------------------------------------------------
(* Properties *)

\* However start and the recovery of several processes interleave and crash, a
\* run gets at most one workflow and only if the store has it, a marked row
\* belongs to a workflow that was started, and at most one client is told that it
\* created the run.
OneOfEach ==
    /\ \A id \in published : workflows[id] = 1
    /\ \A id \in IDs : workflows[id] <= 1 /\ (workflows[id] > 0 => id \in Created)
    /\ \A c, e \in Calls :
          told[c] = "created" /\ told[e] = "created" /\ RequestID[c] = RequestID[e]
             => c = e

\* A run that was created gets its workflow and its mark, even when the process
\* that created it died or its client was told of an error.
EveryRunStarts == \A id \in IDs : id \in Created ~> id \in published /\ workflows[id] = 1
=============================================================================
