---------------------------- MODULE RunnerJournal ----------------------------
(***************************************************************************)
(* The customer-side runner: Execute and Reconcile (internal/runner) over  *)
(* the journal of ReserveRunnerAction and CompleteRunnerAction             *)
(* (internal/store).                                                       *)
(*                                                                         *)
(* A delivery is one call of Execute with some grant.  A grant may be      *)
(* delivered several times, concurrently too, and two grants may carry the *)
(* same nonce or the same idempotency key.  The runner may crash at any    *)
(* point, the store may fail or lose the answer to a commit, and the       *)
(* adapter may fail without telling whether it wrote.                      *)
(***************************************************************************)
EXTENDS Naturals, Sequences

CONSTANTS
    Grants,
    NonceOf,      \* the nonce of each grant
    KeyOf,        \* the idempotency key of each grant
    Deliveries,
    Limit         \* how many pending records Reconcile reads at a time

ASSUME RunnerAssumption == Limit \in Nat \ {0}

VARIABLES
    row,       \* the journal: the record each grant reserved, if it did
    order,     \* the grants with a row by updated_at, oldest first
    pc,        \* where each delivery is
    grant,     \* the grant of each delivery
    result,    \* what Execute returned
    writes,    \* adapter writes made under each idempotency key
    expired,   \* grants whose ExpiresAt has passed
    connected, \* Connectivity.Connected
    barred,    \* deliveries whose check is still to come in this disconnection
    batch,     \* records Reconcile has still to visit, with the version it read
    ended,     \* what the external system made of the write under each key
    calm       \* from now on the runner does not crash and Reconcile's calls succeed

deliveries == <<pc, grant, result>>
link == <<connected, barred>>
outside == <<ended, calm>>
vars == <<row, order, deliveries, writes, expired, link, batch, outside>>

Ops == {KeyOf[g] : g \in Grants}

Running == {"looking", "connecting", "authorising", "reserving", "acquiring",
            "calling", "called", "refused"}

TypeOK ==
    /\ row \in [Grants -> [status : {"NONE", "RESERVED", "SUCCEEDED", "UNKNOWN"},
                           version : 0 .. 3]]
    /\ order \in Seq(Grants)
    /\ pc \in [Deliveries -> Running \cup {"idle", "done"}]
    /\ grant \in [Deliveries -> Grants]
    /\ result \in [Deliveries ->
                     {"none", "succeeded", "reconciliation", "unknown", "rejected"}]
    /\ writes \in [Ops -> Nat]
    /\ expired \subseteq Grants
    /\ connected \in BOOLEAN
    /\ barred \subseteq Deliveries
    /\ batch \in Seq([grant : Grants, version : 1 .. 3])
    /\ ended \in [Ops -> {"no", "succeeded", "failed"}]
    /\ calm \in BOOLEAN

Init ==
    /\ row = [g \in Grants |-> [status |-> "NONE", version |-> 0]]
    /\ order = <<>>
    /\ pc = [d \in Deliveries |-> "idle"]
    /\ grant \in [Deliveries -> Grants]
    /\ result = [d \in Deliveries |-> "none"]
    /\ writes = [o \in Ops |-> 0]
    /\ expired = {}
    /\ connected = TRUE
    /\ barred = {}
    /\ batch = <<>>
    /\ ended = [o \in Ops |-> "no"]
    /\ calm = FALSE

-----------------------------------------------------------------------------
(* The journal *)

\* Mutation: only the nonce is unique.
HoldersByNonce(g) ==
    {h \in Grants : row[h].status # "NONE" /\ NonceOf[h] = NonceOf[g]}

\* The record ReserveRunnerAction finds for a grant: by nonce, else by key.
Holders(g) ==
    LET byNonce == {h \in Grants : row[h].status # "NONE" /\ NonceOf[h] = NonceOf[g]}
        byKey == {h \in Grants : row[h].status # "NONE" /\ KeyOf[h] = KeyOf[g]}
    IN IF byNonce # {} THEN byNonce ELSE byKey

Update(g, status, version) ==
    /\ row' = [row EXCEPT ![g] = [status |-> status, version |-> version]]
    /\ order' = Append(SelectSeq(order, LAMBDA h : h # g), g)

\* Mutation: the update does not compare versions.
CompleteBlindly(g, status, expected) ==
    Update(g, status, IF row[g].version < 3 THEN row[g].version + 1 ELSE 3)

\* CompleteRunnerAction with the version that was read; the record must exist.
CompleteRunnerAction(g, status, expected) ==
    /\ row[g].status # "NONE" /\ row[g].version = expected
    /\ Update(g, status, expected + 1)

\* What Execute answers about an existing record (replayResult).
Replay(g, h) ==
    IF h # g THEN "rejected"
    ELSE IF row[h].status = "SUCCEEDED" THEN "succeeded" ELSE "reconciliation"

-----------------------------------------------------------------------------
(* Execute *)

Goto(d, next) ==
    /\ pc' = [pc EXCEPT ![d] = next]
    /\ UNCHANGED <<grant, result>>

Return(d, answer) ==
    /\ pc' = [pc EXCEPT ![d] = "done"]
    /\ result' = [result EXCEPT ![d] = answer]
    /\ UNCHANGED grant

\* Execute is called; the verifier refuses an expired grant.
Deliver(d) ==
    /\ pc[d] = "idle"
    /\ IF grant[d] \in expired THEN Return(d, "rejected") ELSE Goto(d, "looking")
    /\ barred' = IF connected THEN barred ELSE barred \cup {d}
    /\ UNCHANGED <<row, order, writes, expired, connected, batch, outside>>

\* GetRunnerAction by nonce.
LookUp(d) ==
    /\ pc[d] = "looking"
    /\ LET found == {h \in Grants : row[h].status # "NONE" /\ NonceOf[h] = NonceOf[grant[d]]}
       IN IF found = {} THEN Goto(d, "connecting")
          ELSE \E h \in found : Return(d, Replay(grant[d], h))
    /\ UNCHANGED <<row, order, writes, expired, link, batch, outside>>

\* Mutation: the connection is not looked at.
CheckNothing(d) ==
    /\ pc[d] = "connecting"
    /\ Goto(d, "authorising")
    /\ UNCHANGED <<row, order, writes, expired, link, batch, outside>>

CheckConnectivity(d) ==
    /\ pc[d] = "connecting"
    /\ IF connected THEN Goto(d, "authorising") ELSE Return(d, "rejected")
    /\ UNCHANGED <<row, order, writes, expired, link, batch, outside>>

\* Subject, delegation, pinned context, approvals, capability and local policy.
Authorise(d) ==
    /\ pc[d] = "authorising"
    /\ Goto(d, "reserving")
    /\ UNCHANGED <<row, order, writes, expired, link, batch, outside>>

\* One of those checks refuses, or the journal cannot be read or written.
Refuse(d) ==
    /\ pc[d] \in {"looking", "authorising", "reserving"}
    /\ Return(d, "rejected")
    /\ UNCHANGED <<row, order, writes, expired, link, batch, outside>>

\* The row is inserted; its answer may be lost, and Execute rejects.
ReserveCreates(d) ==
    /\ pc[d] = "reserving"
    /\ Holders(grant[d]) = {}
    /\ Update(grant[d], "RESERVED", 1)
    /\ Goto(d, "acquiring") \/ Return(d, "rejected")
    /\ UNCHANGED <<writes, expired, link, batch, outside>>

\* Mutation: whoever made the record, its result is returned.
ReserveFindsAny(d) ==
    /\ pc[d] = "reserving"
    /\ \E h \in Holders(grant[d]) : Return(d, Replay(h, h))
    /\ UNCHANGED <<row, order, writes, expired, link, batch, outside>>

ReserveFinds(d) ==
    /\ pc[d] = "reserving"
    /\ \E h \in Holders(grant[d]) : Return(d, Replay(grant[d], h))
    /\ UNCHANGED <<row, order, writes, expired, link, batch, outside>>

\* The credential broker answers, or fails and the record becomes UNKNOWN.
AcquireCredential(d) ==
    /\ pc[d] = "acquiring"
    /\ Goto(d, "calling") \/ Goto(d, "refused")
    /\ UNCHANGED <<row, order, writes, expired, link, batch, outside>>

\* Adapter.Execute.  An error leaves open whether the write took place.
CallAdapter(d) ==
    LET o == KeyOf[grant[d]] IN
    /\ pc[d] = "calling"
    /\ \/ writes' = [writes EXCEPT ![o] = @ + 1] /\ Goto(d, "called")
       \/ writes' = [writes EXCEPT ![o] = @ + 1] /\ Goto(d, "refused")
       \/ UNCHANGED writes /\ Goto(d, "refused")
    /\ UNCHANGED <<row, order, expired, link, batch, outside>>

\* Success is recorded; the answer may get lost.
CompleteSucceeded(d) ==
    /\ pc[d] = "called"
    /\ CompleteRunnerAction(grant[d], "SUCCEEDED", 1)
    /\ Return(d, "succeeded") \/ Return(d, "rejected")
    /\ UNCHANGED <<writes, expired, link, batch, outside>>

\* failReserved, or a store that refuses the completion.
CompleteUnknown(d) ==
    /\ pc[d] = "refused"
    /\ CompleteRunnerAction(grant[d], "UNKNOWN", 1)
    /\ Return(d, "unknown")
    /\ UNCHANGED <<writes, expired, link, batch, outside>>

CompleteFails(d) ==
    /\ pc[d] \in {"called", "refused"}
    /\ Return(d, IF pc[d] = "called" THEN "rejected" ELSE "unknown")
    /\ UNCHANGED <<row, order, writes, expired, link, batch, outside>>

-----------------------------------------------------------------------------
(* Reconcile *)

\* PendingRunnerActions, oldest update first.
Pending == SelectSeq(order, LAMBDA g : row[g].status \in {"RESERVED", "UNKNOWN"})

ReconcileReads ==
    /\ batch = <<>>
    /\ Pending # <<>>
    /\ batch' = [n \in 1 .. (IF Len(Pending) < Limit THEN Len(Pending) ELSE Limit) |->
                   [grant |-> Pending[n], version |-> row[Pending[n]].version]]
    /\ UNCHANGED <<row, order, deliveries, writes, expired, link, outside>>

\* Mutation: a record that cannot be resolved ends the whole call.
ReconcileGivesUp ==
    /\ batch # <<>>
    /\ ended[KeyOf[Head(batch).grant]] # "succeeded" \/ ~calm
    /\ batch' = <<>>
    /\ UNCHANGED <<row, order, deliveries, writes, expired, link, outside>>

\* The write is not there, not finished or failed; or there is no credential, or
\* the search fails or misses it.
ReconcileSkips ==
    /\ batch # <<>>
    /\ ended[KeyOf[Head(batch).grant]] # "succeeded" \/ ~calm
    /\ batch' = Tail(batch)
    /\ UNCHANGED <<row, order, deliveries, writes, expired, link, outside>>

\* The write is found to have succeeded and the record is confirmed; when the
\* answer to that gets lost, Reconcile returns.
ReconcileConfirms ==
    LET item == Head(batch) IN
    /\ batch # <<>>
    /\ ended[KeyOf[item.grant]] = "succeeded"
    /\ CompleteRunnerAction(item.grant, "SUCCEEDED", item.version)
    /\ batch' = Tail(batch) \/ (~calm /\ batch' = <<>>)
    /\ UNCHANGED <<deliveries, writes, expired, link, outside>>

\* The completion meets a newer version or a failing store: Reconcile returns.
ReconcileStops ==
    LET item == Head(batch) IN
    /\ batch # <<>>
    /\ ended[KeyOf[item.grant]] = "succeeded"
    /\ row[item.grant].version # item.version \/ ~calm
    /\ batch' = <<>>
    /\ UNCHANGED <<row, order, deliveries, writes, expired, link, outside>>

-----------------------------------------------------------------------------
(* Surroundings *)

\* The external system finishes what was written.
WriteEnds(o) ==
    /\ writes[o] > 0 /\ ended[o] = "no"
    /\ \E e \in {"succeeded", "failed"} : ended' = [ended EXCEPT ![o] = e]
    /\ UNCHANGED <<row, order, deliveries, writes, expired, link, batch, calm>>

FaultsEnd ==
    /\ ~calm
    /\ calm' = TRUE
    /\ UNCHANGED <<row, order, deliveries, writes, expired, link, batch, ended>>

\* Only the verifier, when a delivery begins, looks at the expiry.
GrantExpires(g) ==
    /\ g \notin expired /\ \E d \in Deliveries : grant[d] = g /\ pc[d] = "idle"
    /\ expired' = expired \cup {g}
    /\ UNCHANGED <<row, order, deliveries, writes, link, batch, outside>>

Disconnect ==
    /\ connected
    /\ connected' = FALSE
    /\ barred' = {d \in Deliveries : pc[d] \in {"looking", "connecting"}}
    /\ UNCHANGED <<row, order, deliveries, writes, expired, batch, outside>>

Reconnect ==
    /\ ~connected
    /\ connected' = TRUE
    /\ barred' = {}
    /\ UNCHANGED <<row, order, deliveries, writes, expired, batch, outside>>

\* The process dies: every delivery in progress, and Reconcile, end unanswered.
Crash ==
    /\ ~calm
    /\ pc' = [d \in Deliveries |-> IF pc[d] \in Running THEN "done" ELSE pc[d]]
    /\ batch' = <<>>
    /\ UNCHANGED <<row, order, grant, result, writes, expired, link, outside>>

DeliveryStep(d) ==
    \/ Deliver(d) \/ LookUp(d) \/ CheckConnectivity(d) \/ Authorise(d) \/ Refuse(d)
    \/ ReserveCreates(d) \/ ReserveFinds(d) \/ AcquireCredential(d) \/ CallAdapter(d)
    \/ CompleteSucceeded(d) \/ CompleteUnknown(d) \/ CompleteFails(d)

Next ==
    \/ \E d \in Deliveries : DeliveryStep(d)
    \/ ReconcileReads \/ ReconcileSkips \/ ReconcileConfirms \/ ReconcileStops
    \/ \E g \in Grants : GrantExpires(g)
    \/ \E o \in Ops : WriteEnds(o)
    \/ Disconnect \/ Reconnect \/ Crash \/ FaultsEnd

Spec == Init /\ [][Next]_vars

\* A call of Reconcile, once made, goes through its loop.  Nothing is assumed of
\* who calls it, of the deliveries or of the external system.
FairSpec == Spec /\ WF_vars(ReconcileSkips \/ ReconcileConfirms \/ ReconcileStops)

-----------------------------------------------------------------------------
(* Properties *)

\* However grants are repeated, reissued with another nonce, retried after a
\* crash or raced by Reconcile, the adapter writes at most once per key.
AtMostOneWrite == \A o \in Ops : writes[o] <= 1

\* Execute answers success only for a grant whose own record is confirmed and
\* whose write took place, never with the result of another grant.
SuccessIsOwn ==
    \A d \in Deliveries : result[d] = "succeeded" =>
        row[grant[d]].status = "SUCCEEDED" /\ writes[KeyOf[grant[d]]] = 1

\* A delivery that the loss of the control plane finds before its check, or that
\* comes after it, reserves and writes nothing as long as the loss lasts.
CutDeliveriesStop ==
    \A d \in barred : pc[d] \notin {"acquiring", "calling", "called", "refused"}

\* Nothing is written while the control plane is disconnected ("On Control Plane
\* disconnection, the Runner starts no new production write").  The code does not
\* guarantee it: the connection is looked at before the authorisation, and not
\* again before the adapter is called.
NoWriteWhileCut ==
    [][\A o \in Ops : writes'[o] > writes[o] => connected]_vars

\* A delivery that has reserved its grant and may still complete the record.
Holding(g) ==
    \E d \in Deliveries :
        grant[d] = g /\ pc[d] \in {"acquiring", "calling", "called", "refused"}

\* A call of Reconcile that no fault and no delivery interferes with any more.
Undisturbed ==
    /\ calm
    /\ \A i \in DOMAIN batch :
         batch[i].version = row[batch[i].grant].version /\ ~Holding(batch[i].grant)

\* One undisturbed call confirms every write on its list that has succeeded, also
\* behind one that failed, did not finish or never took place, and whether its
\* delivery died before or after it had recorded its doubt.
OneCallConfirms ==
    \A g \in Grants :
        /\ Undisturbed
        /\ ended[KeyOf[g]] = "succeeded"
        /\ \E i \in DOMAIN batch : batch[i].grant = g
        ~> row[g].status = "SUCCEEDED"

\* Where Reconcile is called for ever, every write that succeeded is confirmed.
\* The code does not guarantee it beyond Limit pending records: the records it
\* skips keep their updated_at, and are the first ones of every later list.
NoRecordStarves ==
    <>[]calm /\ []<>(batch # <<>>) =>
        \A g \in Grants :
            row[g].status \in {"RESERVED", "UNKNOWN"} /\ ended[KeyOf[g]] = "succeeded"
            ~> row[g].status = "SUCCEEDED"

-----------------------------------------------------------------------------
(* The journal promise this implements. *)

StatusOf(o, statuses) == \E g \in Grants : KeyOf[g] = o /\ row[g].status \in statuses

stageOf ==
    [o \in Ops |-> IF ~StatusOf(o, {"RESERVED", "SUCCEEDED", "UNKNOWN"}) THEN "free"
                   ELSE IF writes[o] = 0 THEN "claimed" ELSE "written"]

journalOf ==
    [o \in Ops |-> IF StatusOf(o, {"SUCCEEDED"}) THEN "confirmed"
                   ELSE IF StatusOf(o, {"UNKNOWN"}) THEN "doubtful" ELSE "open"]

Journal == INSTANCE AtMostOnceWrite WITH stage <- stageOf, journal <- journalOf

\* The runner implements the at-most-once journal, one operation per key.
ImplementsJournal == Journal!Spec
=============================================================================
