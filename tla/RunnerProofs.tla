---------------------------- MODULE RunnerProofs ----------------------------
(***************************************************************************)
(* Proofs about the runner and the adapter it calls. RunnerJournal has its *)
(* safety properties and implements AtMostOnceWrite, for any grants,       *)
(* deliveries, batches and crashes; GitHubDispatch has its own for any     *)
(* keys, workflows, pages and clocks.                                      *)
(***************************************************************************)
EXTENDS RunnerJournal, GitHubDispatch, FiniteSets, TLAPS

Statuses == {"NONE", "RESERVED", "SUCCEEDED", "UNKNOWN"}

\* A delivery that holds the reservation it made.
Owning == {"acquiring", "calling", "called", "refused"}

\* The types the argument needs; the batch and the order are not among them.
JournalTypes ==
    /\ row \in [Grants -> [status : Statuses, version : Nat]]
    /\ pc \in [Deliveries -> Running \cup {"idle", "done"}]
    /\ grant \in [Deliveries -> Grants]
    /\ result \in [Deliveries -> {"none", "succeeded", "reconciliation", "unknown", "rejected"}]
    /\ writes \in [Ops -> Nat]

\* Of the grants with one key at most one has a record, and its version tells
\* whether anybody has completed it.
OneRecord ==
    /\ \A g, h \in Grants :
          row[g].status # "NONE" /\ row[h].status # "NONE" /\ KeyOf[g] = KeyOf[h] => g = h
    /\ \A g \in Grants :
          /\ row[g].status = "RESERVED" => row[g].version = 1
          /\ row[g].status \in {"SUCCEEDED", "UNKNOWN"} => row[g].version >= 2

\* At most one delivery holds the reservation of a key, and where it stands says
\* what the adapter has seen.
OneOwner ==
    \A d \in Deliveries : pc[d] \in Owning =>
        /\ row[grant[d]].status # "NONE"
        /\ \A e \in Deliveries :
              pc[e] \in Owning /\ KeyOf[grant[e]] = KeyOf[grant[d]] => e = d
        /\ pc[d] \in {"acquiring", "calling"} => writes[KeyOf[grant[d]]] = 0
        /\ pc[d] = "called" => writes[KeyOf[grant[d]]] = 1

\* Nothing is written without a record, nor recorded as written without a write.
RecordTellsWrites ==
    /\ \A o \in Ops :
          /\ writes[o] <= 1
          /\ writes[o] > 0 => \E g \in Grants : KeyOf[g] = o /\ row[g].status # "NONE"
    /\ \A g \in Grants : row[g].status = "SUCCEEDED" => writes[KeyOf[g]] = 1
    /\ \A d \in Deliveries : result[d] = "succeeded" => row[grant[d]].status = "SUCCEEDED"

IInv == JournalTypes /\ OneRecord /\ OneOwner /\ RecordTellsWrites

\* What has ended in the external system was written.
EndedAreWritten ==
    /\ ended \in [Ops -> {"no", "succeeded", "failed"}]
    /\ \A o \in Ops : ended[o] # "no" => writes[o] > 0

-----------------------------------------------------------------------------

\* Nothing is reserved or under way at the beginning.
LEMMA InitIInv == Init => IInv
<1> SUFFICES ASSUME Init PROVE IInv
  OBVIOUS
<1>1. JournalTypes
  BY Zenon DEF Init, JournalTypes, Statuses
<1>2. \A g \in Grants : row[g].status = "NONE"
  BY Zenon DEF Init
<1>3. \A d \in Deliveries : pc[d] = "idle" /\ result[d] = "none"
  BY Zenon DEF Init
<1>4. \A o \in Ops : writes[o] = 0
  BY Zenon DEF Init
<1>5. OneRecord
  BY <1>2, Zenon DEF OneRecord
<1>6. OneOwner
  BY <1>3, Zenon DEF OneOwner, Owning
<1>7. RecordTellsWrites
  BY <1>2, <1>3, <1>4 DEF RecordTellsWrites
<1>8. QED
  BY <1>1, <1>5, <1>6, <1>7, Zenon DEF IInv

\* A delivery that moves on without a reservation, or ends, changes neither the
\* journal nor what was written; it succeeds only with a record that says so.
LEMMA MoveKeepsIInv ==
  ASSUME IInv, NEW d \in Deliveries, UNCHANGED <<row, grant, writes>>,
         NEW next \in (Running \ Owning) \cup {"idle", "done"},
         pc' = [pc EXCEPT ![d] = next],
         \/ result' = result
         \/ \E answer \in {"succeeded", "reconciliation", "unknown", "rejected"} :
              /\ result' = [result EXCEPT ![d] = answer]
              /\ answer = "succeeded" => row[grant[d]].status = "SUCCEEDED"
  PROVE  IInv'
<1>1. JournalTypes'
  BY DEF IInv, JournalTypes, Running, Owning
<1>2. OneRecord'
  BY Zenon DEF IInv, OneRecord
<1>3. OneOwner'
  <2>1. \A e \in Deliveries : pc'[e] \in Owning => pc'[e] = pc[e]
    BY Zenon DEF IInv, JournalTypes, Owning
  <2>2. QED
    BY <2>1 DEF IInv, OneOwner
<1>4. RecordTellsWrites'
  <2>1. \A e \in Deliveries : result'[e] = "succeeded" => row[grant[e]].status = "SUCCEEDED"
    BY DEF IInv, JournalTypes, RecordTellsWrites
  <2>2. QED
    BY <2>1 DEF IInv, RecordTellsWrites
<1>5. QED
  BY <1>1, <1>2, <1>3, <1>4, Zenon DEF IInv

\* A record found for a grant is another grant's and rejected, or its own.
LEMMA ReplayIsOwn ==
  ASSUME NEW g, NEW h
  PROVE  /\ Replay(g, h) \in {"succeeded", "reconciliation", "rejected"}
         /\ Replay(g, h) = "succeeded" => row[g].status = "SUCCEEDED"
  BY Zenon DEF Replay

\* The insertion of a record for a key that has none.
LEMMA ReserveKeepsIInv ==
  ASSUME IInv, NEW d \in Deliveries, ReserveCreates(d)
  PROVE  IInv'
<1> DEFINE g == grant[d]
<1>1. /\ g \in Grants /\ KeyOf[g] \in Ops
      /\ \A h \in Grants : KeyOf[h] = KeyOf[g] => row[h].status = "NONE"
  <2>1. g \in Grants
    BY Zenon DEF IInv, JournalTypes
  <2>2. {h \in Grants : row[h].status # "NONE" /\ KeyOf[h] = KeyOf[g]} = {}
    BY Zenon DEF ReserveCreates, Holders
  <2>3. QED
    BY <2>1, <2>2, Zenon DEF Ops
<1>2. /\ row' = [row EXCEPT ![g] = [status |-> "RESERVED", version |-> 1]]
      /\ UNCHANGED <<writes, grant>>
      /\ \/ pc' = [pc EXCEPT ![d] = "acquiring"] /\ result' = result
         \/ pc' = [pc EXCEPT ![d] = "done"] /\ result' = [result EXCEPT ![d] = "rejected"]
  BY Zenon DEF ReserveCreates, Update, Goto, Return
<1>3. JournalTypes'
  BY <1>1, <1>2, Zenon DEF IInv, JournalTypes, Statuses, Running
<1>4. /\ \A h \in Grants : h # g => row'[h] = row[h]
      /\ row'[g] = [status |-> "RESERVED", version |-> 1]
      /\ writes[KeyOf[g]] = 0
  <2>1. ~ \E h \in Grants : KeyOf[h] = KeyOf[g] /\ row[h].status # "NONE"
    BY <1>1, Zenon
  <2>2. writes[KeyOf[g]] \in Nat
    BY <1>1, Zenon DEF IInv, JournalTypes
  <2>3. writes[KeyOf[g]] = 0
    BY <1>1, <2>1, <2>2 DEF IInv, RecordTellsWrites
  <2>4. QED
    BY <1>1, <1>2, <2>3, Zenon DEF IInv, JournalTypes
<1>5. OneRecord'
  BY <1>1, <1>4 DEF IInv, OneRecord
<1>6. OneOwner'
  <2>1. \A e \in Deliveries : pc[e] \in Owning => KeyOf[grant[e]] # KeyOf[g] /\ grant[e] # g
    BY <1>1 DEF IInv, OneOwner, JournalTypes
  <2>2. \A e \in Deliveries : e # d => pc'[e] = pc[e]
    BY <1>2, Zenon DEF IInv, JournalTypes
  <2>3. pc'[d] \in {"acquiring", "done"}
    BY <1>2, Zenon DEF IInv, JournalTypes
  <2>4. \A e \in Deliveries : grant[e] \in Grants
    BY Zenon DEF IInv, JournalTypes
  <2>5. ASSUME NEW e \in Deliveries, pc'[e] \in Owning, e # d
        PROVE  /\ pc[e] \in Owning /\ pc'[e] = pc[e] /\ row'[grant[e]] = row[grant[e]]
    BY <2>1, <2>2, <2>4, <2>5, <1>4, Zenon
  <2>6. QED
    BY <1>2, <1>4, <2>1, <2>3, <2>5 DEF IInv, OneOwner, Owning
<1>7. RecordTellsWrites'
  <2>1. \A e \in Deliveries : result'[e] = "succeeded" => row'[grant[e]].status = "SUCCEEDED"
    <3>1. \A e \in Deliveries : result'[e] = "succeeded" => result[e] = "succeeded"
      BY <1>2, Zenon DEF IInv, JournalTypes
    <3>2. \A e \in Deliveries : grant[e] \in Grants
      BY Zenon DEF IInv, JournalTypes
    <3>3. row[g].status = "NONE"
      BY <1>1, Zenon
    <3>4. QED
      BY <1>4, <3>1, <3>2, <3>3 DEF IInv, RecordTellsWrites
  <2>2. \A h \in Grants : row[h].status # "NONE" => row'[h].status # "NONE"
    BY <1>4
  <2>3. \A h \in Grants : row'[h].status = "SUCCEEDED" => row[h].status = "SUCCEEDED"
    BY <1>4
  <2>4. QED
    BY <1>2, <2>1, <2>2, <2>3 DEF IInv, RecordTellsWrites
<1>8. QED
  BY <1>3, <1>5, <1>6, <1>7, Zenon DEF IInv

\* The owner of a reservation calls the adapter, which writes or does not, or goes
\* on without a call.
LEMMA OwnerKeepsIInv ==
  ASSUME IInv, NEW d \in Deliveries, AcquireCredential(d) \/ CallAdapter(d)
  PROVE  IInv'
<1> DEFINE o == KeyOf[grant[d]]
<1>1. /\ pc[d] \in {"acquiring", "calling"} /\ grant[d] \in Grants /\ o \in Ops
      /\ row[grant[d]].status # "NONE" /\ writes[o] = 0
  <2>1. pc[d] \in {"acquiring", "calling"}
    BY Zenon DEF AcquireCredential, CallAdapter
  <2>2. grant[d] \in Grants
    BY Zenon DEF IInv, JournalTypes
  <2>3. QED
    BY <2>1, <2>2, Zenon DEF IInv, OneOwner, Owning, Ops
<1>2. \E next \in {"calling", "called", "refused"} :
         /\ pc' = [pc EXCEPT ![d] = next]
         /\ \/ writes' = [writes EXCEPT ![o] = 1] /\ next # "calling"
            \/ writes' = writes /\ next # "called"
  <2>1. CASE AcquireCredential(d)
    BY <2>1, Zenon DEF AcquireCredential, Goto
  <2>2. CASE CallAdapter(d)
    <3>1. writes[o] + 1 = 1
      BY <1>1
    <3>2. QED
      BY <2>2, <3>1, Zenon DEF CallAdapter, Goto
  <2>3. QED
    BY <2>1, <2>2, Zenon
<1>3. PICK next \in {"calling", "called", "refused"} :
         /\ pc' = [pc EXCEPT ![d] = next]
         /\ \/ writes' = [writes EXCEPT ![o] = 1] /\ next # "calling"
            \/ writes' = writes /\ next # "called"
  BY <1>2, Zenon
<1>4. UNCHANGED <<row, grant, result>>
  BY Zenon DEF AcquireCredential, CallAdapter, Goto
<1>5. JournalTypes'
  BY <1>1, <1>3, <1>4 DEF IInv, JournalTypes, Running
<1>6. OneRecord'
  BY <1>4, Zenon DEF IInv, OneRecord
<1>7. /\ \A e \in Deliveries : e # d => pc'[e] = pc[e]
      /\ pc'[d] = next
      /\ \A p \in Ops : p # o => writes'[p] = writes[p]
      /\ writes'[o] \in {0, 1}
      /\ next = "calling" => writes'[o] = 0
      /\ next = "called" => writes'[o] = 1
  BY <1>1, <1>3, Zenon DEF IInv, JournalTypes
<1>8. OneOwner'
  <2>1. \A e \in Deliveries : pc'[e] \in Owning /\ e # d =>
           pc[e] \in Owning /\ KeyOf[grant[e]] # o /\ KeyOf[grant[e]] \in Ops
    BY <1>1, <1>7 DEF IInv, OneOwner, JournalTypes, Ops, Owning
  <2>2. QED
    BY <1>1, <1>4, <1>7, <2>1, SMTT(30) DEF IInv, OneOwner, Owning
<1>9. RecordTellsWrites'
  <2>1. \A p \in Ops : writes'[p] <= 1
    BY <1>7 DEF IInv, RecordTellsWrites
  <2>2. \A p \in Ops : writes'[p] > 0 => \E g \in Grants : KeyOf[g] = p /\ row[g].status # "NONE"
    BY <1>1, <1>7, Zenon DEF IInv, RecordTellsWrites
  <2>3. \A g \in Grants : row[g].status = "SUCCEEDED" => writes'[KeyOf[g]] = 1
    <3>1. \A g \in Grants : row[g].status = "SUCCEEDED" => KeyOf[g] # o /\ KeyOf[g] \in Ops
      BY <1>1 DEF IInv, RecordTellsWrites, Ops
    <3>2. QED
      BY <1>7, <3>1 DEF IInv, RecordTellsWrites
  <2>4. QED
    BY <1>4, <2>1, <2>2, <2>3 DEF IInv, RecordTellsWrites
<1>10. QED
  BY <1>5, <1>6, <1>8, <1>9, Zenon DEF IInv

\* A record is completed: by its owner, who then returns, or by Reconcile, which
\* has seen the write.  A record that says SUCCEEDED keeps saying so.
LEMMA CompleteKeepsIInv ==
  ASSUME IInv, NEW g \in Grants, NEW expected, NEW status \in {"SUCCEEDED", "UNKNOWN"},
         CompleteRunnerAction(g, status, expected), UNCHANGED <<grant, writes>>,
         status = "SUCCEEDED" => writes[KeyOf[g]] = 1,
         status = "UNKNOWN" => expected = 1,
         \/ UNCHANGED <<pc, result>>
         \/ \E d \in Deliveries :
              \E answer \in {"succeeded", "reconciliation", "unknown", "rejected"} :
                /\ grant[d] = g
                /\ pc' = [pc EXCEPT ![d] = "done"]
                /\ result' = [result EXCEPT ![d] = answer]
                /\ answer = "succeeded" => status = "SUCCEEDED"
  PROVE  IInv'
<1>1. /\ row[g].status # "NONE" /\ row[g].version = expected
      /\ row' = [row EXCEPT ![g] = [status |-> status, version |-> expected + 1]]
  BY Zenon DEF CompleteRunnerAction, Update
<1>2. expected \in Nat /\ expected >= 1
  BY <1>1 DEF IInv, JournalTypes, OneRecord, Statuses
<1>3. /\ \A h \in Grants : h # g => row'[h] = row[h]
      /\ row'[g].status = status /\ row'[g].version = expected + 1
      /\ row[g].status = "SUCCEEDED" => status = "SUCCEEDED"
  <2>1. row[g].status = "SUCCEEDED" => status = "SUCCEEDED"
    BY <1>1 DEF IInv, OneRecord
  <2>2. QED
    BY <1>1, <2>1, Zenon DEF IInv, JournalTypes
<1>4. JournalTypes'
  BY <1>1, <1>2 DEF IInv, JournalTypes, Statuses, Running
<1>5. OneRecord'
  BY <1>1, <1>2, <1>3 DEF IInv, OneRecord
<1>6. OneOwner'
  <2>1. \A e \in Deliveries : pc'[e] \in Owning => pc'[e] = pc[e]
    BY Zenon DEF IInv, JournalTypes, Owning
  <2>2. \A e \in Deliveries : row[grant[e]].status # "NONE" => row'[grant[e]].status # "NONE"
    BY <1>3, Zenon DEF IInv, JournalTypes
  <2>3. QED
    BY <2>1, <2>2 DEF IInv, OneOwner
<1>7. RecordTellsWrites'
  <2>1. \A e \in Deliveries : result'[e] = "succeeded" => row'[grant[e]].status = "SUCCEEDED"
    <3>1. \A e \in Deliveries : result'[e] = "succeeded" =>
             result[e] = "succeeded" \/ (grant[e] = g /\ status = "SUCCEEDED")
      BY Zenon DEF IInv, JournalTypes
    <3>2. QED
      BY <1>3, <3>1 DEF IInv, JournalTypes, RecordTellsWrites
  <2>2. \A h \in Grants : row[h].status # "NONE" => row'[h].status # "NONE"
    BY <1>3, Zenon
  <2>3. \A h \in Grants : row'[h].status = "SUCCEEDED" => writes[KeyOf[h]] = 1
    BY <1>3, Zenon DEF IInv, RecordTellsWrites
  <2>4. QED
    BY <2>1, <2>2, <2>3 DEF IInv, RecordTellsWrites
<1>8. QED
  BY <1>4, <1>5, <1>6, <1>7, Zenon DEF IInv

\* Every step of every delivery, of Reconcile and of the surroundings preserves it.
LEMMA NextIInv == IInv /\ EndedAreWritten /\ [Next]_vars => IInv'
<1> SUFFICES ASSUME IInv, EndedAreWritten, [Next]_vars PROVE IInv'
  OBVIOUS
<1> DEFINE Free == (Running \ Owning) \cup {"idle", "done"}
<1>1. ASSUME NEW d \in Deliveries,
             \/ Deliver(d) \/ CheckConnectivity(d) \/ Authorise(d) \/ Refuse(d) \/ CompleteFails(d)
      PROVE  IInv'
  <2>1. UNCHANGED <<row, grant, writes>>
    BY <1>1, Zenon DEF Deliver, CheckConnectivity, Authorise, Refuse, CompleteFails,
       Goto, Return
  <2>2. \E next \in Free :
           /\ pc' = [pc EXCEPT ![d] = next]
           /\ \/ result' = result
              \/ \E answer \in {"unknown", "rejected"} : result' = [result EXCEPT ![d] = answer]
    BY <1>1, Zenon DEF Deliver, CheckConnectivity, Authorise, Refuse, CompleteFails,
       Goto, Return, Running, Owning
  <2>3. QED
    BY <2>1, <2>2, MoveKeepsIInv, Zenon
<1>2. ASSUME NEW d \in Deliveries, LookUp(d) \/ ReserveFinds(d) PROVE IInv'
  <2>1. UNCHANGED <<row, grant, writes>>
    BY <1>2, Zenon DEF LookUp, ReserveFinds, Goto, Return
  <2>2. CASE Goto(d, "connecting")
    BY <2>1, <2>2, MoveKeepsIInv, Zenon DEF Goto, Running, Owning
  <2>3. CASE \E h \in Grants : Return(d, Replay(grant[d], h))
    <3>1. PICK h \in Grants : Return(d, Replay(grant[d], h))
      BY <2>3, Zenon
    <3> DEFINE reply == Replay(grant[d], h)
    <3>2. /\ reply \in {"succeeded", "reconciliation", "rejected"}
          /\ reply = "succeeded" => row[grant[d]].status = "SUCCEEDED"
      BY ReplayIsOwn, Zenon
    <3>3. pc' = [pc EXCEPT ![d] = "done"] /\ result' = [result EXCEPT ![d] = reply]
      BY <3>1, Zenon DEF Return
    <3> HIDE DEF reply
    <3>4. QED
      BY <2>1, <3>2, <3>3, MoveKeepsIInv, Zenon
  <2>4. QED
    <3>1. Holders(grant[d]) \subseteq Grants
      BY Zenon DEF Holders
    <3>2. QED
      BY <1>2, <2>2, <2>3, <3>1, Zenon DEF LookUp, ReserveFinds
<1>3. ASSUME NEW d \in Deliveries, ReserveCreates(d) PROVE IInv'
  BY <1>3, ReserveKeepsIInv, Zenon
<1>4. ASSUME NEW d \in Deliveries, AcquireCredential(d) \/ CallAdapter(d) PROVE IInv'
  BY <1>4, OwnerKeepsIInv, Zenon
<1>5. ASSUME NEW d \in Deliveries, CompleteSucceeded(d) PROVE IInv'
  <2>1. grant[d] \in Grants /\ writes[KeyOf[grant[d]]] = 1
    BY <1>5, Zenon DEF CompleteSucceeded, IInv, JournalTypes, OneOwner, Owning
  <2>2. /\ CompleteRunnerAction(grant[d], "SUCCEEDED", 1) /\ UNCHANGED <<grant, writes>>
        /\ \E answer \in {"succeeded", "rejected"} :
              pc' = [pc EXCEPT ![d] = "done"] /\ result' = [result EXCEPT ![d] = answer]
    BY <1>5, Zenon DEF CompleteSucceeded, Return
  <2>3. QED
    BY <2>1, <2>2, CompleteKeepsIInv, Zenon
<1>6. ASSUME NEW d \in Deliveries, CompleteUnknown(d) PROVE IInv'
  <2>1. grant[d] \in Grants
    BY Zenon DEF IInv, JournalTypes
  <2>2. /\ CompleteRunnerAction(grant[d], "UNKNOWN", 1) /\ UNCHANGED <<grant, writes>>
        /\ pc' = [pc EXCEPT ![d] = "done"] /\ result' = [result EXCEPT ![d] = "unknown"]
    BY <1>6, Zenon DEF CompleteUnknown, Return
  <2>3. QED
    BY <2>1, <2>2, CompleteKeepsIInv, Zenon
<1>7. CASE ReconcileConfirms
  <2> DEFINE g == Head(batch).grant
             expected == Head(batch).version
  <2>1. /\ CompleteRunnerAction(g, "SUCCEEDED", expected)
        /\ ended[KeyOf[g]] = "succeeded" /\ UNCHANGED <<pc, grant, result, writes>>
    BY <1>7, Zenon DEF ReconcileConfirms, deliveries
  <2> HIDE DEF g, expected
  <2>2. CASE g \in Grants
    <3> DEFINE o == KeyOf[g]
    <3>0. o \in Ops
      BY <2>2, Zenon DEF Ops
    <3>1. writes[o] = 1
      <4> HIDE DEF o
      <4>1. writes[o] \in Nat /\ writes[o] <= 1
        BY <3>0, Zenon DEF IInv, JournalTypes, RecordTellsWrites
      <4>2. ended[o] = "succeeded"
        BY <2>1, Zenon DEF o
      <4>3. writes[o] > 0
        BY <3>0, <4>2, Zenon DEF EndedAreWritten
      <4>4. QED
        BY <4>1, <4>3
    <3>2. QED
      BY <2>1, <2>2, <3>1, CompleteKeepsIInv, Zenon
  <2>3. CASE g \notin Grants
    <3>1. row' = row
      BY <2>1, <2>3, Zenon DEF CompleteRunnerAction, Update, IInv, JournalTypes
    <3>2. QED
      BY <2>1, <3>1 DEF IInv, JournalTypes, OneRecord, OneOwner, RecordTellsWrites
  <2>4. QED
    BY <2>2, <2>3, Zenon
<1>8. CASE Crash
  <2>1. /\ \A d \in Deliveries : pc'[d] \in {pc[d], "done"}
        /\ pc' \in [Deliveries -> Running \cup {"idle", "done"}]
        /\ UNCHANGED <<row, grant, result, writes>>
    BY <1>8, Zenon DEF Crash, IInv, JournalTypes
  <2>2. \A d \in Deliveries : pc'[d] \in Owning => pc'[d] = pc[d]
    BY <2>1, Zenon DEF Owning
  <2>3. OneOwner'
    BY <2>1, <2>2 DEF IInv, OneOwner
  <2>4. QED
    BY <2>1, <2>3 DEF IInv, JournalTypes, OneRecord, RecordTellsWrites
<1>9. CASE \/ ReconcileReads \/ ReconcileSkips \/ ReconcileStops
           \/ \E g \in Grants : GrantExpires(g)
           \/ \E o \in Ops : WriteEnds(o)
           \/ Disconnect \/ Reconnect \/ FaultsEnd \/ UNCHANGED vars
  <2>1. UNCHANGED <<row, pc, grant, result, writes>>
    BY <1>9, Zenon DEF ReconcileReads, ReconcileSkips, ReconcileStops, GrantExpires,
       WriteEnds, Disconnect, Reconnect, FaultsEnd, vars, deliveries
  <2>2. QED
    BY <2>1 DEF IInv, JournalTypes, OneRecord, OneOwner, RecordTellsWrites
<1>10. QED
  BY <1>1, <1>2, <1>3, <1>4, <1>5, <1>6, <1>7, <1>8, <1>9, Zenon DEF Next,
     DeliveryStep

\* Nothing ends before it is written, and no write is taken back.
LEMMA NextEnded == IInv /\ EndedAreWritten /\ [Next]_vars => EndedAreWritten'
<1> SUFFICES ASSUME IInv, EndedAreWritten, [Next]_vars PROVE EndedAreWritten'
  OBVIOUS
<1>1. ASSUME NEW o \in Ops, WriteEnds(o) PROVE EndedAreWritten'
  <2>1. /\ writes[o] > 0 /\ writes' = writes
        /\ \E e \in {"succeeded", "failed"} : ended' = [ended EXCEPT ![o] = e]
    BY <1>1, Zenon DEF WriteEnds
  <2>2. QED
    BY <2>1, Zenon DEF EndedAreWritten
<1>2. ASSUME NEW d \in Deliveries, CallAdapter(d) PROVE EndedAreWritten'
  <2>1. /\ ended' = ended
        /\ \/ writes' = writes
           \/ writes' = [writes EXCEPT ![KeyOf[grant[d]]] = @ + 1]
    BY <1>2, Zenon DEF CallAdapter, outside
  <2>2. QED
    BY <2>1 DEF EndedAreWritten, IInv, JournalTypes
<1>3. ASSUME \/ \E d \in Deliveries : DeliveryStep(d) /\ ~CallAdapter(d)
             \/ ReconcileReads \/ ReconcileSkips \/ ReconcileConfirms \/ ReconcileStops
             \/ \E g \in Grants : GrantExpires(g)
             \/ Disconnect \/ Reconnect \/ Crash \/ FaultsEnd \/ UNCHANGED vars
      PROVE  EndedAreWritten'
  <2>1. UNCHANGED <<ended, writes>>
    BY <1>3, Zenon DEF DeliveryStep, Deliver, LookUp, CheckConnectivity, Authorise, Refuse,
       ReserveCreates, ReserveFinds, AcquireCredential, CompleteSucceeded, CompleteUnknown,
       CompleteFails, ReconcileReads, ReconcileSkips, ReconcileConfirms, ReconcileStops,
       GrantExpires, Disconnect, Reconnect, Crash, FaultsEnd, vars, outside
  <2>2. QED
    BY <2>1, Zenon DEF EndedAreWritten
<1>4. QED
  BY <1>1, <1>2, <1>3, Zenon DEF Next, DeliveryStep

\* Both are invariants.
LEMMA JournalInvariants == Spec => [](IInv /\ EndedAreWritten)
<1>1. Init => EndedAreWritten
  BY Zenon DEF Init, EndedAreWritten
<1>2. QED
  BY <1>1, InitIInv, NextIInv, NextEnded, PTL DEF Spec

\* No delivery of any grant, no retry and no reissue writes a second time.
THEOREM WritesAtMostOnce == Spec => []AtMostOneWrite
<1>1. IInv => AtMostOneWrite
  BY Zenon DEF IInv, RecordTellsWrites, AtMostOneWrite
<1>2. QED
  BY <1>1, JournalInvariants, PTL

\* Execute answers success only about its own grant, confirmed and written.
THEOREM AnswersOwnSuccess == Spec => []SuccessIsOwn
<1>1. IInv => SuccessIsOwn
  BY Zenon DEF IInv, JournalTypes, RecordTellsWrites, SuccessIsOwn
<1>2. QED
  BY <1>1, JournalInvariants, PTL

-----------------------------------------------------------------------------
(* The link to the control plane *)

\* Nobody is barred while the link is up, and a barred delivery stands before its
\* check or has returned.
LinkInv ==
    /\ pc \in [Deliveries -> Running \cup {"idle", "done"}]
    /\ barred \subseteq Deliveries
    /\ connected => barred = {}
    /\ \A d \in barred : pc[d] \in {"looking", "connecting", "done"}

\* The link may come and go between any two steps of a delivery.
LEMMA NextLinkInv == LinkInv /\ [Next]_vars => LinkInv'
<1> SUFFICES ASSUME LinkInv, [Next]_vars PROVE LinkInv'
  OBVIOUS
<1>1. ASSUME NEW d \in Deliveries, Deliver(d) PROVE LinkInv'
  <2>1. /\ pc' = [pc EXCEPT ![d] = "done"] \/ pc' = [pc EXCEPT ![d] = "looking"]
        /\ connected' = connected
        /\ barred' = IF connected THEN barred ELSE barred \cup {d}
    BY <1>1, Zenon DEF Deliver, Goto, Return
  <2>2. QED
    BY <2>1 DEF LinkInv, Running
<1>2. ASSUME NEW d \in Deliveries, DeliveryStep(d), ~ Deliver(d) PROVE LinkInv'
  <2>1. UNCHANGED link
    BY <1>2, Zenon DEF DeliveryStep, LookUp, CheckConnectivity, Authorise, Refuse,
       ReserveCreates,
       ReserveFinds, AcquireCredential, CallAdapter, CompleteSucceeded, CompleteUnknown,
       CompleteFails
  <2>2. pc[d] # "done"
    BY <1>2, Zenon DEF DeliveryStep, LookUp, CheckConnectivity, Authorise, Refuse,
       ReserveCreates,
       ReserveFinds, AcquireCredential, CallAdapter, CompleteSucceeded, CompleteUnknown,
       CompleteFails
  <2>3. \E next \in Running \cup {"done"} :
           /\ pc' = [pc EXCEPT ![d] = next]
           /\ next \notin {"looking", "connecting", "done"} =>
                 connected \/ pc[d] \notin {"looking", "connecting"}
    BY <1>2, Zenon DEF DeliveryStep, LookUp, CheckConnectivity, Authorise, Refuse,
       ReserveCreates,
       ReserveFinds, AcquireCredential, CallAdapter, CompleteSucceeded, CompleteUnknown,
       CompleteFails, Goto, Return, Running
  <2>4. QED
    BY <2>1, <2>2, <2>3 DEF LinkInv, link, Running
<1>3. CASE Crash \/ Disconnect \/ Reconnect
  BY <1>3 DEF Crash, Disconnect, Reconnect, LinkInv, deliveries, link, Running
<1>4. CASE \/ ReconcileReads \/ ReconcileSkips \/ ReconcileConfirms \/ ReconcileStops
           \/ \E g \in Grants : GrantExpires(g)
           \/ \E o \in Ops : WriteEnds(o)
           \/ FaultsEnd \/ UNCHANGED vars
  <2>1. UNCHANGED <<pc, connected, barred>>
    BY <1>4, Zenon DEF ReconcileReads, ReconcileSkips, ReconcileConfirms,
       ReconcileStops, GrantExpires, WriteEnds, FaultsEnd, vars, deliveries, link
  <2>2. QED
    BY <2>1, Zenon DEF LinkInv
<1>5. QED
  BY <1>1, <1>2, <1>3, <1>4, Zenon DEF Next

\* However the link flaps, a delivery whose check is still to come when the control
\* plane is lost reserves and writes nothing before it is back.
THEOREM CutDeliveriesWriteNothing == Spec => []CutDeliveriesStop
<1>1. Init => LinkInv
  BY DEF Init, LinkInv, Running
<1>2. LinkInv => CutDeliveriesStop
  BY Zenon DEF LinkInv, CutDeliveriesStop
<1>3. QED
  BY <1>1, <1>2, NextLinkInv, PTL DEF Spec

-----------------------------------------------------------------------------
(* The refinement of AtMostOnceWrite *)

\* The first record of a key is inserted.
Inserts(g) ==
    /\ \A h \in Grants : KeyOf[h] = KeyOf[g] => row[h].status = "NONE"
    /\ row' = [row EXCEPT ![g] = [status |-> "RESERVED", version |-> 1]]
    /\ writes' = writes

\* The only write of a key that has a record.
WritesFor(g) ==
    /\ row[g].status # "NONE" /\ writes[KeyOf[g]] = 0
    /\ writes' = [writes EXCEPT ![KeyOf[g]] = 1]
    /\ row' = row

\* A record is completed.
Completes(g, status) ==
    /\ row[g].status # "NONE"
    /\ status = "SUCCEEDED" => writes[KeyOf[g]] = 1
    /\ status = "UNKNOWN" => row[g].status = "RESERVED"
    /\ \E version : row' = [row EXCEPT ![g] = [status |-> status, version |-> version]]
    /\ writes' = writes

\* No step changes the journal and the writes in any other way.
LEMMA RowStep ==
  ASSUME IInv, EndedAreWritten, [Next]_vars
  PROVE  \/ UNCHANGED <<row, writes>>
         \/ \E g \in Grants :
              Inserts(g) \/ WritesFor(g) \/ \E status \in {"SUCCEEDED", "UNKNOWN"} : Completes(g, status)
<1>1. ASSUME NEW d \in Deliveries, ReserveCreates(d)
      PROVE  grant[d] \in Grants /\ Inserts(grant[d])
  <2>1. {h \in Grants : row[h].status # "NONE" /\ KeyOf[h] = KeyOf[grant[d]]} = {}
    BY <1>1, Zenon DEF ReserveCreates, Holders
  <2>2. QED
    BY <1>1, <2>1, Zenon DEF ReserveCreates, Update, IInv, JournalTypes, Inserts
<1>2. ASSUME NEW d \in Deliveries, CallAdapter(d)
      PROVE  \/ UNCHANGED <<row, writes>>
             \/ grant[d] \in Grants /\ WritesFor(grant[d])
  <2>1. /\ grant[d] \in Grants
        /\ row[grant[d]].status # "NONE" /\ writes[KeyOf[grant[d]]] = 0
    BY <1>2, Zenon DEF CallAdapter, IInv, JournalTypes, OneOwner, Owning
  <2>2. QED
    BY <1>2, <2>1 DEF CallAdapter, WritesFor
<1>3. ASSUME NEW d \in Deliveries, CompleteSucceeded(d)
      PROVE  grant[d] \in Grants /\ Completes(grant[d], "SUCCEEDED")
  BY <1>3, Zenon DEF CompleteSucceeded, CompleteRunnerAction, Update, IInv,
     JournalTypes, OneOwner,
     Owning, Completes
<1>4. ASSUME NEW d \in Deliveries, CompleteUnknown(d)
      PROVE  grant[d] \in Grants /\ Completes(grant[d], "UNKNOWN")
  <2>1. /\ grant[d] \in Grants
        /\ row[grant[d]].status \in Statuses \ {"NONE"} /\ row[grant[d]].version = 1
    BY <1>4, Zenon DEF CompleteUnknown, CompleteRunnerAction, IInv, JournalTypes
  <2>2. row[grant[d]].status = "RESERVED"
    BY <2>1 DEF IInv, OneRecord, Statuses
  <2>3. QED
    BY <1>4, <2>1, <2>2, Zenon DEF CompleteUnknown, CompleteRunnerAction, Update, Completes
<1>5. ASSUME ReconcileConfirms
      PROVE  \/ UNCHANGED <<row, writes>>
             \/ \E g \in Grants : Completes(g, "SUCCEEDED")
  <2> DEFINE g == Head(batch).grant
             version == Head(batch).version + 1
  <2>1. /\ row[g].status # "NONE" /\ ended[KeyOf[g]] = "succeeded" /\ writes' = writes
        /\ row' = [row EXCEPT ![g] = [status |-> "SUCCEEDED", version |-> version]]
    BY <1>5, Zenon DEF ReconcileConfirms, CompleteRunnerAction, Update
  <2> HIDE DEF g, version
  <2>2. CASE g \in Grants
    <3> DEFINE o == KeyOf[g]
    <3>0. o \in Ops
      BY <2>2, Zenon DEF Ops
    <3>1. writes[o] = 1
      <4> HIDE DEF o
      <4>1. writes[o] \in Nat /\ writes[o] <= 1
        BY <3>0, Zenon DEF IInv, JournalTypes, RecordTellsWrites
      <4>2. ended[o] = "succeeded"
        BY <2>1, Zenon DEF o
      <4>3. writes[o] > 0
        BY <3>0, <4>2, Zenon DEF EndedAreWritten
      <4>4. QED
        BY <4>1, <4>3
    <3>2. QED
      BY <2>1, <2>2, <3>1, Zenon DEF Completes
  <2>3. CASE g \notin Grants
    BY <2>1, <2>3, Zenon DEF IInv, JournalTypes
  <2>4. QED
    BY <2>2, <2>3, Zenon
<1>6. ASSUME NEW d \in Deliveries,
             \/ Deliver(d) \/ LookUp(d) \/ CheckConnectivity(d) \/ Authorise(d) \/ Refuse(d)
             \/ ReserveFinds(d) \/ AcquireCredential(d) \/ CompleteFails(d)
      PROVE  UNCHANGED <<row, writes>>
  BY <1>6, Zenon DEF Deliver, LookUp, CheckConnectivity, Authorise, Refuse, ReserveFinds,
     AcquireCredential, CompleteFails
<1>7. ASSUME \/ ReconcileReads \/ ReconcileSkips \/ ReconcileStops
             \/ \E g \in Grants : GrantExpires(g)
             \/ \E o \in Ops : WriteEnds(o)
             \/ Disconnect \/ Reconnect \/ Crash \/ FaultsEnd \/ UNCHANGED vars
      PROVE  UNCHANGED <<row, writes>>
  BY <1>7, Zenon DEF ReconcileReads, ReconcileSkips, ReconcileStops, GrantExpires,
     WriteEnds, Disconnect, Reconnect, Crash, FaultsEnd, vars
<1>8. QED
  BY <1>1, <1>2, <1>3, <1>4, <1>5, <1>6, <1>7, Zenon DEF Next, DeliveryStep

\* What a key's records say is what its one record says, before and after that
\* record changes; the other keys' records say what they said.
LEMMA KeyStatus ==
  ASSUME NEW g \in Grants,
         \A h \in Grants : h # g => row'[h] = row[h],
         \A h \in Grants : h # g /\ KeyOf[h] = KeyOf[g] => row[h].status = "NONE",
         NEW statuses, "NONE" \notin statuses
  PROVE  /\ StatusOf(KeyOf[g], statuses) <=> row[g].status \in statuses
         /\ StatusOf(KeyOf[g], statuses)' <=> row'[g].status \in statuses
         /\ \A o \in Ops : o # KeyOf[g] => (StatusOf(o, statuses)' <=> StatusOf(o, statuses))
  BY Zenon DEF StatusOf

\* Customer runners implement the at-most-once journal: a key is claimed, written
\* and confirmed or doubted once, whichever grants, deliveries and crashes it meets.
THEOREM Refinement == Spec => ImplementsJournal
<1> DEFINE some == {"RESERVED", "SUCCEEDED", "UNKNOWN"}
<1>1. Init => Journal!Init
  BY DEF Init, Journal!Init, stageOf, journalOf, StatusOf
<1>2. ASSUME IInv, EndedAreWritten, [Next]_vars PROVE [Journal!Next]_(Journal!vars)
  <2>1. CASE UNCHANGED <<row, writes>>
    BY <2>1, Zenon DEF Journal!vars, stageOf, journalOf, StatusOf
  <2>2. ASSUME NEW g \in Grants, Inserts(g) PROVE Journal!Next
    <3> DEFINE o == KeyOf[g]
    <3>1. /\ o \in Ops /\ row[g].status = "NONE" /\ writes' = writes
          /\ row'[g].status = "RESERVED"
          /\ \A h \in Grants : h # g => row'[h] = row[h]
          /\ \A h \in Grants : h # g /\ KeyOf[h] = KeyOf[g] => row[h].status = "NONE"
      BY <1>2, <2>2, Zenon DEF Inserts, Ops, IInv, JournalTypes
    <3>2. writes[o] = 0
      <4>1. ~ \E h \in Grants : KeyOf[h] = o /\ row[h].status # "NONE"
        BY <3>1, Zenon
      <4> HIDE DEF o
      <4>2. writes[o] \in Nat /\ ~ (writes[o] > 0)
        BY <1>2, <3>1, <4>1, Zenon DEF IInv, JournalTypes, RecordTellsWrites
      <4>3. QED
        BY <4>2
    <3>3. \A statuses \in SUBSET some :
             /\ ~ StatusOf(o, statuses)
             /\ StatusOf(o, statuses)' <=> "RESERVED" \in statuses
             /\ \A p \in Ops : p # o => (StatusOf(p, statuses)' <=> StatusOf(p, statuses))
      BY <3>1, KeyStatus
    <3>4. stageOf[o] = "free" /\ stageOf' = [stageOf EXCEPT ![o] = "claimed"]
      BY <3>1, <3>2, <3>3 DEF stageOf
    <3>5. UNCHANGED journalOf
      BY <3>1, <3>3, Zenon DEF journalOf
    <3>6. QED
      BY <3>1, <3>4, <3>5, Zenon DEF Journal!Next, Journal!Claim
  <2>3. ASSUME NEW g \in Grants, WritesFor(g) PROVE Journal!Next
    <3> DEFINE o == KeyOf[g]
    <3>1. o \in Ops /\ writes[o] = 0 /\ writes' = [writes EXCEPT ![o] = 1] /\ row' = row
      BY <2>3, Zenon DEF WritesFor, Ops
    <3>2. StatusOf(o, some)
      BY <1>2, <2>3, Zenon DEF WritesFor, StatusOf, IInv, JournalTypes, Statuses
    <3>3. \A p : \A statuses : StatusOf(p, statuses)' <=> StatusOf(p, statuses)
      BY <3>1, Zenon DEF StatusOf
    <3>4. stageOf[o] = "claimed" /\ stageOf' = [stageOf EXCEPT ![o] = "written"]
      BY <1>2, <3>1, <3>2, <3>3 DEF stageOf, IInv, JournalTypes
    <3>5. UNCHANGED journalOf
      BY <3>3, Zenon DEF journalOf
    <3>6. QED
      BY <3>1, <3>4, <3>5, Zenon DEF Journal!Next, Journal!Write
  <2>4. ASSUME NEW g \in Grants, NEW status \in {"SUCCEEDED", "UNKNOWN"}, Completes(g, status)
        PROVE  [Journal!Next]_(Journal!vars)
    <3> DEFINE o == KeyOf[g]
    <3>1. /\ o \in Ops /\ row[g].status \in some /\ writes' = writes
          /\ row'[g].status = status
          /\ \A h \in Grants : h # g => row'[h] = row[h]
          /\ \A h \in Grants : h # g /\ KeyOf[h] = KeyOf[g] => row[h].status = "NONE"
      BY <1>2, <2>4 DEF Completes, Ops, IInv, JournalTypes, OneRecord, Statuses
    <3>2. \A statuses \in SUBSET some :
             /\ StatusOf(o, statuses) <=> row[g].status \in statuses
             /\ StatusOf(o, statuses)' <=> status \in statuses
             /\ \A p \in Ops : p # o => (StatusOf(p, statuses)' <=> StatusOf(p, statuses))
      BY <3>1, KeyStatus
    <3>3. stageOf[o] # "free" /\ UNCHANGED stageOf
      BY <3>1, <3>2, Zenon DEF stageOf
    <3>4. CASE status = "UNKNOWN"
      <4>1. journalOf[o] = "open" /\ journalOf' = [journalOf EXCEPT ![o] = "doubtful"]
        BY <2>4, <3>1, <3>2, <3>4 DEF journalOf, Completes
      <4>2. QED
        BY <3>1, <3>3, <4>1, Zenon DEF Journal!Next, Journal!Doubt
    <3>5. CASE status = "SUCCEEDED"
      <4>1. stageOf[o] = "written"
        BY <2>4, <3>1, <3>2, <3>5, SMTT(30) DEF stageOf, Completes
      <4>2. journalOf' = [journalOf EXCEPT ![o] = "confirmed"]
        BY <3>1, <3>2, <3>5, Zenon DEF journalOf
      <4>3. CASE journalOf[o] = "confirmed"
        BY <3>3, <4>2, <4>3, Zenon DEF Journal!vars, journalOf
      <4>4. CASE journalOf[o] # "confirmed"
        BY <3>1, <3>3, <4>1, <4>2, <4>4, Zenon DEF Journal!Next, Journal!Confirm
      <4>5. QED
        BY <4>3, <4>4, Zenon
    <3>6. QED
      BY <3>4, <3>5, Zenon
  <2>5. QED
    BY <1>2, <2>1, <2>2, <2>3, <2>4, RowStep, Zenon
<1>3. QED
  BY <1>1, <1>2, JournalInvariants, PTL DEF Spec, ImplementsJournal, Journal!Spec

-----------------------------------------------------------------------------
(* GitHubDispatch *)

\* The types the argument needs: outages are not among them.
DispatchTypes ==
    /\ clock \in Nat
    /\ runs \in [Workflows -> Seq(WorkflowRuns)]
    /\ request \in [Keys -> {"none", "flying", "created", "refused"}]
    /\ at \in [Keys -> {"idle", "ready", "waiting", "returned", "done"}]
    /\ outcome \in [Keys -> {"none", "ID", "TERMINAL", "UNKNOWN_EXTERNAL_STATE"}]
    /\ record \in [Keys -> Records]
    /\ scan \in [Keys -> [next : 0 .. Len(Files), read : {"NONE"} \cup Unresolved]]

\* A run carries a key's title only in the key's workflow and only when the key's
\* request has arrived, and a request that arrived has left its run.
RunsAreOwn ==
    /\ \A f \in Workflows : \A i \in DOMAIN runs[f] : \A k \in Keys :
          runs[f][i].title = k => f = FileOf[k] /\ request[k] = "created"
    /\ \A k \in Keys : request[k] = "created" =>
          \E i \in DOMAIN runs[FileOf[k]] : runs[FileOf[k]][i].title = k

\* Where Execute stands says what its request may have done.
DispatchProgress ==
    \A k \in Keys :
        /\ at[k] \in {"idle", "ready"} => request[k] = "none" /\ outcome[k] = "none"
        /\ at[k] = "waiting" => request[k] # "none" /\ outcome[k] = "none"
        /\ outcome[k] = "TERMINAL" => request[k] \in {"none", "refused"}
                                      /\ at[k] \in {"returned", "done"}
        /\ outcome[k] = "ID" => request[k] = "created"

DispatchIInv == DispatchTypes /\ clock >= Skew /\ RunsAreOwn /\ DispatchProgress /\ ConfirmedIsOwn

-----------------------------------------------------------------------------

\* Nothing is dispatched, nor recorded, at the beginning.
LEMMA InitDispatch == ASSUME Configured, DispatchInit PROVE DispatchIInv
<1>1. /\ clock = Skew /\ Skew \in Nat
      /\ \A f \in Workflows : runs[f] = <<>>
      /\ \A k \in Keys : request[k] = "none" /\ at[k] = "idle" /\ outcome[k] = "none"
                         /\ record[k].status = "NONE"
  BY Zenon DEF Configured, DispatchInit
<1>2. Len(Files) \in Nat
  BY DEF Configured
<1>3. DispatchTypes
  BY <1>1, <1>2 DEF DispatchInit, DispatchTypes, NoRun, Records, Unresolved
<1>4. RunsAreOwn /\ DispatchProgress /\ ConfirmedIsOwn
  BY <1>1 DEF RunsAreOwn, DispatchProgress, ConfirmedIsOwn, Configured
<1>5. QED
  BY <1>1, <1>3, <1>4 DEF DispatchIInv

\* What RunOf answers: the run of a key whose request has arrived, no run for the
\* others.
LEMMA RunOfKey ==
  ASSUME Configured, DispatchIInv, NEW k \in Keys
  PROVE  /\ request[k] = "created" =>
              /\ RunOf(k) \in DOMAIN runs[FileOf[k]]
              /\ runs[FileOf[k]][RunOf(k)].title = k
         /\ request[k] # "created" => RunOf(k) = NoRun
<1> DEFINE own == {i \in DOMAIN runs[FileOf[k]] : runs[FileOf[k]][i].title = k}
<1>1. request[k] = "created" => own # {}
  BY Zenon DEF DispatchIInv, RunsAreOwn
<1>2. request[k] # "created" => own = {}
  <2>1. FileOf[k] \in Workflows
    BY Zenon DEF Configured
  <2>2. QED
    BY <2>1, Zenon DEF DispatchIInv, RunsAreOwn
<1>3. RunOf(k) = IF own = {} THEN NoRun ELSE CHOOSE i \in own : TRUE
  BY Zenon DEF RunOf
<1> HIDE DEF own
<1>4. own # {} => RunOf(k) \in own
  BY <1>3, Zenon
<1>5. QED
  BY <1>1, <1>2, <1>3, <1>4, Zenon DEF own

\* A step that leaves GitHub's runs alone, and the arrived requests arrived,
\* leaves them the keys' own.
LEMMA RunsStay ==
  ASSUME DispatchIInv, runs' = runs,
         \A k \in Keys : request'[k] = "created" <=> request[k] = "created"
  PROVE  RunsAreOwn'
  BY DEF DispatchIInv, RunsAreOwn

\* A confirmed record stays right when neither it nor the runs change.
LEMMA ConfirmedStays ==
  ASSUME DispatchIInv, runs' = runs,
         \A k \in Keys : record'[k].status = "SUCCEEDED" => record'[k] = record[k]
  PROVE  ConfirmedIsOwn'
  BY DEF DispatchIInv, ConfirmedIsOwn

\* It stays right, too, when runs are added, or end.
LEMMA ConfirmedRunsLast ==
  ASSUME DispatchIInv, record' = record,
         \A k \in Keys : FileOf[k] \in Workflows,
         \A f \in Workflows : \A i \in DOMAIN runs[f] :
                     /\ i \in DOMAIN runs'[f] /\ runs'[f][i].title = runs[f][i].title
                     /\ runs[f][i].state = "success" => runs'[f][i].state = "success"
  PROVE  ConfirmedIsOwn'
  BY DEF DispatchIInv, ConfirmedIsOwn

\* A run found under a key's title is in the key's workflow.
LEMMA TitleTellsFile ==
  ASSUME DispatchIInv, NEW f \in Workflows, NEW i \in DOMAIN runs[f], NEW k \in Keys,
         runs[f][i].title = k
  PROVE  f = FileOf[k]
  BY DEF DispatchIInv, RunsAreOwn

\* The steps of Execute keep the invariant.
LEMMA ExecuteKeeps ==
  ASSUME Configured, DispatchIInv, NEW k \in Keys,
         \/ Reserve(k) \/ Decline(k) \/ Post(k) \/ Answered(k) \/ Interrupted(k)
         \/ NotAccepted(k)
  PROVE  DispatchIInv'
<1>1. clock' = clock /\ runs' = runs /\ scan' = scan
  BY Zenon DEF Reserve, Decline, Post, Answered, Interrupted,
     NotAccepted
<1>2. \A q \in Keys : q # k => /\ request'[q] = request[q] /\ at'[q] = at[q]
                              /\ outcome'[q] = outcome[q]
  BY DEF Reserve, Decline, Post, Answered, Interrupted, NotAccepted,
     DispatchIInv, DispatchTypes
<1>3. RunsAreOwn'
  <2>1. \A q \in Keys : request'[q] = "created" <=> request[q] = "created"
    BY DEF Reserve, Decline, Post, Answered, Interrupted, NotAccepted,
       DispatchIInv, DispatchTypes, DispatchProgress
  <2>2. QED
    BY <1>1, <2>1, RunsStay, Zenon
<1>4. ConfirmedIsOwn'
  <2>1. \A q \in Keys : record'[q].status = "SUCCEEDED" => record'[q] = record[q]
    BY DEF Reserve, Decline, Post, Answered, Interrupted, NotAccepted,
       DispatchIInv, DispatchTypes
  <2>2. QED
    BY <1>1, <2>1, ConfirmedStays, Zenon
<1>5. DispatchProgress'
  <2>1. \A response \in Responses(request[k]) :
           /\ Classify(response) = "TERMINAL" => request[k] = "refused"
           /\ Classify(response) = "ID" => request[k] = "created"
    BY Zenon DEF Responses, Classify
  <2>2. QED
    BY <1>2, <2>1 DEF Reserve, Decline, Post, Answered, Interrupted,
       NotAccepted, DispatchIInv, DispatchTypes,
       DispatchProgress
<1>6. DispatchTypes'
  <2>1. record' \in [Keys -> Records]
    <3>1. [status |-> "RESERVED", since |-> clock, run |-> NoRun, via |-> "none"] \in Records
      BY Zenon DEF DispatchIInv, DispatchTypes, Records, Unresolved, NoRun
    <3>2. QED
      BY <3>1, Zenon DEF Reserve, Decline, Post, Answered,
         Interrupted, NotAccepted, DispatchIInv, DispatchTypes
  <2>2. request' \in [Keys -> {"none", "flying", "created", "refused"}]
    BY Zenon DEF Reserve, Decline, Post, Answered, Interrupted,
       NotAccepted, DispatchIInv, DispatchTypes
  <2>3. at' \in [Keys -> {"idle", "ready", "waiting", "returned", "done"}]
    <3>1. \/ at' = at
          \/ \E place \in {"ready", "waiting", "returned", "done"} : at' = [at EXCEPT ![k] = place]
      BY Zenon DEF Reserve, Decline, Post, Answered, Interrupted,
         NotAccepted
    <3>2. QED
      BY <3>1, Zenon DEF DispatchIInv, DispatchTypes
  <2>4. outcome' \in [Keys -> {"none", "ID", "TERMINAL", "UNKNOWN_EXTERNAL_STATE"}]
    BY Zenon DEF Reserve, Decline, Post, Answered, Interrupted,
       NotAccepted, DispatchIInv, DispatchTypes, Classify
  <2>5. QED
    BY <1>1, <2>1, <2>2, <2>3, <2>4, Zenon DEF DispatchIInv, DispatchTypes
<1>7. QED
  BY <1>1, <1>3, <1>4, <1>5, <1>6, Zenon DEF DispatchIInv

\* Execute records the run its request made.
LEMMA CompleteKeeps ==
  ASSUME Configured, DispatchIInv, NEW k \in Keys, CompleteExecute(k)
  PROVE  DispatchIInv'
<1>1. clock' = clock /\ runs' = runs /\ request' = request /\ outcome' = outcome /\ scan' = scan
  BY Zenon DEF CompleteExecute
<1>2. RunOf(k) \in Nat
  <2>1. runs[FileOf[k]] \in Seq(WorkflowRuns)
    BY Zenon DEF Configured, DispatchIInv, DispatchTypes
  <2>2. QED
    BY <2>1, RunOfKey DEF NoRun
<1>3. /\ record' \in [Keys -> Records]
      /\ \A q \in Keys : q # k => record'[q] = record[q]
      /\ record'[k].status = "SUCCEEDED" =>
            outcome[k] = "ID" /\ record'[k].run = RunOf(k) /\ record'[k].via = "execute"
  <2> DEFINE new == IF outcome[k] = "ID" THEN Confirmed(k, RunOf(k), "execute")
                    ELSE [record[k] EXCEPT !.status = "UNKNOWN"]
  <2>1. record[k] \in Records /\ record \in [Keys -> Records]
    BY Zenon DEF DispatchIInv, DispatchTypes
  <2>2. Confirmed(k, RunOf(k), "execute") \in Records
    BY <1>2, <2>1, Zenon DEF Confirmed, Records
  <2>3. /\ [record[k] EXCEPT !.status = "UNKNOWN"] \in Records
        /\ [record[k] EXCEPT !.status = "UNKNOWN"].status = "UNKNOWN"
    BY <2>1, Zenon DEF Records, Unresolved
  <2>4. record' = [record EXCEPT ![k] = new]
    BY Zenon DEF CompleteExecute
  <2>5. new \in Records /\ (new.status = "SUCCEEDED" =>
            outcome[k] = "ID" /\ new.run = RunOf(k) /\ new.via = "execute")
    BY <2>2, <2>3, Zenon DEF Confirmed
  <2> HIDE DEF new
  <2>6. QED
    BY <2>1, <2>4, <2>5, Zenon
<1>4. RunsAreOwn'
  BY <1>1, RunsStay, Zenon
<1>5. DispatchTypes' /\ DispatchProgress'
  BY <1>1, <1>3 DEF CompleteExecute, DispatchIInv, DispatchTypes, DispatchProgress
<1>6. ConfirmedIsOwn'
  <2> SUFFICES ASSUME NEW q \in Keys, record'[q].status = "SUCCEEDED"
               PROVE  /\ record'[q].run \in DOMAIN runs[FileOf[q]]
                      /\ runs[FileOf[q]][record'[q].run].title = q
                      /\ record'[q].via = "reconcile" =>
                           runs[FileOf[q]][record'[q].run].state = "success"
    BY <1>1, Zenon DEF ConfirmedIsOwn
  <2>1. CASE q = k
    BY <1>3, <2>1, RunOfKey, Zenon DEF DispatchIInv, DispatchProgress
  <2>2. CASE q # k
    BY <1>3, <2>2, Zenon DEF DispatchIInv, ConfirmedIsOwn
  <2>3. QED
    BY <2>1, <2>2, Zenon
<1>7. QED
  BY <1>1, <1>4, <1>5, <1>6, Zenon DEF DispatchIInv

\* A run is appended to a workflow by the request of its key, or by somebody else.
LEMMA AppendKeeps ==
  ASSUME Configured, DispatchIInv, NEW f \in Workflows, NEW title \in Keys \cup {"other"},
         runs' = [runs EXCEPT ![f] = Append(@, NewRun(title))],
         UNCHANGED <<clock, at, outcome, record, scan>>,
         \/ title = "other" /\ request' = request
         \/ /\ title \in Keys /\ f = FileOf[title] /\ request[title] = "flying"
            /\ request' = [request EXCEPT ![title] = "created"]
  PROVE  DispatchIInv'
<1> DEFINE n == Len(runs[f])
<1>1. runs[f] \in Seq(WorkflowRuns) /\ n \in Nat
  BY DEF DispatchIInv, DispatchTypes
<1>2. NewRun(title) \in WorkflowRuns /\ NewRun(title).title = title
  <2>1. clock - Skew \in Nat
    BY DEF DispatchIInv, DispatchTypes, Configured
  <2>2. QED
    BY <2>1, Zenon DEF NewRun, WorkflowRuns
<1>3. /\ runs'[f] \in Seq(WorkflowRuns) /\ DOMAIN runs[f] = 1 .. n /\ DOMAIN runs'[f] = 1 .. (n + 1)
      /\ \A i \in 1 .. n : runs'[f][i] = runs[f][i]
      /\ runs'[f][n + 1] = NewRun(title)
  <2>1. runs'[f] = Append(runs[f], NewRun(title))
    BY Zenon DEF DispatchIInv, DispatchTypes
  <2>2. QED
    BY <1>1, <1>2, <2>1
<1>4. \A g \in Workflows : g # f => runs'[g] = runs[g]
  BY Zenon DEF DispatchIInv, DispatchTypes
<1>5. runs' \in [Workflows -> Seq(WorkflowRuns)]
  BY <1>1, <1>2 DEF DispatchIInv, DispatchTypes
<1> HIDE DEF n
<1>6. DispatchTypes'
  <2>1. request' \in [Keys -> {"none", "flying", "created", "refused"}]
    BY Zenon DEF DispatchIInv, DispatchTypes
  <2>2. QED
    BY <1>5, <2>1, Zenon DEF DispatchIInv, DispatchTypes
<1>7. \A g \in Workflows : \A i \in DOMAIN runs[g] :
         i \in DOMAIN runs'[g] /\ runs'[g][i] = runs[g][i]
  BY <1>1, <1>3, <1>4
<1>8. \A k \in Keys : FileOf[k] \in Workflows
  BY Zenon DEF Configured
<1>9. ConfirmedIsOwn'
  <2>1. \A g \in Workflows : \A i \in DOMAIN runs[g] :
           /\ i \in DOMAIN runs'[g] /\ runs'[g][i].title = runs[g][i].title
           /\ runs[g][i].state = "success" => runs'[g][i].state = "success"
    BY <1>7, Zenon
  <2>2. QED
    BY <1>8, <2>1, ConfirmedRunsLast, Zenon
<1>10. DispatchProgress'
  BY DEF DispatchIInv, DispatchTypes, DispatchProgress
<1>11. ASSUME NEW g \in Workflows, NEW i \in DOMAIN runs'[g], NEW k \in Keys,
              runs'[g][i].title = k
       PROVE  g = FileOf[k] /\ request'[k] = "created"
  <2>1. CASE i \in DOMAIN runs[g]
    <3>1. runs[g][i].title = k
      BY <1>7, <1>11, <2>1, Zenon
    <3>2. g = FileOf[k] /\ request[k] = "created"
      BY <1>11, <2>1, <3>1 DEF DispatchIInv, RunsAreOwn
    <3>3. QED
      BY <3>2, Zenon DEF DispatchIInv, DispatchTypes
  <2>2. CASE i \notin DOMAIN runs[g]
    <3>1. g = f /\ i = n + 1
      BY <1>1, <1>3, <1>4, <1>11, <2>2
    <3>2. title = k
      BY <1>2, <1>3, <1>11, <3>1, Zenon
    <3>3. QED
      BY <3>1, <3>2, Zenon DEF Configured, DispatchIInv, DispatchTypes
  <2>3. QED
    BY <2>1, <2>2, Zenon
<1>12. ASSUME NEW k \in Keys, request'[k] = "created"
       PROVE  \E i \in DOMAIN runs'[FileOf[k]] : runs'[FileOf[k]][i].title = k
  <2>1. CASE request[k] = "created"
    <3>1. PICK i \in DOMAIN runs[FileOf[k]] : runs[FileOf[k]][i].title = k
      BY <2>1, Zenon DEF DispatchIInv, RunsAreOwn
    <3>2. QED
      BY <1>7, <1>8, <3>1
  <2>2. CASE request[k] # "created"
    <3>1. title = k /\ f = FileOf[k]
      BY <1>12, <2>2, Zenon DEF DispatchIInv, DispatchTypes
    <3>2. n + 1 \in DOMAIN runs'[f] /\ runs'[f][n + 1].title = k
      BY <1>1, <1>2, <1>3, <3>1
    <3>3. QED
      BY <3>1, <3>2, Zenon
  <2>3. QED
    BY <2>1, <2>2, Zenon
<1>13. RunsAreOwn'
  BY <1>11, <1>12, Zenon DEF RunsAreOwn
<1>14. QED
  BY <1>6, <1>9, <1>10, <1>13, Zenon DEF DispatchIInv

\* The end of a queued run changes no title, nor a run that had ended.
LEMMA RunEndsKeeps ==
  ASSUME Configured, DispatchIInv, NEW k \in Keys, RunEnds(k)
  PROVE  DispatchIInv'
<1> DEFINE f == FileOf[k]
           n == RunOf(k)
<1>1. UNCHANGED <<clock, request, at, outcome, record, scan>>
  BY Zenon DEF RunEnds, execute
<1>2. request[k] = "created"
  BY RunOfKey, Zenon DEF RunEnds
<1>3. f \in Workflows /\ runs[f] \in Seq(WorkflowRuns) /\ n \in DOMAIN runs[f]
  BY <1>2, RunOfKey DEF Configured, DispatchIInv, DispatchTypes
<1>4. PICK c \in Conclusions : runs' = [runs EXCEPT ![f][n].state = c]
  BY Zenon DEF RunEnds
<1>5. runs[f][n].state = "queued"
  BY Zenon DEF RunEnds
<1> HIDE DEF f, n
<1>6. runs' = [runs EXCEPT ![f] = [runs[f] EXCEPT ![n] = [runs[f][n] EXCEPT !.state = c]]]
  BY <1>3, <1>4, Zenon
<1>7. [runs[f][n] EXCEPT !.state = c] \in WorkflowRuns
  <2> DEFINE run == runs[f][n]
  <2>1. run \in WorkflowRuns
    BY <1>3
  <2> HIDE DEF run
  <2>2. [run EXCEPT !.state = c] \in WorkflowRuns
    BY <2>1, Zenon DEF WorkflowRuns
  <2>3. QED
    BY <2>2, Zenon DEF run
<1>8. runs'[f] = [runs[f] EXCEPT ![n] = [runs[f][n] EXCEPT !.state = c]]
  BY <1>3, <1>6, Zenon DEF DispatchIInv, DispatchTypes
<1>9. runs'[f] \in Seq(WorkflowRuns)
  BY <1>3, <1>7, <1>8
<1>10. \A g \in Workflows : g # f => runs'[g] = runs[g]
  BY <1>6, Zenon DEF DispatchIInv, DispatchTypes
<1>11. ASSUME NEW g \in Workflows
       PROVE  /\ DOMAIN runs'[g] = DOMAIN runs[g]
              /\ \A i \in DOMAIN runs[g] :
                    /\ runs'[g][i].title = runs[g][i].title
                    /\ runs[g][i].state = "success" => runs'[g][i].state = "success"
  <2>1. CASE g = f
    <3>1. DOMAIN runs'[f] = DOMAIN runs[f]
      BY <1>8, Zenon
    <3>2. \A i \in DOMAIN runs[f] : i # n => runs'[f][i] = runs[f][i]
      BY <1>8, Zenon
    <3>3. runs'[f][n].title = runs[f][n].title
      BY <1>3, <1>8 DEF WorkflowRuns
    <3>4. QED
      BY <1>5, <2>1, <3>1, <3>2, <3>3, Zenon
  <2>2. CASE g # f
    BY <1>10, <2>2, Zenon
  <2>3. QED
    BY <2>1, <2>2, Zenon
<1>12. DispatchTypes'
  <2>1. runs' \in [Workflows -> Seq(WorkflowRuns)]
    BY <1>3, <1>7, <1>9, <1>6, <1>8, Zenon DEF DispatchIInv, DispatchTypes
  <2>2. QED
    BY <1>1, <2>1, Zenon DEF DispatchIInv, DispatchTypes
<1>13. \A q \in Keys : FileOf[q] \in Workflows
  BY Zenon DEF Configured
<1>14. ConfirmedIsOwn'
  <2>1. \A g \in Workflows : \A i \in DOMAIN runs[g] :
           /\ i \in DOMAIN runs'[g] /\ runs'[g][i].title = runs[g][i].title
           /\ runs[g][i].state = "success" => runs'[g][i].state = "success"
    BY <1>11, Zenon
  <2>2. QED
    BY <1>1, <1>13, <2>1, ConfirmedRunsLast, Zenon
<1>15. RunsAreOwn'
  BY <1>1, <1>11, <1>13 DEF DispatchIInv, RunsAreOwn
<1>16. QED
  BY <1>1, <1>12, <1>14, <1>15, Zenon DEF DispatchIInv, DispatchProgress

\* Reconcile completes a record with a run of the key's title that succeeded; the
\* other steps of its search change nothing but the search.
LEMMA ReconcileKeeps ==
  ASSUME Configured, DispatchIInv, NEW k \in Keys,
         \/ ReconcileBegins(k) \/ ListFails(k) \/ FindsNothing(k) \/ FindsUnfinished(k)
         \/ FindsRun(k)
  PROVE  DispatchIInv'
<1>1. clock' = clock /\ runs' = runs /\ request' = request /\ at' = at /\ outcome' = outcome
  BY Zenon DEF ReconcileBegins, ListFails, FindsNothing, FindsUnfinished,
     FindsRun, execute
<1> DEFINE Searches == [next : 0 .. Len(Files), read : {"NONE"} \cup Unresolved]
<1>2. Len(Files) \in Nat /\ Len(Files) >= 1 /\ scan \in [Keys -> Searches]
  <2>1. Len(Files) \in Nat /\ Len(Files) # 0
    <3>1. Files \in Seq(Workflows) /\ \E i \in DOMAIN Files : Files[i] = FileOf[k]
      BY Zenon DEF Configured, Workflows
    <3>2. QED
      BY <3>1
  <2>2. QED
    BY <2>1 DEF DispatchIInv, DispatchTypes
<1>3. \E search \in Searches : scan' = [scan EXCEPT ![k] = search]
  <2>1. CASE ReconcileBegins(k)
    <3>1. [next |-> 1, read |-> record[k].status] \in Searches
      <4>1. record[k].status \in Unresolved
        BY <2>1, Zenon DEF ReconcileBegins
      <4>2. QED
        BY <1>2, <4>1
    <3>2. QED
      BY <2>1, <3>1, Zenon DEF ReconcileBegins
  <2>2. CASE FindsNothing(k) /\ scan[k].next < Len(Files)
    <3>1. scan' = [scan EXCEPT ![k] = [scan[k] EXCEPT !.next = scan[k].next + 1]]
      BY <2>2, Zenon DEF FindsNothing
    <3>2. [scan[k] EXCEPT !.next = scan[k].next + 1] \in Searches
      BY <1>2, <2>2
    <3>3. QED
      BY <3>1, <3>2, Zenon
  <2>3. CASE ScanEnds(k)
    <3>1. [next |-> 0, read |-> "NONE"] \in Searches
      BY <1>2
    <3>2. QED
      BY <2>3, <3>1, Zenon DEF ScanEnds
  <2>4. QED
    BY <2>1, <2>2, <2>3, Zenon DEF ListFails, FindsNothing, FindsUnfinished,
       FindsRun
<1>4. scan' \in [Keys -> Searches]
  <2> HIDE DEF Searches
  <2>1. QED
    BY <1>2, <1>3, Zenon
<1>5. RunsAreOwn' /\ DispatchProgress'
  BY <1>1, RunsStay, Zenon DEF DispatchIInv, DispatchProgress
<1>6. CASE record' = record
  BY <1>1, <1>4, <1>5, <1>6, ConfirmedStays, Zenon DEF DispatchIInv, DispatchTypes
<1>7. CASE FindsRun(k) /\ record' # record
  <2> DEFINE f == Files[scan[k].next]
  <2>1. PICK i \in FirstMatch(k) :
           /\ mapRunStatus(runs[f][i].state) = "SUCCEEDED"
           /\ record' = [record EXCEPT ![k] = Confirmed(k, i, "reconcile")]
    BY <1>7, Zenon DEF FindsRun
  <2>2. i \in DOMAIN runs[f] /\ runs[f][i].title = k /\ runs[f][i].state = "success"
    BY <2>1, Zenon DEF FirstMatch, Matches, Page, mapRunStatus
  <2>3. f \in Workflows
    <3>0. scan[k].next # 0 /\ scan[k] \in Searches
      BY <1>2, <1>7, Zenon DEF FindsRun
    <3>1. scan[k].next \in Nat /\ scan[k].next <= Len(Files) /\ scan[k].next # 0
      BY <1>2, <3>0
    <3>2. scan[k].next \in DOMAIN Files
      BY <1>2, <3>1 DEF Configured
    <3>3. QED
      BY <3>2, Zenon DEF Workflows
  <2> HIDE DEF f
  <2>4. f = FileOf[k]
    BY <2>2, <2>3, TitleTellsFile, Zenon
  <2>5. i \in Nat
    BY <2>2, <2>3 DEF DispatchIInv, DispatchTypes
  <2>6. Confirmed(k, i, "reconcile") \in Records
    <3>1. record[k] \in Records
      BY Zenon DEF DispatchIInv, DispatchTypes
    <3>2. QED
      BY <2>5, <3>1, Zenon DEF Confirmed, Records
  <2>7. DispatchTypes'
    <3>1. record' \in [Keys -> Records]
      BY <2>1, <2>6, Zenon DEF DispatchIInv, DispatchTypes
    <3>2. QED
      BY <1>1, <1>4, <3>1, Zenon DEF DispatchIInv, DispatchTypes
  <2>8. ConfirmedIsOwn'
    <3> SUFFICES ASSUME NEW q \in Keys, record'[q].status = "SUCCEEDED"
                 PROVE  /\ record'[q].run \in DOMAIN runs[FileOf[q]]
                        /\ runs[FileOf[q]][record'[q].run].title = q
                        /\ record'[q].via = "reconcile" =>
                             runs[FileOf[q]][record'[q].run].state = "success"
      BY <1>1, Zenon DEF ConfirmedIsOwn
    <3>1. CASE q = k
      <4>1. record'[q].run = i
        BY <2>1, <3>1, Zenon DEF Confirmed, DispatchIInv, DispatchTypes
      <4>2. QED
        BY <2>2, <2>4, <3>1, <4>1, Zenon
    <3>2. CASE q # k
      <4>1. record'[q] = record[q]
        BY <2>1, <3>2, Zenon DEF DispatchIInv, DispatchTypes
      <4>2. QED
        BY <4>1, Zenon DEF DispatchIInv, ConfirmedIsOwn
    <3>3. QED
      BY <3>1, <3>2, Zenon
  <2>9. QED
    BY <1>1, <1>5, <2>7, <2>8, Zenon DEF DispatchIInv
<1>8. QED
  BY <1>6, <1>7, Zenon DEF ReconcileBegins, ListFails, FindsNothing,
     FindsUnfinished

\* The passing of time disturbs nothing.
LEMMA ClockKeeps ==
  ASSUME DispatchIInv, clock' \in Nat, clock' >= Skew,
         UNCHANGED <<runs, request, at, outcome, record, scan>>
  PROVE  DispatchIInv'
<1>1. DispatchTypes'
  BY Zenon DEF DispatchIInv, DispatchTypes
<1>2. RunsAreOwn'
  BY RunsStay, Zenon
<1>3. ConfirmedIsOwn'
  BY ConfirmedStays, Zenon
<1>4. DispatchProgress'
  BY Zenon DEF DispatchIInv, DispatchProgress
<1>5. QED
  BY <1>1, <1>2, <1>3, <1>4, Zenon DEF DispatchIInv

\* Every step preserves the invariant.
LEMMA NextDispatch ==
  ASSUME Configured, DispatchIInv, [DispatchNext]_dispatchVars
  PROVE  DispatchIInv'
<1>1. ASSUME NEW k \in Keys, Arrives(k) PROVE DispatchIInv'
  <2>1. FileOf[k] \in Workflows
    BY Zenon DEF Configured
  <2>2. QED
    BY <1>1, <2>1, AppendKeeps, Zenon DEF Arrives
<1>2. ASSUME NEW f \in Workflows, OthersDispatch(f) PROVE DispatchIInv'
  BY <1>2, AppendKeeps, Zenon DEF OthersDispatch, execute
<1>3. CASE MinutePasses
  <2>1. clock' \in Nat /\ clock' >= Skew
    BY <1>3 DEF MinutePasses, DispatchIInv, DispatchTypes, Configured
  <2>2. QED
    BY <1>3, <2>1, ClockKeeps, Zenon DEF MinutePasses, execute
<1>4. CASE OutagesEnd \/ UNCHANGED dispatchVars
  <2>1. clock' \in Nat /\ clock' >= Skew
    BY <1>4, Zenon DEF OutagesEnd, dispatchVars, DispatchIInv, DispatchTypes
  <2>2. QED
    BY <1>4, <2>1, ClockKeeps, Zenon DEF OutagesEnd, dispatchVars, execute
<1>5. QED
  BY <1>1, <1>2, <1>3, <1>4, ExecuteKeeps, CompleteKeeps, RunEndsKeeps,
     ReconcileKeeps, Zenon DEF DispatchNext

\* It holds in every state of every behaviour of the adapter.
LEMMA DispatchInvariant == DispatchSpec => []DispatchIInv
<1>1. DispatchInit => DispatchIInv
  BY DispatchAssumption, InitDispatch, Zenon
<1>2. DispatchIInv /\ [DispatchNext]_dispatchVars => DispatchIInv'
  BY DispatchAssumption, NextDispatch, Zenon
<1>3. QED
  BY <1>1, <1>2, PTL DEF DispatchSpec

\* Whatever the keys, workflows and clocks: an error classified TERMINAL means that
\* GitHub made no run for the key and will make none (dispatch).
THEOREM TerminalErrorsAreHarmless == DispatchSpec => []TerminalIsHarmless
<1>1. DispatchIInv => TerminalIsHarmless
  BY DispatchAssumption, RunOfKey, Zenon DEF DispatchIInv, DispatchProgress, TerminalIsHarmless
<1>2. QED
  BY <1>1, DispatchInvariant, PTL

\* Whatever GitHub lists, a confirmed record names a run of its own key in its own
\* workflow, and one that succeeded when Reconcile confirmed it (findRun).
THEOREM ConfirmedRunsAreOwn == DispatchSpec => []ConfirmedIsOwn
<1>1. DispatchIInv => ConfirmedIsOwn
  BY Zenon DEF DispatchIInv
<1>2. QED
  BY <1>1, DispatchInvariant, PTL
=============================================================================
