---------------------------- MODULE StoreProofs -----------------------------
(***************************************************************************)
(* Proofs about the PostgreSQL store. The projection history of a run is   *)
(* linear for every set of writers and every number of versions, rebuilds  *)
(* and outside edits; the transactions of the store implement              *)
(* RunProjection, for every set of callers and every size of the pool, and *)
(* so inherit it. And the workflow outbox starts every run at most once,   *)
(* for any processes, calls and crashes.                                   *)
(***************************************************************************)
EXTENDS RunStore, WorkflowOutbox, Sequences, TLAPS

-----------------------------------------------------------------------------
(* RunProjection *)

\* What the row and a rebuild hold comes from events that exist.
Backed ==
    /\ row # None => events[row.version] # "none"
    /\ rebuild # None => events[rebuild.version] # "none"

IInv == TypeOK /\ Backed /\ HistoryIsLinear

\* The store before the run is created satisfies the invariant.
LEMMA InitIInv == Init => IInv
  BY ProjectionAssumption, WritersAssumption
  DEF Init, IInv, TypeOK, Backed, HistoryIsLinear, Versions, Contents, None

\* One step per action; only Update and the two halves of a rebuild disturb more
\* than the types.
LEMMA NextIInv == IInv /\ [Next]_vars => IInv'
  <1> SUFFICES ASSUME IInv, [Next]_vars PROVE IInv'
    OBVIOUS
  <1> USE ProjectionAssumption, WritersAssumption
  <1> USE DEF IInv, TypeOK, Versions, Contents
  <1>0. CASE Create
    <2>1. /\ events[1] = "none" /\ events' = [events EXCEPT ![1] = "created"]
          /\ row' = [version |-> 1, content |-> "created"]
          /\ commits' = [commits EXCEPT ![1] = @ + 1]
          /\ 1 \in Versions /\ UNCHANGED <<copy, rebuild, damage>>
      BY <1>0 DEF Create, InsertEvent, NewEvent, Store
    <2>2. TypeOK'
      <3>1. row' \in [version : Versions, content : Contents \cup {"damaged"}] \cup {None}
        BY <2>1, Zenon
      <3>2. events' \in [Versions -> Contents \cup {"none"}]
        BY <2>1, Zenon
      <3>3. commits' \in [Versions -> Nat]
        BY <2>1
      <3> QED BY <2>1, <3>1, <3>2, <3>3, Zenon
    <2>3. Backed'
      BY <2>1, Zenon DEF Backed, None
    <2>4. HistoryIsLinear'
      <3>1. \A v \in Versions : commits'[v] = IF events'[v] = "none" THEN 0 ELSE 1
        BY <2>1 DEF HistoryIsLinear
      <3>2. \A v \in Versions : events'[v] # "none" =>
              \A u \in 1 .. v : events'[u] # "none"
        BY <2>1 DEF HistoryIsLinear
      <3> QED BY <3>1, <3>2, Zenon DEF HistoryIsLinear
    <2> QED BY <2>2, <2>3, <2>4, Zenon
  <1>1. CASE \E w \in Writers : Read(w)
    BY <1>1 DEF Read, Backed, HistoryIsLinear
  <1>2. ASSUME NEW w \in Writers, Update(w) PROVE IInv'
    <2> DEFINE next == copy[w] + 1
    <2>1. /\ next \in Versions /\ events[next] = "none"
          /\ events' = [events EXCEPT ![next] = w]
          /\ row' = [version |-> next, content |-> w]
          /\ commits' = [commits EXCEPT ![next] = @ + 1]
          /\ copy[w] # 0 /\ row.version = copy[w] /\ next = row.version + 1
          /\ copy' = [copy EXCEPT ![w] = 0] /\ UNCHANGED <<rebuild, damage>>
      BY <1>2 DEF Update, InsertEvent, NewEvent, Store, None
    <2>2. row.version \in Versions /\ events[row.version] # "none"
      <3>1. row # None
        BY <2>1 DEF None
      <3> QED BY <3>1, Zenon DEF Backed
    <2>3. TypeOK'
      <3>1. row' \in [version : Versions, content : Contents \cup {"damaged"}] \cup {None}
        BY <2>1, Zenon
      <3>2. events' \in [Versions -> Contents \cup {"none"}]
        BY <2>1, Zenon
      <3>3. commits' \in [Versions -> Nat]
        BY <2>1
      <3>4. copy' \in [Writers -> 0 .. MaxVersion]
        BY <2>1
      <3> QED BY <2>1, <3>1, <3>2, <3>3, <3>4, Zenon
    <2>4. Backed'
      BY <2>1, Zenon DEF Backed, None
    <2>5. HistoryIsLinear'
      <3>1. \A v \in Versions : commits'[v] = IF events'[v] = "none" THEN 0 ELSE 1
        BY <2>1 DEF HistoryIsLinear
      <3>2. \A v \in Versions : events'[v] # "none" =>
              \A u \in 1 .. v : events'[u] # "none"
        BY <2>1, <2>2 DEF HistoryIsLinear
      <3> QED BY <3>1, <3>2, Zenon DEF HistoryIsLinear
    <2> QED BY <2>3, <2>4, <2>5, Zenon
  <1>3. CASE \E w \in Writers : UpdateFails(w)
    BY <1>3 DEF UpdateFails, Backed, HistoryIsLinear
  <1>4. CASE RebuildReads
    <2>1. PICK v \in Versions : /\ events[v] # "none"
                                /\ rebuild' = [version |-> v, content |-> events[v]]
      BY <1>4, Zenon DEF RebuildReads
    <2> QED BY <1>4, <2>1, Zenon DEF RebuildReads, Backed, HistoryIsLinear
  <1>5. CASE RebuildWrites
    BY <1>5, Zenon DEF RebuildWrites, Backed, HistoryIsLinear, None
  <1>6. CASE RebuildFails
    BY <1>6, Zenon DEF RebuildFails, Backed, HistoryIsLinear, None
  <1>7. CASE Damage
    <2>1. /\ row'.version = row.version
          /\ row' \in [version : Versions, content : Contents \cup {"damaged"}]
      BY <1>7, Zenon DEF Damage
    <2>2. damage' \in 0 .. MaxDamage
      BY <1>7 DEF Damage
    <2> QED BY <1>7, <2>1, <2>2, Zenon DEF Damage, Backed, HistoryIsLinear, None
  <1>8. CASE UNCHANGED vars
    BY <1>8, Zenon DEF vars, Backed, HistoryIsLinear
  <1> QED BY <1>0, <1>1, <1>2, <1>3, <1>4, <1>5, <1>6, <1>7, <1>8, Zenon DEF Next

\* A version of a run is produced by one update only, and its projection event
\* keeps what that update wrote, whatever rebuilds write to the row.
THEOREM LinearHistory == Spec => []HistoryIsLinear
  BY InitIInv, NextIInv, PTL DEF Spec, IInv

-----------------------------------------------------------------------------
(* RunStore *)

\* What a transaction relies on between its statements: a call that waits has
\* read something, and the one that has written the run still finds it as its
\* statement found it, because nobody else can commit a change to it.
Locked ==
    /\ \A c, e \in Callers : stage[c] = "written" /\ stage[e] = "written" => c = e
    /\ \A c \in Creators : stage[c] = "written" => row = None /\ NewEvent(1)
    /\ \A w \in Writers : stage[w] # "idle" => copy[w] # 0 /\ copy[w] < MaxVersion
    /\ \A w \in Writers : stage[w] = "written" =>
         row.version = copy[w] /\ NewEvent(copy[w] + 1)
    /\ stage["rebuild"] # "idle" => rebuild # None
    /\ row = None => NewEvent(1)

StoreIInv ==
    /\ IInv
    /\ stage \in [Callers -> Stages]
    /\ Locked

-----------------------------------------------------------------------------

\* No transaction is open in the beginning.
LEMMA StoreInitIInv == StoreInit => StoreIInv
  BY InitIInv, StoreAssumption, ProjectionAssumption
  DEF StoreInit, StoreIInv, Locked, Callers, Stages, Init, NewEvent, Versions, None

\* Every step of a transaction is a step of RunProjection or leaves it alone: a
\* commit is the whole operation, since the lock kept what it relies on.
LEMMA StoreStepIsStep == StoreIInv /\ [StoreNext]_storeVars => [Next]_vars
  <1> SUFFICES ASSUME StoreIInv, [StoreNext]_storeVars PROVE [Next]_vars
    OBVIOUS
  <1> USE StoreAssumption DEF StoreIInv, Callers
  <1>1. ASSUME NEW c \in Creators, CreateStep(c) PROVE [Next]_vars
    <2>1. CASE CommitCreate(c)
      <3>1. row = None /\ NewEvent(1)
        BY <2>1, Zenon DEF CommitCreate, Locked
      <3>2. Create
        BY <2>1, <3>1, Zenon DEF CommitCreate, Create, InsertEvent
      <3> QED BY <3>2, Zenon DEF Next
    <2> QED BY <1>1, <2>1, Zenon DEF CreateStep, CallCreate, Insert, ReadExisting,
               FailCreate
  <1>2. ASSUME NEW w \in Writers, UpdateStep(w) PROVE [Next]_vars
    <2>1. CASE CommitUpdate(w)
      <3>1. /\ copy[w] # 0 /\ copy[w] < MaxVersion
            /\ row.version = copy[w] /\ NewEvent(copy[w] + 1)
        BY <2>1, Zenon DEF CommitUpdate, Locked
      <3>2. copy[w] \in Nat /\ MaxVersion \in Nat
        BY ProjectionAssumption DEF IInv, TypeOK
      <3>3. Update(w)
        BY <2>1, <3>1, <3>2 DEF CommitUpdate, Update, InsertEvent
      <3> QED BY <3>3, Zenon DEF Next
    <2>2. CASE CallUpdate(w)
      BY <2>2, Zenon DEF CallUpdate, Next
    <2>3. CASE UpdateMisses(w)
      BY <2>3, Zenon DEF UpdateMisses, Next
    <2>4. CASE FailUpdate(w)
      BY <2>4, Zenon DEF FailUpdate, Next
    <2> QED BY <1>2, <2>1, <2>2, <2>3, <2>4, Zenon DEF UpdateStep, UpdateRow
  <1>3. CASE \E c \in Callers : Begin(c)
    BY <1>3, Zenon DEF Begin
  <1>4. CASE RebuildStep
    BY <1>4, Zenon DEF RebuildStep, CallRebuild, RebuildRow, CommitRebuild,
       FailRebuild, Next
  <1>5. CASE DamageRow
    BY <1>5, Zenon DEF DamageRow, Next
  <1>6. CASE UNCHANGED storeVars
    BY <1>6, Zenon DEF storeVars
  <1> QED BY <1>1, <1>2, <1>3, <1>4, <1>5, <1>6, Zenon DEF StoreNext

\* One step per action; a commit is the only step that changes what another
\* transaction may rely on, and then nobody else has written.
LEMMA StoreNextIInv == StoreIInv /\ [StoreNext]_storeVars => StoreIInv'
  <1> SUFFICES ASSUME StoreIInv, [StoreNext]_storeVars PROVE StoreIInv'
    OBVIOUS
  <1> USE StoreAssumption, ProjectionAssumption
  <1>1. IInv'
    BY StoreStepIsStep, NextIInv, Zenon DEF StoreIInv
  <1>2. /\ stage \in [Callers -> Stages] /\ Locked
        /\ copy \in [Writers -> 0 .. MaxVersion]
        /\ MaxVersion \in Nat /\ 1 \in Versions
        /\ row # None => row.version \in 1 .. MaxVersion
    BY DEF StoreIInv, IInv, TypeOK, Versions
  <1>3. SUFFICES stage' \in [Callers -> Stages] /\ Locked'
    BY <1>1, Zenon DEF StoreIInv
  <1> HIDE DEF StoreIInv
  <1> USE <1>2 DEF Callers, Stages, Locked
  <1>4. ASSUME NEW c \in Creators, CallCreate(c)
        PROVE stage' \in [Callers -> Stages] /\ Locked'
    BY <1>4 DEF CallCreate, Goto, vars, NewEvent
  <1>5. ASSUME NEW c \in Creators, Insert(c)
        PROVE stage' \in [Callers -> Stages] /\ Locked'
    BY <1>5 DEF Insert, Unlocked, Goto, vars, NewEvent
  <1>6. ASSUME NEW c \in Creators, ReadExisting(c) \/ FailCreate(c)
        PROVE stage' \in [Callers -> Stages] /\ Locked'
    BY <1>6 DEF ReadExisting, FailCreate, Release, Goto, vars, NewEvent
  <1>7. ASSUME NEW c \in Creators, CommitCreate(c)
        PROVE stage' \in [Callers -> Stages] /\ Locked'
    BY <1>7, Zenon DEF CommitCreate, Store, Release, Goto, None
  <1>8. ASSUME NEW w \in Writers, CallUpdate(w)
        PROVE stage' \in [Callers -> Stages] /\ Locked'
    BY <1>8 DEF CallUpdate, Read, Goto, NewEvent
  <1>9. ASSUME NEW w \in Writers, UpdateRow(w)
        PROVE stage' \in [Callers -> Stages] /\ Locked'
    BY <1>9 DEF UpdateRow, Unlocked, Goto, vars, NewEvent
  <1>10. ASSUME NEW w \in Writers, UpdateMisses(w) \/ FailUpdate(w)
         PROVE stage' \in [Callers -> Stages] /\ Locked'
    BY <1>10 DEF UpdateMisses, FailUpdate, UpdateFails, Release, Goto, NewEvent
  <1>11. ASSUME NEW w \in Writers, CommitUpdate(w)
         PROVE stage' \in [Callers -> Stages] /\ Locked'
    BY <1>11 DEF CommitUpdate, Store, Release, Goto, None
  <1>12. ASSUME NEW c \in Callers, Begin(c)
         PROVE stage' \in [Callers -> Stages] /\ Locked'
    BY <1>12 DEF Begin, Goto, vars, NewEvent
  <1>13. CASE CallRebuild
    BY <1>13 DEF CallRebuild, RebuildReads, Goto, None, NewEvent
  <1>14. CASE RebuildRow
    BY <1>14 DEF RebuildRow, Unlocked, Goto, vars, NewEvent
  <1>15. CASE CommitRebuild
    BY <1>15 DEF CommitRebuild, RebuildWrites, Release, Goto, NewEvent
  <1>16. CASE FailRebuild
    BY <1>16 DEF FailRebuild, RebuildFails, Release, Goto, NewEvent
  <1>17. CASE DamageRow
    BY <1>17 DEF DamageRow, Unlocked, Damage, None, NewEvent
  <1>18. CASE UNCHANGED storeVars
    BY <1>18 DEF storeVars, vars, NewEvent
  <1> QED
    BY <1>4, <1>5, <1>6, <1>7, <1>8, <1>9, <1>10, <1>11, <1>12, <1>13, <1>14, <1>15,
       <1>16, <1>17, <1>18, Zenon
    DEF StoreNext, CreateStep, UpdateStep, RebuildStep

\* The transactions of the store, with their locks, failures and connections,
\* show nothing but whole operations of RunProjection.
THEOREM StoreIsAtomic == StoreSpec => AtomicStore
  <1>1. StoreInit => Init
    BY Zenon DEF StoreInit
  <1> QED
    BY <1>1, StoreInitIInv, StoreNextIInv, StoreStepIsStep, PTL
    DEF StoreSpec, AtomicStore, Spec

\* A version of a run is produced by one transaction only, whatever other
\* transactions are open and however they end.
THEOREM StoreHistory == StoreSpec => []HistoryIsLinear
  BY StoreIsAtomic, LinearHistory, PTL DEF AtomicStore

-----------------------------------------------------------------------------
(* What CreateRunAtomic answers *)

\* A unique violation was found, and an answer given, once the run was there.
AnswerInv ==
    /\ answer \in [Creators -> {"none", "created", "existing", "error"}]
    /\ \A c \in Creators : stage[c] = "violated" => row # None
    /\ OneCreation

\* A run that is stored stays stored: no rebuild and no edit removes the row.
LEMMA RowStays == StoreIInv /\ [StoreNext]_storeVars /\ row # None => row' # None
  <1> SUFFICES ASSUME StoreIInv, [StoreNext]_storeVars, row # None PROVE row' # None
    OBVIOUS
  <1>1. [Next]_vars
    BY StoreStepIsStep, Zenon
  <1>2. copy \in [Writers -> Nat] /\ row.version # 0
    BY ProjectionAssumption DEF StoreIInv, IInv, TypeOK, Versions
  <1>3. CASE Create
    BY <1>3, Zenon DEF Create
  <1>4. ASSUME NEW w \in Writers, Read(w) \/ UpdateFails(w) PROVE row' # None
    BY <1>4, Zenon DEF Read, UpdateFails
  <1>5. ASSUME NEW w \in Writers, Update(w) PROVE row' # None
    BY <1>2, <1>5 DEF Update, Store, None
  <1>6. CASE RebuildReads \/ RebuildWrites \/ RebuildFails
    BY <1>6, Zenon DEF RebuildReads, RebuildWrites, RebuildFails
  <1>7. CASE Damage
    BY <1>7, Zenon DEF Damage, None
  <1>8. CASE UNCHANGED vars
    BY <1>8, Zenon DEF vars
  <1> QED BY <1>1, <1>3, <1>4, <1>5, <1>6, <1>7, <1>8, Zenon DEF Next

\* Only a commit answers that the run was created, and it finds no run: nobody
\* was told of one before.
LEMMA NextAnswerInv ==
  StoreIInv /\ AnswerInv /\ [StoreNext]_storeVars => AnswerInv'
  <1> SUFFICES ASSUME StoreIInv, AnswerInv, [StoreNext]_storeVars PROVE AnswerInv'
    OBVIOUS
  <1>1. row # None => row' # None
    BY RowStays, Zenon
  <1>2. stage \in [Callers -> Stages] /\ Creators \subseteq Callers
    BY Zenon DEF StoreIInv, Callers
  <1>3. ASSUME NEW c \in Creators, CommitCreate(c) PROVE AnswerInv'
    <2>1. row = None /\ row' # None
      BY <1>3, Zenon DEF StoreIInv, Locked, CommitCreate, Store, None
    <2>2. \A e \in Creators : answer[e] \notin {"created", "existing"} /\ stage[e] # "violated"
      BY <2>1, Zenon DEF AnswerInv, OneCreation
    <2>3. stage' = [stage EXCEPT ![c] = "idle"]
      BY <1>3, Zenon DEF CommitCreate, Release, Goto
    <2>4. PICK a \in {"created", "error"} : answer' = [answer EXCEPT ![c] = a]
      BY <1>3, Zenon DEF CommitCreate
    <2> QED BY <1>2, <2>1, <2>2, <2>3, <2>4, Zenon DEF AnswerInv, OneCreation
  <1>4. ASSUME NEW c \in Creators, ReadExisting(c) PROVE AnswerInv'
    <2>1. /\ row # None /\ stage' = [stage EXCEPT ![c] = "idle"]
          /\ answer' = [answer EXCEPT ![c] = "existing"]
      BY <1>4, Zenon DEF ReadExisting, Release, Goto, AnswerInv
    <2> QED BY <1>1, <1>2, <2>1, Zenon DEF AnswerInv, OneCreation
  <1>5. ASSUME NEW c \in Creators, CallCreate(c) \/ FailCreate(c) PROVE AnswerInv'
    <2>1. PICK a \in {"none", "error"} : answer' = [answer EXCEPT ![c] = a]
      BY <1>5, Zenon DEF CallCreate, FailCreate
    <2>2. PICK s \in {"beginning", "idle"} : stage' = [stage EXCEPT ![c] = s]
      BY <1>5, Zenon DEF CallCreate, FailCreate, Release, Goto
    <2> QED BY <1>1, <1>2, <2>1, <2>2, Zenon DEF AnswerInv, OneCreation
  <1>6. ASSUME NEW c \in Creators, Insert(c) PROVE AnswerInv'
    <2>1. /\ stage' = [stage EXCEPT ![c] = IF row = None THEN "written" ELSE "violated"]
          /\ UNCHANGED <<row, answer>>
      BY <1>6, Zenon DEF Insert, Goto, vars
    <2> QED BY <1>2, <2>1, Zenon DEF AnswerInv, OneCreation
  <1>7. ASSUME answer' = answer,
               \A c \in Creators : stage'[c] = "violated" => stage[c] = "violated"
        PROVE  AnswerInv'
    BY <1>1, <1>7, Zenon DEF AnswerInv, OneCreation
  <1>8. ASSUME NEW w \in Writers, UpdateStep(w) PROVE AnswerInv'
    <2>1. answer' = answer /\ \E s \in Stages \ {"violated"} : stage' = [stage EXCEPT ![w] = s]
      BY <1>8, Zenon DEF UpdateStep, CallUpdate, UpdateRow, UpdateMisses,
         CommitUpdate, FailUpdate, Release, Goto, Stages
    <2> QED BY <1>2, <1>7, <2>1, Zenon
  <1>9. ASSUME NEW c \in Callers, Begin(c) PROVE AnswerInv'
    <2>1. answer' = answer /\ stage' = [stage EXCEPT ![c] = "open"]
      BY <1>9, Zenon DEF Begin, Goto
    <2> QED BY <1>2, <1>7, <2>1, Zenon
  <1>10. CASE RebuildStep
    <2>1. answer' = answer /\ \E s \in Stages \ {"violated"} : stage' = [stage EXCEPT !["rebuild"] = s]
      BY <1>10, Zenon DEF RebuildStep, CallRebuild, RebuildRow, CommitRebuild,
         FailRebuild, Release, Goto, Stages
    <2> QED BY <1>2, <1>7, <2>1, Zenon
  <1>11. CASE DamageRow \/ UNCHANGED storeVars
    BY <1>7, <1>11, Zenon DEF DamageRow, storeVars
  <1> QED BY <1>3, <1>4, <1>5, <1>6, <1>8, <1>9, <1>10, <1>11, Zenon DEF StoreNext,
             CreateStep

\* However many callers send a request at once and however their transactions end,
\* at most one is told that it created the run, and nobody is told of a run that
\* is not stored.
THEOREM CreatedOnce == StoreSpec => []OneCreation
  <1>1. StoreInit => AnswerInv
    BY Zenon DEF StoreInit, AnswerInv, OneCreation, Callers
  <1>2. AnswerInv => OneCreation
    BY Zenon DEF AnswerInv
  <1> QED
    BY <1>1, <1>2, StoreInitIInv, StoreNextIInv, NextAnswerInv, PTL DEF StoreSpec

-----------------------------------------------------------------------------
(* WorkflowOutbox *)

OutboxTypes ==
    /\ outbox \in Seq(IDs)
    /\ published \subseteq IDs
    /\ workflows \in [IDs -> Nat]
    /\ pc \in [Calls -> {"idle", "creating", "starting", "marking", "done"}]
    /\ told \in [Calls -> {"none", "created", "existing", "error"}]
    /\ batch \in [Processes -> SUBSET DOMAIN outbox]
    /\ rpc \in [Processes -> {"reading", "starting", "marking"}]

\* A workflow is started once, for a run the store has, and before its row is
\* marked.
Started ==
    /\ \A id \in published : workflows[id] = 1
    /\ \A id \in IDs : workflows[id] <= 1 /\ (workflows[id] > 0 => id \in Created)

\* The call that created the run: it is on the way to its answer or has it.
Creator(c) == pc[c] \in {"starting", "marking"} \/ told[c] = "created"

\* A run has one creator, which has not answered before its row is marked.
OneCreator ==
    /\ \A c \in Calls :
          /\ Creator(c) => RequestID[c] \in Created
          /\ pc[c] # "done" => told[c] = "none"
          /\ pc[c] = "marking" => workflows[RequestID[c]] = 1
    /\ \A c, e \in Calls : Creator(c) /\ Creator(e) /\ RequestID[c] = RequestID[e] => c = e

\* A process marks a row whose workflow it has seen started.
MarkedIsStarted ==
    \A p \in Processes : rpc[p] = "marking" =>
        \A i \in Current(p) : workflows[outbox[i]] = 1

OutboxIInv == OutboxTypes /\ Started /\ OneCreator /\ MarkedIsStarted

-----------------------------------------------------------------------------

\* Nothing is requested, created or recovered at the beginning.
LEMMA InitOutbox == ASSUME OutboxInit PROVE OutboxIInv
<1>1. OutboxTypes
  BY DEF OutboxInit, OutboxTypes
<1>2. Started
  BY DEF OutboxInit, Started
<1>3. OneCreator
  BY Zenon DEF OutboxInit, OneCreator, Creator
<1>4. MarkedIsStarted
  BY Zenon DEF OutboxInit, MarkedIsStarted
<1>5. QED
  BY <1>1, <1>2, <1>3, <1>4, Zenon DEF OutboxIInv

\* Every row of the outbox is the row of a run, and every call asks for one.
LEMMA Rows ==
  ASSUME OutboxIInv
  PROVE  /\ \A i \in DOMAIN outbox : outbox[i] \in IDs /\ outbox[i] \in Created
         /\ \A c \in Calls : RequestID[c] \in IDs
         /\ \A p \in Processes : \A i \in Current(p) : i \in batch[p] /\ i \in DOMAIN outbox
<1>1. \A i \in DOMAIN outbox : outbox[i] \in IDs
  BY DEF OutboxIInv, OutboxTypes
<1>2. \A i \in DOMAIN outbox : outbox[i] \in Created
  BY Zenon DEF Created
<1>3. \A c \in Calls : RequestID[c] \in IDs
  BY Zenon DEF IDs
<1>4. \A p \in Processes : \A i \in Current(p) : i \in batch[p] /\ i \in DOMAIN outbox
  BY Zenon DEF Current, OutboxIInv, OutboxTypes
<1>5. QED
  BY <1>1, <1>2, <1>3, <1>4, Zenon

\* The workflow of a created run is started, or was: nothing else changes at
\* Temporal.
LEMMA StartKeeps ==
  ASSUME OutboxIInv, NEW id \in IDs, id \in Created, StartRelease(id),
         UNCHANGED <<outbox, published>>
  PROVE  /\ workflows' \in [IDs -> Nat] /\ Started' /\ workflows'[id] = 1
         /\ \A x \in IDs : workflows[x] = 1 => workflows'[x] = 1
<1>1. workflows \in [IDs -> Nat] /\ workflows[id] \in Nat /\ workflows[id] <= 1
  BY Zenon DEF OutboxIInv, OutboxTypes, Started
<1>2. workflows' \in [IDs -> Nat] /\ workflows'[id] = 1
  BY <1>1 DEF StartRelease
<1>3. \A x \in IDs : x # id => workflows'[x] = workflows[x]
  BY <1>1, Zenon DEF StartRelease
<1>4. Created' = Created
  BY Zenon DEF Created
<1>5. published \subseteq IDs
  BY Zenon DEF OutboxIInv, OutboxTypes
<1>6. Started'
  BY <1>2, <1>3, <1>4, <1>5 DEF OutboxIInv, Started
<1>7. QED
  BY <1>2, <1>3, <1>6, Zenon

\* A call moves on: it creates nothing new unless it is the creator already.
LEMMA CallKeeps ==
  ASSUME OutboxIInv, NEW c \in Calls,
         NEW place \in {"creating", "starting", "marking", "done"},
         pc' = [pc EXCEPT ![c] = place],
         told' \in [Calls -> {"none", "created", "existing", "error"}],
         \A e \in Calls : e # c => told'[e] = told[e],
         place # "done" => told'[c] = "none",
         place \in {"starting", "marking"} \/ told'[c] = "created" => Creator(c),
         place = "marking" => workflows'[RequestID[c]] = 1,
         \A x \in IDs : workflows[x] = 1 => workflows'[x] = 1,
         UNCHANGED outbox
  PROVE  /\ OneCreator'
         /\ pc' \in [Calls -> {"idle", "creating", "starting", "marking", "done"}]
<1>1. pc' \in [Calls -> {"idle", "creating", "starting", "marking", "done"}]
  BY Zenon DEF OutboxIInv, OutboxTypes
<1>2. pc'[c] = place /\ \A e \in Calls : e # c => pc'[e] = pc[e]
  BY Zenon DEF OutboxIInv, OutboxTypes
<1>3. \A e \in Calls : Creator(e)' => Creator(e)
  BY <1>2, Zenon DEF Creator
<1>4. Created' = Created
  BY Zenon DEF Created
<1>5. \A e \in Calls : RequestID[e] \in IDs
  BY Rows, Zenon
<1>6. ASSUME NEW e \in Calls
      PROVE  /\ Creator(e)' => RequestID[e] \in Created'
             /\ pc'[e] # "done" => told'[e] = "none"
             /\ pc'[e] = "marking" => workflows'[RequestID[e]] = 1
  BY <1>2, <1>3, <1>4, <1>5 DEF OutboxIInv, OneCreator
<1>7. \A e, d \in Calls : Creator(e)' /\ Creator(d)' /\ RequestID[e] = RequestID[d] => e = d
  BY <1>3, Zenon DEF OutboxIInv, OneCreator
<1>8. QED
  BY <1>1, <1>6, <1>7, Zenon DEF OneCreator

\* The rows a process has read stay what they are, and started, while the outbox
\* only grows and no process reads or finishes.
LEMMA RecoveryStays ==
  ASSUME OutboxIInv, UNCHANGED <<batch, rpc>>,
         \A i \in DOMAIN outbox : i \in DOMAIN outbox' /\ outbox'[i] = outbox[i],
         \A x \in IDs : workflows[x] = 1 => workflows'[x] = 1
  PROVE  /\ MarkedIsStarted'
         /\ batch' \in [Processes -> SUBSET DOMAIN outbox']
<1>1. batch' \in [Processes -> SUBSET DOMAIN outbox']
  BY Zenon DEF OutboxIInv, OutboxTypes
<1>2. \A p \in Processes : Current(p)' = Current(p)
  BY Zenon DEF Current
<1>3. MarkedIsStarted'
  BY <1>2, Rows DEF OutboxIInv, MarkedIsStarted
<1>4. QED
  BY <1>1, <1>3, Zenon

\* A call that is requested, finds an existing run or fails changes no run.
LEMMA IdleCallKeeps ==
  ASSUME OutboxIInv, NEW c \in Calls, Request(c) \/ FindsExisting(c) \/ Fails(c)
  PROVE  OutboxIInv'
<1>1. /\ outbox' = outbox /\ published' = published /\ workflows' = workflows
      /\ batch' = batch /\ rpc' = rpc
  BY Zenon DEF Request, FindsExisting, Fails, recovery
<1>2. PICK place \in {"creating", "done"} :
        /\ pc' = [pc EXCEPT ![c] = place]
        /\ place = "creating" => told' = told /\ pc[c] = "idle"
        /\ place = "done" => \E what \in {"existing", "error"} :
                               told' = [told EXCEPT ![c] = what]
  BY Zenon DEF Request, FindsExisting, Fails, Continue, Answer
<1>3. /\ told' \in [Calls -> {"none", "created", "existing", "error"}]
      /\ \A e \in Calls : e # c => told'[e] = told[e]
      /\ place # "done" => told'[c] = "none"
      /\ told'[c] # "created"
  <2>1. /\ told \in [Calls -> {"none", "created", "existing", "error"}]
        /\ pc[c] # "done" => told[c] = "none"
    BY Zenon DEF OutboxIInv, OutboxTypes, OneCreator
  <2>2. CASE place = "creating"
    BY <1>2, <2>1, <2>2, Zenon
  <2>3. CASE place = "done"
    <3>1. PICK what \in {"existing", "error"} : told' = [told EXCEPT ![c] = what]
      BY <1>2, <2>3, Zenon
    <3>2. QED
      BY <2>1, <2>3, <3>1, Zenon
  <2>4. QED
    BY <2>2, <2>3, Zenon
<1>4. OneCreator' /\ pc' \in [Calls -> {"idle", "creating", "starting", "marking", "done"}]
  BY <1>1, <1>2, <1>3, CallKeeps, Zenon
<1>5. MarkedIsStarted'
  BY <1>1, RecoveryStays, Zenon
<1>6. Started'
  BY <1>1, Zenon DEF OutboxIInv, Started, Created
<1>7. OutboxTypes'
  BY <1>1, <1>3, <1>4, Zenon DEF OutboxIInv, OutboxTypes
<1>8. QED
  BY <1>4, <1>5, <1>6, <1>7, Zenon DEF OutboxIInv

\* A run is created by one call: nobody has its row yet.
LEMMA CreateKeeps ==
  ASSUME OutboxIInv, NEW c \in Calls, Creates(c)
  PROVE  OutboxIInv'
<1> DEFINE n == Len(outbox)
           id == RequestID[c]
<1>1. /\ pc[c] = "creating" /\ id \notin Created /\ id \in IDs
      /\ outbox' = Append(outbox, id) /\ published' = published /\ workflows' = workflows
      /\ batch' = batch /\ rpc' = rpc
  BY Rows, Zenon DEF Creates, recovery
<1>2. \/ pc' = [pc EXCEPT ![c] = "starting"] /\ told' = told
      \/ pc' = [pc EXCEPT ![c] = "done"] /\ told' = [told EXCEPT ![c] = "error"]
  BY Zenon DEF Creates, Continue, Answer
<1>3. /\ outbox' \in Seq(IDs) /\ n \in Nat /\ DOMAIN outbox = 1 .. n /\ DOMAIN outbox' = 1 .. n + 1
      /\ \A i \in 1 .. n : outbox'[i] = outbox[i]
      /\ outbox'[n + 1] = id
  BY <1>1 DEF OutboxIInv, OutboxTypes
<1> HIDE DEF n, id
<1>4. \A i \in DOMAIN outbox : i \in DOMAIN outbox' /\ outbox'[i] = outbox[i]
  BY <1>3
<1>5. Created' = Created \cup {id}
  <2>1. Created \subseteq Created' /\ id \in Created'
    BY <1>3 DEF Created
  <2>2. \A x \in Created' : x \in Created \cup {id}
    BY <1>3 DEF Created
  <2>3. QED
    BY <2>1, <2>2, Zenon
<1>6. MarkedIsStarted' /\ batch' \in [Processes -> SUBSET DOMAIN outbox']
  BY <1>1, <1>4, RecoveryStays, Zenon
<1>7. Started'
  BY <1>1, <1>5, Zenon DEF OutboxIInv, Started
<1>8. /\ pc' \in [Calls -> {"idle", "creating", "starting", "marking", "done"}]
      /\ told' \in [Calls -> {"none", "created", "existing", "error"}]
      /\ \A e \in Calls : e # c => pc'[e] = pc[e] /\ told'[e] = told[e]
      /\ pc'[c] \in {"starting", "done"} /\ told'[c] # "created"
      /\ pc'[c] # "done" => told'[c] = told[c]
  <2>1. /\ told \in [Calls -> {"none", "created", "existing", "error"}]
        /\ pc \in [Calls -> {"idle", "creating", "starting", "marking", "done"}]
        /\ told[c] = "none"
    BY <1>1, Zenon DEF OutboxIInv, OutboxTypes, OneCreator
  <2>2. CASE pc' = [pc EXCEPT ![c] = "starting"] /\ told' = told
    BY <2>1, <2>2, Zenon
  <2>3. CASE pc' = [pc EXCEPT ![c] = "done"] /\ told' = [told EXCEPT ![c] = "error"]
    BY <2>1, <2>3, Zenon
  <2>4. QED
    BY <1>2, <2>2, <2>3, Zenon
<1>9. OneCreator'
  <2>1. \A e \in Calls : e # c => (Creator(e)' <=> Creator(e))
    BY <1>8, Zenon DEF Creator
  <2>2. \A e \in Calls : Creator(e) => RequestID[e] # id
    BY <1>1, Zenon DEF OutboxIInv, OneCreator
  <2>3. RequestID[c] = id
    BY Zenon DEF id
  <2>4. ASSUME NEW e \in Calls
        PROVE  /\ Creator(e)' => RequestID[e] \in Created'
               /\ pc'[e] # "done" => told'[e] = "none"
               /\ pc'[e] = "marking" => workflows'[RequestID[e]] = 1
    <3>1. CASE e = c
      BY <1>1, <1>5, <1>8, <2>3, <3>1, Zenon DEF OutboxIInv, OneCreator
    <3>2. CASE e # c
      BY <1>1, <1>5, <1>8, <2>1, <3>2, Zenon DEF OutboxIInv, OneCreator
    <3>3. QED
      BY <3>1, <3>2, Zenon
  <2>5. ASSUME NEW e \in Calls, NEW d \in Calls, Creator(e)', Creator(d)',
               RequestID[e] = RequestID[d]
        PROVE  e = d
    BY <2>1, <2>2, <2>3, <2>5, Zenon DEF OutboxIInv, OneCreator
  <2>6. QED
    BY <2>4, <2>5, Zenon DEF OneCreator
<1>10. OutboxTypes'
  BY <1>1, <1>3, <1>6, <1>8, Zenon DEF OutboxIInv, OutboxTypes
<1>11. QED
  BY <1>6, <1>7, <1>9, <1>10, Zenon DEF OutboxIInv

\* The creator starts the workflow and marks the row of its run.
LEMMA CreatorKeeps ==
  ASSUME OutboxIInv, NEW c \in Calls, Starts(c) \/ Marks(c)
  PROVE  OutboxIInv'
<1> DEFINE id == RequestID[c]
<1>1. id \in IDs /\ id \in Created /\ Creator(c)
  BY Rows, Zenon DEF Starts, Marks, OutboxIInv, OneCreator, Creator
<1>2. outbox' = outbox /\ batch' = batch /\ rpc' = rpc
  BY Zenon DEF Starts, Marks, recovery
<1>3. /\ workflows' \in [IDs -> Nat] /\ published' \subseteq IDs
      /\ \A x \in IDs : workflows[x] = 1 => workflows'[x] = 1
      /\ workflows'[id] = 1
      /\ Started'
  <2>1. CASE Starts(c)
    <3>1. StartRelease(id) /\ published' = published
      BY <2>1, Zenon DEF Starts
    <3>2. QED
      BY <1>1, <1>2, <3>1, StartKeeps, Zenon DEF OutboxIInv, OutboxTypes
  <2>2. CASE Marks(c)
    <3>1. workflows' = workflows /\ published' = published \cup {id} /\ workflows[id] = 1
      BY <2>2, Zenon DEF Marks, MarkOutboxPublished, OutboxIInv, OneCreator
    <3>2. Created' = Created
      BY <1>2, Zenon DEF Created
    <3>3. QED
      BY <1>1, <3>1, <3>2, Zenon DEF OutboxIInv, OutboxTypes, Started
  <2>3. QED
    BY <2>1, <2>2, Zenon
<1>4. \/ pc' = [pc EXCEPT ![c] = "marking"] /\ told' = told /\ pc[c] = "starting"
      \/ /\ pc' = [pc EXCEPT ![c] = "done"]
         /\ \E what \in {"created", "error"} : told' = [told EXCEPT ![c] = what]
  BY Zenon DEF Starts, Marks, Continue, Answer
<1> HIDE DEF id
<1>5. \E place \in {"marking", "done"} :
        /\ pc' = [pc EXCEPT ![c] = place]
        /\ told' \in [Calls -> {"none", "created", "existing", "error"}]
        /\ \A e \in Calls : e # c => told'[e] = told[e]
        /\ place # "done" => told'[c] = "none"
  <2>1. /\ told \in [Calls -> {"none", "created", "existing", "error"}]
        /\ pc[c] # "done" => told[c] = "none"
    BY Zenon DEF OutboxIInv, OutboxTypes, OneCreator
  <2>2. CASE pc' = [pc EXCEPT ![c] = "marking"] /\ told' = told /\ pc[c] = "starting"
    BY <2>1, <2>2, Zenon
  <2>3. ASSUME NEW what \in {"created", "error"}, pc' = [pc EXCEPT ![c] = "done"],
               told' = [told EXCEPT ![c] = what]
        PROVE  /\ told' \in [Calls -> {"none", "created", "existing", "error"}]
               /\ \A e \in Calls : e # c => told'[e] = told[e]
    BY <2>1, <2>3, Zenon
  <2>4. QED
    BY <1>4, <2>2, <2>3, Zenon
<1>6. OneCreator' /\ pc' \in [Calls -> {"idle", "creating", "starting", "marking", "done"}]
  BY <1>1, <1>2, <1>3, <1>5, CallKeeps, Zenon DEF id
<1>7. MarkedIsStarted'
  BY <1>2, <1>3, RecoveryStays, Zenon
<1>8. OutboxTypes'
  BY <1>2, <1>3, <1>5, <1>6, Zenon DEF OutboxIInv, OutboxTypes
<1>9. QED
  BY <1>3, <1>6, <1>7, <1>8, Zenon DEF OutboxIInv

\* Recovery reads pending rows, or gives up, and has started nothing yet.
LEMMA ReadKeeps ==
  ASSUME OutboxIInv, NEW p \in Processes, NEW rows \in SUBSET DOMAIN outbox,
         NEW place \in {"reading", "starting"},
         batch' = [batch EXCEPT ![p] = rows], rpc' = [rpc EXCEPT ![p] = place],
         UNCHANGED <<outbox, workflows>>
  PROVE  /\ MarkedIsStarted'
         /\ batch' \in [Processes -> SUBSET DOMAIN outbox]
         /\ rpc' \in [Processes -> {"reading", "starting", "marking"}]
<1>1. /\ batch \in [Processes -> SUBSET DOMAIN outbox]
      /\ rpc \in [Processes -> {"reading", "starting", "marking"}]
  BY Zenon DEF OutboxIInv, OutboxTypes
<1>2. /\ batch' \in [Processes -> SUBSET DOMAIN outbox]
      /\ rpc' \in [Processes -> {"reading", "starting", "marking"}]
      /\ rpc'[p] # "marking"
      /\ \A q \in Processes : q # p => batch'[q] = batch[q] /\ rpc'[q] = rpc[q]
  BY <1>1, Zenon
<1>3. ASSUME NEW q \in Processes, rpc'[q] = "marking", NEW i \in Current(q)'
      PROVE  workflows'[outbox'[i]] = 1
  <2>1. q # p /\ rpc[q] = "marking" /\ i \in Current(q)
    BY <1>2, <1>3, Zenon DEF Current
  <2>2. QED
    BY <2>1, Zenon DEF OutboxIInv, MarkedIsStarted
<1>4. QED
  BY <1>2, <1>3, Zenon DEF MarkedIsStarted

\* Calls stay where they are when only recovery goes on.
LEMMA CallsStay ==
  ASSUME OutboxIInv, UNCHANGED <<outbox, pc, told>>,
         \A x \in IDs : workflows[x] = 1 => workflows'[x] = 1
  PROVE  OneCreator'
<1>1. Created' = Created
  BY Zenon DEF Created
<1>2. \A c \in Calls : Creator(c)' <=> Creator(c)
  BY Zenon DEF Creator
<1>3. QED
  BY <1>1, <1>2, Rows, Zenon DEF OutboxIInv, OneCreator

\* Recovery reads the pending rows or gives up on them.
LEMMA ReadsKeeps ==
  ASSUME OutboxIInv, NEW p \in Processes, Reads(p) \/ GivesUp(p)
  PROVE  OutboxIInv'
<1>1. /\ outbox' = outbox /\ published' = published /\ workflows' = workflows
      /\ pc' = pc /\ told' = told
  BY Zenon DEF Reads, GivesUp, calls
<1>2. \E rows \in SUBSET DOMAIN outbox : \E place \in {"reading", "starting"} :
         batch' = [batch EXCEPT ![p] = rows] /\ rpc' = [rpc EXCEPT ![p] = place]
  <2>1. Oldest \in SUBSET DOMAIN outbox
    BY Zenon DEF Oldest, Pending
  <2>2. CASE Reads(p)
    BY <2>1, <2>2, Zenon DEF Reads
  <2>3. CASE GivesUp(p)
    BY <2>3, Zenon DEF GivesUp
  <2>4. QED
    BY <2>2, <2>3, Zenon
<1>3. /\ MarkedIsStarted'
      /\ batch' \in [Processes -> SUBSET DOMAIN outbox]
      /\ rpc' \in [Processes -> {"reading", "starting", "marking"}]
  BY <1>1, <1>2, ReadKeeps, Zenon
<1>4. OneCreator'
  BY <1>1, CallsStay, Zenon
<1>5. Started'
  BY <1>1, Zenon DEF OutboxIInv, Started, Created
<1>6. OutboxTypes'
  BY <1>1, <1>3, Zenon DEF OutboxIInv, OutboxTypes
<1>7. QED
  BY <1>3, <1>4, <1>5, <1>6, Zenon DEF OutboxIInv

\* Recovery starts the workflow of the oldest row it has read.
LEMMA PublishKeeps ==
  ASSUME OutboxIInv, NEW p \in Processes, Publishes(p)
  PROVE  OutboxIInv'
<1>1. PICK i \in Current(p) : StartRelease(outbox[i])
  BY Zenon DEF Publishes
<1>2. /\ outbox' = outbox /\ published' = published /\ pc' = pc /\ told' = told
      /\ batch' = batch /\ rpc' = [rpc EXCEPT ![p] = "marking"]
  BY Zenon DEF Publishes, calls
<1>3. /\ workflows' \in [IDs -> Nat] /\ Started' /\ workflows'[outbox[i]] = 1
      /\ \A x \in IDs : workflows[x] = 1 => workflows'[x] = 1
  BY <1>1, <1>2, Rows, StartKeeps, Zenon
<1>4. OneCreator'
  BY <1>2, <1>3, CallsStay, Zenon
<1>5. MarkedIsStarted'
  <2> SUFFICES ASSUME NEW q \in Processes, rpc'[q] = "marking", NEW j \in Current(q)'
               PROVE  workflows'[outbox'[j]] = 1
    BY Zenon DEF MarkedIsStarted
  <2>1. j \in Current(q) /\ j \in DOMAIN outbox /\ outbox[j] \in IDs
    BY <1>2, Rows, Zenon DEF Current
  <2>2. CASE q = p
    <3>1. i \in Nat /\ j \in Nat
      BY <2>1, Rows DEF OutboxIInv, OutboxTypes
    <3>2. j <= i /\ i <= j
      BY <2>1, <2>2, Zenon DEF Current
    <3>3. i = j
      BY <3>1, <3>2
    <3>4. QED
      BY <1>2, <1>3, <3>3, Zenon
  <2>3. CASE q # p
    <3>1. rpc[q] = "marking"
      BY <1>2, <2>3, Zenon DEF OutboxIInv, OutboxTypes
    <3>2. QED
      BY <1>2, <1>3, <2>1, <3>1, Zenon DEF OutboxIInv, MarkedIsStarted
  <2>4. QED
    BY <2>2, <2>3, Zenon
<1>6. OutboxTypes'
  <2>1. rpc' \in [Processes -> {"reading", "starting", "marking"}]
    BY <1>2, Zenon DEF OutboxIInv, OutboxTypes
  <2>2. QED
    BY <1>2, <1>3, <2>1, Zenon DEF OutboxIInv, OutboxTypes
<1>7. QED
  BY <1>3, <1>4, <1>5, <1>6, Zenon DEF OutboxIInv

\* Recovery marks the row whose workflow it has started.
LEMMA FinishKeeps ==
  ASSUME OutboxIInv, NEW p \in Processes, Finishes(p)
  PROVE  OutboxIInv'
<1>1. /\ outbox' = outbox /\ workflows' = workflows /\ pc' = pc /\ told' = told
      /\ rpc[p] = "marking"
  BY Zenon DEF Finishes, calls
<1>2. PICK i \in Current(p) :
        /\ published' = published \cup {outbox[i]}
        /\ batch' = [batch EXCEPT ![p] = batch[p] \ {i}]
        /\ rpc' = [rpc EXCEPT ![p] = IF batch[p] = {i} THEN "reading" ELSE "starting"]
  BY Zenon DEF Finishes, MarkOutboxPublished
<1>3. outbox[i] \in IDs /\ workflows[outbox[i]] = 1
  BY <1>1, Rows, Zenon DEF OutboxIInv, MarkedIsStarted
<1>4. Started'
  BY <1>1, <1>2, <1>3, Zenon DEF OutboxIInv, Started, Created
<1>5. /\ MarkedIsStarted'
      /\ batch' \in [Processes -> SUBSET DOMAIN outbox]
      /\ rpc' \in [Processes -> {"reading", "starting", "marking"}]
  <2>1. batch[p] \ {i} \in SUBSET DOMAIN outbox
    BY Zenon DEF OutboxIInv, OutboxTypes
  <2>2. QED
    BY <1>1, <1>2, <2>1, ReadKeeps, Zenon
<1>6. OneCreator'
  BY <1>1, CallsStay, Zenon
<1>7. published' \subseteq IDs
  BY <1>2, <1>3, Zenon DEF OutboxIInv, OutboxTypes
<1>8. OutboxTypes'
  BY <1>1, <1>5, <1>7, Zenon DEF OutboxIInv, OutboxTypes
<1>9. QED
  BY <1>4, <1>5, <1>6, <1>8, Zenon DEF OutboxIInv

\* A process that dies leaves its calls unanswered and its recovery undone.
LEMMA CrashKeeps ==
  ASSUME OutboxIInv, NEW p \in Processes, Crash(p)
  PROVE  OutboxIInv'
<1>1. /\ outbox' = outbox /\ published' = published /\ workflows' = workflows
      /\ told' = told
      /\ batch' = [batch EXCEPT ![p] = {}] /\ rpc' = [rpc EXCEPT ![p] = "reading"]
  BY Zenon DEF Crash
<1>2. /\ MarkedIsStarted'
      /\ batch' \in [Processes -> SUBSET DOMAIN outbox]
      /\ rpc' \in [Processes -> {"reading", "starting", "marking"}]
  <2>1. {} \in SUBSET DOMAIN outbox
    OBVIOUS
  <2>2. QED
    BY <1>1, <2>1, ReadKeeps, Zenon
<1>3. /\ pc' \in [Calls -> {"idle", "creating", "starting", "marking", "done"}]
      /\ \A c \in Calls : pc'[c] \in {pc[c], "done"}
  BY Zenon DEF Crash, OutboxIInv, OutboxTypes
<1>4. Created' = Created
  BY <1>1, Zenon DEF Created
<1>5. \A c \in Calls : Creator(c)' => Creator(c)
  BY <1>1, <1>3, Zenon DEF Creator
<1>6. OneCreator'
  BY <1>1, <1>3, <1>4, <1>5, Zenon DEF OutboxIInv, OneCreator
<1>7. Started'
  BY <1>1, <1>4, Zenon DEF OutboxIInv, Started
<1>8. OutboxTypes'
  BY <1>1, <1>2, <1>3, Zenon DEF OutboxIInv, OutboxTypes
<1>9. QED
  BY <1>2, <1>6, <1>7, <1>8, Zenon DEF OutboxIInv

\* Every step preserves the invariant.
LEMMA NextOutbox == ASSUME OutboxIInv, [OutboxNext]_outboxVars PROVE OutboxIInv'
<1>1. CASE UNCHANGED outboxVars
  <2>1. MarkedIsStarted'
    BY <1>1, RecoveryStays, Zenon DEF outboxVars, recovery
  <2>2. OneCreator'
    BY <1>1, CallsStay, Zenon DEF outboxVars, calls
  <2>3. OutboxTypes' /\ Started'
    BY <1>1, Zenon DEF outboxVars, calls, recovery, OutboxIInv, OutboxTypes,
       Started, Created
  <2>4. QED
    BY <2>1, <2>2, <2>3, Zenon DEF OutboxIInv
<1>2. QED
  BY <1>1, IdleCallKeeps, CreateKeeps, CreatorKeeps, ReadsKeeps, PublishKeeps,
     FinishKeeps, CrashKeeps, Zenon DEF OutboxNext

\* Whatever the calls, processes and crashes: a run gets at most one workflow, a
\* marked row belongs to a started one, and one client is told it created the run.
THEOREM OneWorkflowPerRun == OutboxSpec => []OneOfEach
<1>1. OutboxIInv => OneOfEach
  BY Zenon DEF OutboxIInv, Started, OneCreator, Creator, OneOfEach
<1>2. QED
  BY <1>1, InitOutbox, NextOutbox, PTL DEF OutboxSpec
=============================================================================
