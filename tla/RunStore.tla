------------------------------ MODULE RunStore -------------------------------
(***************************************************************************)
(* The transactions behind RunProjection: CreateRunAtomic, UpdateRunAtomic *)
(* and RebuildProjection of internal/store/postgres, statement by          *)
(* statement, on a pool with a bounded number of connections.              *)
(*                                                                         *)
(* A transaction holds its connection from BeginTx until it commits or     *)
(* rolls back.  The statement that writes the run waits for whoever holds  *)
(* the row (an update) or has inserted the same request_id (a creation).   *)
(* After a unique violation CreateRunAtomic reads the existing run through *)
(* the pool, that is, on a second connection, before its deferred Rollback *)
(* gives the first one back.  No call has a deadline.                      *)
(***************************************************************************)
EXTENDS RunProjection, FiniteSets

CONSTANTS
    Creators,   \* callers of CreateRunAtomic, all with the same request
    Conns       \* MaxConns of the pool

ASSUME StoreAssumption ==
    /\ Conns \in Nat \ {0}
    /\ Creators \cap Writers = {} /\ "rebuild" \notin Creators \cup Writers

VARIABLES
    stage,    \* where each caller's transaction stands
    free,     \* connections in the pool
    answer    \* what CreateRunAtomic last told each creator

storeVars == <<vars, stage, free, answer>>

Callers == Creators \cup Writers \cup {"rebuild"}
Stages == {"idle", "beginning", "open", "written", "violated"}

StoreTypeOK ==
    /\ TypeOK
    /\ stage \in [Callers -> Stages]
    /\ free \in 0 .. Conns
    /\ answer \in [Creators -> {"none", "created", "existing", "error"}]

StoreInit ==
    /\ Init
    /\ stage = [c \in Callers |-> "idle"]
    /\ free = Conns
    /\ answer = [c \in Creators |-> "none"]

Goto(c, next) == stage' = [stage EXCEPT ![c] = next]

\* Mutation: a transaction that ends without a commit keeps its connection.
LeakOnFailure(c) ==
    /\ Goto(c, "idle")
    /\ free' = IF stage[c] = "written" THEN free + 1 ELSE free

\* The transaction ends and its connection goes back to the pool.
Release(c) ==
    /\ Goto(c, "idle")
    /\ free' = IF stage[c] = "beginning" THEN free ELSE free + 1

\* Nobody has written the run in a transaction that is still open.
Unlocked == \A c \in Callers : stage[c] # "written"

-----------------------------------------------------------------------------
(* The first read of each operation *)

\* CreateRunAtomic is called.
CallCreate(c) ==
    /\ stage[c] = "idle"
    /\ Goto(c, "beginning")
    /\ answer' = [answer EXCEPT ![c] = "none"]
    /\ UNCHANGED <<vars, free>>

\* GetRun on a connection of the pool, then UpdateRunAtomic with that version.
CallUpdate(w) ==
    /\ stage[w] = "idle" /\ free > 0
    /\ row.version < MaxVersion
    /\ Read(w)
    /\ Goto(w, "beginning")
    /\ UNCHANGED <<free, answer>>

\* RebuildProjection finds the newest event.
CallRebuild ==
    /\ stage["rebuild"] = "idle" /\ free > 0
    /\ RebuildReads
    /\ Goto("rebuild", "beginning")
    /\ UNCHANGED <<free, answer>>

-----------------------------------------------------------------------------
(* The transactions *)

\* BeginTx waits for a connection.
Begin(c) ==
    /\ stage[c] = "beginning" /\ free > 0
    /\ free' = free - 1
    /\ Goto(c, "open")
    /\ UNCHANGED <<vars, answer>>

\* Mutation: two transactions insert the same request_id.
InsertAnyway(c) ==
    /\ stage[c] = "open"
    /\ Goto(c, IF row = None THEN "written" ELSE "violated")
    /\ UNCHANGED <<vars, free, answer>>

\* insertRunSQL: request_id is unique, and an open insert is waited for.
Insert(c) ==
    /\ stage[c] = "open" /\ Unlocked
    /\ Goto(c, IF row = None THEN "written" ELSE "violated")
    /\ UNCHANGED <<vars, free, answer>>

\* getRunByRequest on a second connection, then Rollback.
ReadExisting(c) ==
    /\ stage[c] = "violated" /\ free > 0
    /\ answer' = [answer EXCEPT ![c] = "existing"]
    /\ Release(c)
    /\ UNCHANGED vars

\* Mutation: the update does not wait for the row, so its version is stale.
UpdateSnapshot(w) ==
    /\ stage[w] = "open"
    /\ row.version = copy[w] /\ NewEvent(copy[w] + 1)
    /\ Goto(w, "written")
    /\ UNCHANGED <<vars, free, answer>>

\* updateRunSQL matches the expected version once the row is free; the
\* projection event of the next version is new.
UpdateRow(w) ==
    /\ stage[w] = "open" /\ Unlocked
    /\ row.version = copy[w] /\ NewEvent(copy[w] + 1)
    /\ Goto(w, "written")
    /\ UNCHANGED <<vars, free, answer>>

\* No row matches (ErrConflict), or the event exists: the transaction rolls back.
UpdateMisses(w) ==
    /\ stage[w] = "open" /\ Unlocked
    /\ row.version # copy[w] \/ ~ NewEvent(copy[w] + 1)
    /\ UpdateFails(w)
    /\ Release(w)
    /\ UNCHANGED answer

\* The rebuild's UPDATE has no version condition.
RebuildRow ==
    /\ stage["rebuild"] = "open" /\ Unlocked
    /\ Goto("rebuild", "written")
    /\ UNCHANGED <<vars, free, answer>>

\* Commit; the caller may not learn of it.
CommitCreate(c) ==
    /\ stage[c] = "written"
    /\ events' = [events EXCEPT ![1] = "created"]
    /\ Store(1, "created")
    /\ \E a \in {"created", "error"} : answer' = [answer EXCEPT ![c] = a]
    /\ Release(c)
    /\ UNCHANGED <<copy, rebuild, damage>>

CommitUpdate(w) ==
    /\ stage[w] = "written"
    /\ events' = [events EXCEPT ![copy[w] + 1] = w]
    /\ Store(copy[w] + 1, w)
    /\ copy' = [copy EXCEPT ![w] = 0]
    /\ Release(w)
    /\ UNCHANGED <<rebuild, damage, answer>>

CommitRebuild ==
    /\ stage["rebuild"] = "written"
    /\ RebuildWrites
    /\ Release("rebuild")
    /\ UNCHANGED answer

\* BeginTx, a statement or the commit fails: Rollback.
FailCreate(c) ==
    /\ stage[c] # "idle"
    /\ answer' = [answer EXCEPT ![c] = "error"]
    /\ Release(c)
    /\ UNCHANGED vars

FailUpdate(w) ==
    /\ stage[w] # "idle"
    /\ UpdateFails(w)
    /\ Release(w)
    /\ UNCHANGED answer

FailRebuild ==
    /\ stage["rebuild"] # "idle"
    /\ RebuildFails
    /\ Release("rebuild")
    /\ UNCHANGED answer

DamageRow ==
    /\ Unlocked /\ Damage
    /\ UNCHANGED <<stage, free, answer>>

CreateStep(c) == CallCreate(c) \/ Insert(c) \/ ReadExisting(c) \/ CommitCreate(c) \/ FailCreate(c)
UpdateStep(w) == CallUpdate(w) \/ UpdateRow(w) \/ UpdateMisses(w) \/ CommitUpdate(w) \/ FailUpdate(w)
RebuildStep == CallRebuild \/ RebuildRow \/ CommitRebuild \/ FailRebuild

StoreNext ==
    \/ \E c \in Creators : CreateStep(c)
    \/ \E w \in Writers : UpdateStep(w)
    \/ \E c \in Callers : Begin(c)
    \/ RebuildStep \/ DamageRow

StoreSpec == StoreInit /\ [][StoreNext]_storeVars

\* The step a caller's transaction waits to take.
Proceed(c) ==
    \/ Begin(c)
    \/ c \in Creators /\ (Insert(c) \/ ReadExisting(c) \/ CommitCreate(c))
    \/ c \in Writers /\ (UpdateRow(c) \/ UpdateMisses(c) \/ CommitUpdate(c))
    \/ c = "rebuild" /\ (RebuildRow \/ CommitRebuild)

\* The pool hands connections out, and PostgreSQL grants row locks, in the order
\* in which they were asked for.  Nobody is obliged to call.
StoreFairness == \A c \in Callers : SF_storeVars(Proceed(c))

FairStoreSpec == StoreSpec /\ StoreFairness

-----------------------------------------------------------------------------
(* Properties *)

\* The open transactions, their locks and their failures cannot be seen: what
\* is committed changes as in RunProjection, one whole operation at a time.
AtomicStore == Spec

\* However many callers send a request at once, one of them at most is told that
\* it created the run, and nobody is answered before the run is stored.
OneCreation ==
    /\ \A c, e \in Creators : answer[c] = "created" /\ answer[e] = "created" => c = e
    /\ \A c \in Creators : answer[c] \in {"created", "existing"} => row # None

\* Every call returns, although duplicates of a request take a second connection
\* while they hold one: true as long as the pool has more connections than there
\* are such duplicates.
CallsReturn ==
    \A c \in Callers : stage[c] # "idle" ~> stage[c] = "idle"
=============================================================================
