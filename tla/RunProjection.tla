---------------------------- MODULE RunProjection ----------------------------
(***************************************************************************)
(* One run in the store, every transaction a single step: CreateRunAtomic, *)
(* UpdateRunAtomic by several writers, each with the version it read, and  *)
(* RebuildProjection, which restores the row from the projection events of *)
(* the outbox.  RunStore shows that the transactions of                    *)
(* internal/store/postgres, statement by statement, implement this.        *)
(*                                                                         *)
(* The content of a run is the writer that produced it.  The row may be    *)
(* damaged from outside: that is what a rebuild is for.                    *)
(***************************************************************************)
EXTENDS Naturals

CONSTANTS
    Writers,
    MaxVersion,   \* versions considered
    MaxDamage     \* outside edits of the row considered

ASSUME ProjectionAssumption == MaxVersion \in Nat \ {0} /\ MaxDamage \in Nat

\* Writers are not named like the other contents.
ASSUME WritersAssumption == Writers \cap {"none", "damaged", "created"} = {}

VARIABLES
    row,      \* release_runs with release_steps: the run's version and content
    events,   \* the projection events, by version
    copy,     \* the run each writer read
    rebuild,  \* the event RebuildProjection read, if one is under way
    commits,  \* transactions that produced each version
    damage

vars == <<row, events, copy, rebuild, commits, damage>>

Versions == 1 .. MaxVersion
Contents == Writers \cup {"created"}
None == [version |-> 0, content |-> "none"]

TypeOK ==
    /\ row \in [version : Versions, content : Contents \cup {"damaged"}] \cup {None}
    /\ events \in [Versions -> Contents \cup {"none"}]
    /\ copy \in [Writers -> 0 .. MaxVersion]
    /\ rebuild \in [version : Versions, content : Contents] \cup {None}
    /\ commits \in [Versions -> Nat]
    /\ damage \in 0 .. MaxDamage

Init ==
    /\ row = None
    /\ events = [v \in Versions |-> "none"]
    /\ copy = [w \in Writers |-> 0]
    /\ rebuild = None
    /\ commits = [v \in Versions |-> 0]
    /\ damage = 0

\* GetRun
Read(w) ==
    /\ copy[w] = 0 /\ row # None
    /\ copy' = [copy EXCEPT ![w] = row.version]
    /\ UNCHANGED <<row, events, rebuild, commits, damage>>

\* Mutation: the identifier of a projection event is not unique.
AnyEvent(version) == TRUE

\* projection/<run>/<version> is a primary key.
NewEvent(version) == events[version] = "none"

\* insertEvents
InsertEvent(version, content) ==
    /\ NewEvent(version)
    /\ events' = [events EXCEPT ![version] = content]

\* The row and its projection event, in one transaction.
Store(version, content) ==
    /\ row' = [version |-> version, content |-> content]
    /\ commits' = [commits EXCEPT ![version] = @ + 1]

\* CreateRunAtomic: request_id is unique.
Create ==
    /\ row = None
    /\ InsertEvent(1, "created") /\ Store(1, "created")
    /\ UNCHANGED <<copy, rebuild, damage>>

\* UpdateRunAtomic
Update(w) ==
    LET next == copy[w] + 1 IN
    /\ copy[w] # 0 /\ next <= MaxVersion
    /\ row.version = copy[w]
    /\ InsertEvent(next, w) /\ Store(next, w)
    /\ copy' = [copy EXCEPT ![w] = 0]
    /\ UNCHANGED <<rebuild, damage>>

\* ErrConflict, a duplicate event, or any failure: the transaction rolls back.
UpdateFails(w) ==
    /\ copy[w] # 0
    /\ copy' = [copy EXCEPT ![w] = 0]
    /\ UNCHANGED <<row, events, rebuild, commits, damage>>

\* RebuildProjection reads the newest projection event ...
RebuildReads ==
    /\ rebuild = None
    /\ \E v \in Versions :
         /\ events[v] # "none"
         /\ \A u \in Versions : events[u] # "none" => u <= v
         /\ rebuild' = [version |-> v, content |-> events[v]]
    /\ UNCHANGED <<row, events, copy, commits, damage>>

\* ... and, in a transaction of its own, writes it whatever the row holds now.
RebuildWrites ==
    /\ rebuild # None
    /\ row' = rebuild
    /\ rebuild' = None
    /\ UNCHANGED <<events, copy, commits, damage>>

RebuildFails ==
    /\ rebuild # None
    /\ rebuild' = None
    /\ UNCHANGED <<row, events, copy, commits, damage>>

\* Somebody edits the row by hand.
Damage ==
    /\ damage < MaxDamage /\ row # None
    /\ damage' = damage + 1
    /\ row' = [row EXCEPT !.content = "damaged"]
    /\ UNCHANGED <<events, copy, rebuild, commits>>

Next ==
    \/ Create
    \/ \E w \in Writers : Read(w) \/ Update(w) \/ UpdateFails(w)
    \/ RebuildReads \/ RebuildWrites \/ RebuildFails \/ Damage

Spec == Init /\ [][Next]_vars

-----------------------------------------------------------------------------
(* Properties *)

\* Whatever rebuilds do to the row, a version is produced by one transaction only,
\* and the projection event of a version keeps what that transaction wrote: the
\* history from which the row is rebuilt is never rewritten.
HistoryIsLinear ==
    /\ \A v \in Versions : commits[v] = (IF events[v] = "none" THEN 0 ELSE 1)
    /\ \A v \in Versions : events[v] # "none" => \A u \in 1 .. v : events[u] # "none"

\* A rebuild leaves the row as the newest event has it ("PostgreSQL, rebuildable
\* from authoritative events").  The code does not guarantee it: an update may
\* commit between the two halves of a rebuild.
RebuiltIsNewest ==
    [][RebuildWrites => \A v \in Versions : events[v] # "none" => v <= row'.version]_vars
=============================================================================
