--------------------------- MODULE EFAggregateStore ---------------------------
(***************************************************************************)
(* The event store kept in a relational database (EFAggregateStore.cs)     *)
(* under the command handlers that use it (ApplicationService.cs).         *)
(*                                                                         *)
(* Each request runs CreateWhen or UpdateWhen in a scope of its own; every *)
(* await on the database is a point where other requests run, and a point  *)
(* where the request may fail.  AddAsync saves one row at a time, so the   *)
(* save of several events is several steps.                                *)
(*                                                                         *)
(* The state of an aggregate is abstracted to the set of events it has     *)
(* applied; an event is named by the command that raised it and its place  *)
(* among that command's changes.                                           *)
(***************************************************************************)
EXTENDS Integers, FiniteSets

CONSTANTS
    Handlers,          \* requests that can be in flight at once
    Aggregates,        \* aggregate ids
    SnapshotInterval,  \* the 100 of ShouldSnapshot
    ChangeCounts,      \* how many events one command may raise
    MaxCommands,       \* bound: commands issued
    MaxFailures,       \* bound: requests that fail at an await
    NoRequest          \* what an idle handler holds

ASSUME BoundsAssumption ==
    /\ SnapshotInterval \in Nat \ {0}
    /\ ChangeCounts \subseteq Nat \ {0}
    /\ MaxCommands \in Nat
    /\ MaxFailures \in Nat

VARIABLES
    events,    \* the Event table
    nextId,    \* the next value of the table's identity column
    snapshot,  \* the latest row of the snapshot table, for each aggregate
    pc,        \* where each request is
    req,       \* the local variables of each request
    commands,  \* commands issued so far
    failures,  \* requests that failed so far
    acked      \* history: the commands whose handler returned

tables == <<events, nextId, snapshot>>
vars == <<tables, pc, req, commands, failures, acked>>

------------------------------------------------------------------------------

Phases == {"idle", "loading", "saving", "adding", "returning"}

EventName == [cmd : Nat \ {0}, idx : Nat \ {0}]

\* A row of the Event table: RecordId, AggregateId, Version and the event, of
\* which only "it is the creation event" is told apart.  checkAt and readAt are
\* history: the last RecordId in the table when the request checked that the
\* aggregate exists, and when its Save read the current version.
EventRow ==
    [id : Nat, agg : Aggregates, version : Nat, creates : BOOLEAN,
     name : EventName, checkAt : Nat, readAt : Nat]

\* A row of the snapshot table: the aggregate's state and Version.
SnapshotRow == [version : Nat \cup {-1}, content : SUBSET EventName]

\* A new aggregate object, and what Load starts from when there is no snapshot.
Blank == [version |-> -1, content |-> {}]

\* The local variables of a request: its command, the aggregate object it
\* works on (state, Version), and the progress of its Save.
Request ==
    [cmd : Nat \ {0}, agg : Aggregates, creates : BOOLEAN,
     changes : ChangeCounts, state : SUBSET EventName,
     version : Nat \cup {-1}, checkAt : Nat, readAt : Nat, added : Nat]

Changes(r) == {[cmd |-> r.cmd, idx |-> i] : i \in 1..r.changes}

RowsOf(a) == {e \in events : e.agg = a}

NoneExists(a) == FALSE                                             \* mutant
Exists(a) == RowsOf(a) # {}

\* The events Load replays over the snapshot: all the rows of the aggregate.
ReplayedTail(r) ==                                                 \* mutant
    {e.name : e \in {x \in RowsOf(r.agg) : x.version > r.version}}
Replayed(r) == {e.name : e \in RowsOf(r.agg)}

\* What Save counts on from: MaxBy(Version)?.Version ?? -1 over the rows it reads.
CountedVersion(r, v) == v = Cardinality(RowsOf(r.agg)) - 1         \* mutant
LoadedVersion(r, v) == v = r.version                               \* mutant
CurrentVersion(r, v) ==
    \/ RowsOf(r.agg) = {} /\ v = -1
    \/ /\ \E e \in RowsOf(r.agg) : e.version = v
       /\ \A e \in RowsOf(r.agg) : e.version <= v

\* The % of C# and of TLA+ differ on -1, but not on whether they give zero.
ShouldSnapshot(version) == version % SnapshotInterval = 0

\* The row Save builds for the next of its changes.
NextRowFromBase(r) ==                                              \* mutant
    [id |-> nextId, agg |-> r.agg, version |-> r.version + r.added,
     creates |-> r.creates /\ r.added = 0,
     name |-> [cmd |-> r.cmd, idx |-> r.added + 1],
     checkAt |-> r.checkAt, readAt |-> r.readAt]
NextRow(r) ==
    [id |-> nextId, agg |-> r.agg, version |-> r.version + 1 + r.added,
     creates |-> r.creates /\ r.added = 0,
     name |-> [cmd |-> r.cmd, idx |-> r.added + 1],
     checkAt |-> r.checkAt, readAt |-> r.readAt]

------------------------------------------------------------------------------

Init ==
    /\ events = {}
    /\ nextId = 1
    /\ snapshot = [a \in Aggregates |-> Blank]
    /\ pc = [h \in Handlers |-> "idle"]
    /\ req = [h \in Handlers |-> NoRequest]
    /\ commands = 0
    /\ failures = 0
    /\ acked = {}

Goto(h, phase) == pc' = [pc EXCEPT ![h] = phase]

\* The request ends, by returning or by throwing.
End(h) ==
    /\ Goto(h, "idle")
    /\ req' = [req EXCEPT ![h] = NoRequest]

\* A request starts, for a command that will raise n events on aggregate a.
Issue(h, a, n, isCreate, state, version) ==
    /\ pc[h] = "idle"
    /\ commands < MaxCommands
    /\ commands' = commands + 1
    /\ req' = [req EXCEPT ![h] =
          [cmd |-> commands + 1, agg |-> a, creates |-> isCreate, changes |-> n,
           state |-> state, version |-> version,
           checkAt |-> nextId - 1, readAt |-> 0, added |-> 0]]
    /\ UNCHANGED <<tables, failures, acked>>

\* CreateWhen: Exists finds no row and the creator raises the first events.
\* When it finds one the handler throws and nothing has changed.
Create(h, a, n) ==
    /\ ~Exists(a)
    /\ Issue(h, a, n, TRUE, {[cmd |-> commands + 1, idx |-> i] : i \in 1..n}, -1)
    /\ Goto(h, "saving")

\* UpdateWhen: Load reads the latest snapshot ...
LoadSnapshot(h, a, n) ==
    /\ Issue(h, a, n, FALSE, snapshot[a].content, snapshot[a].version)
    /\ Goto(h, "loading")

\* ... then the rows, replays them, and the updater raises its events.
LoadEvents(h) ==
    /\ pc[h] = "loading"
    /\ Exists(req[h].agg)
    /\ Goto(h, "saving")
    /\ req' = [req EXCEPT ![h] =
          [req[h] EXCEPT
             !.state = req[h].state \cup Replayed(req[h]) \cup Changes(req[h]),
             !.checkAt = nextId - 1]]
    /\ UNCHANGED <<tables, commands, failures, acked>>

\* Load returned null: UpdateWhen throws.
LoadNothing(h) ==
    /\ pc[h] = "loading"
    /\ ~Exists(req[h].agg)
    /\ End(h)
    /\ UNCHANGED <<tables, commands, failures, acked>>

\* Save reads the rows of the aggregate to number the new ones.
ReadVersionThenSnapshot(h) ==                                      \* mutant
    /\ pc[h] = "saving"
    /\ \E v \in -1 .. nextId :
          /\ CurrentVersion(req[h], v)
          /\ req' = [req EXCEPT ![h] =
                [req[h] EXCEPT !.version = v, !.readAt = nextId - 1, !.added = 0]]
          /\ IF ShouldSnapshot(v)
             THEN snapshot' = [snapshot EXCEPT ![req[h].agg] =
                                  [version |-> v, content |-> req[h].state]]
             ELSE UNCHANGED snapshot
    /\ Goto(h, "adding")
    /\ UNCHANGED <<events, nextId, commands, failures, acked>>
ReadVersion(h) ==
    /\ pc[h] = "saving"
    /\ \E v \in -1 .. nextId :
          /\ CurrentVersion(req[h], v)
          /\ req' = [req EXCEPT ![h] =
                [req[h] EXCEPT !.version = v, !.readAt = nextId - 1, !.added = 0]]
    /\ Goto(h, "adding")
    /\ UNCHANGED <<tables, commands, failures, acked>>

\* One AddAsync of Save's loop.
AddRowOrSkip(h) ==                                                 \* mutant
    /\ pc[h] = "adding"
    /\ req[h].added < req[h].changes
    /\ events' \in {events, events \cup {NextRow(req[h])}}
    /\ nextId' = nextId + 1
    /\ req' = [req EXCEPT ![h] = [req[h] EXCEPT !.added = req[h].added + 1]]
    /\ UNCHANGED <<snapshot, pc, commands, failures, acked>>
AddRow(h) ==
    /\ pc[h] = "adding"
    /\ req[h].added < req[h].changes
    /\ events' = events \cup {NextRow(req[h])}
    /\ nextId' = nextId + 1
    /\ req' = [req EXCEPT ![h] = [req[h] EXCEPT !.added = req[h].added + 1]]
    /\ UNCHANGED <<snapshot, pc, commands, failures, acked>>

\* After the loop: SaveSnapshot, when the version Save started from says so.
SaveSnapshot(h) ==
    /\ pc[h] = "adding"
    /\ req[h].added = req[h].changes
    /\ ShouldSnapshot(req[h].version)
    /\ snapshot' = [snapshot EXCEPT ![req[h].agg] =
          [version |-> req[h].version, content |-> req[h].state]]
    /\ Goto(h, "returning")
    /\ UNCHANGED <<events, nextId, req, commands, failures, acked>>

\* The handler returns the aggregate to its caller.
Return(h) ==
    /\ \/ pc[h] = "returning"
       \/ /\ pc[h] = "adding"
          /\ req[h].added = req[h].changes
          /\ ~ShouldSnapshot(req[h].version)
    /\ acked' = acked \cup {Changes(req[h])}
    /\ End(h)
    /\ UNCHANGED <<tables, commands, failures>>

\* A database call throws, or the process dies, before or after the call took
\* effect.  Rows already added stay.
Fail(h) ==
    /\ pc[h] # "idle"
    /\ failures < MaxFailures
    /\ failures' = failures + 1
    /\ End(h)
    /\ UNCHANGED <<tables, commands, acked>>

Next ==
    \E h \in Handlers :
        \/ \E a \in Aggregates, n \in ChangeCounts :
              Create(h, a, n) \/ LoadSnapshot(h, a, n)
        \/ LoadEvents(h)
        \/ LoadNothing(h)
        \/ ReadVersion(h)
        \/ AddRow(h)
        \/ SaveSnapshot(h)
        \/ Return(h)
        \/ Fail(h)

Spec == Init /\ [][Next]_vars

------------------------------------------------------------------------------

\* The tables and the requests hold what their C# types and the code allow: a
\* stored version is never negative, and only a running request has locals.
TypeOK ==
    /\ events \subseteq EventRow
    /\ nextId \in Nat \ {0}
    /\ snapshot \in [Aggregates -> SnapshotRow]
    /\ pc \in [Handlers -> Phases]
    /\ req \in [Handlers -> Request \cup {NoRequest}]
    /\ \A h \in Handlers : pc[h] # "idle" => req[h] \in Request
    /\ commands \in Nat
    /\ failures \in Nat
    /\ \A c \in acked : c \subseteq EventName

\* The versions stored for an aggregate have no gap, whatever saves ran at
\* once and wherever they failed: below each stored version its predecessor is
\* stored too (Save numbers its rows from the highest version it read).
VersionsGapFree ==
    \A e \in events :
        e.version = 0 \/ \E p \in events : p.agg = e.agg /\ p.version = e.version - 1

\* Nothing rejects a version that is already taken, but Save re-reads the
\* current version: two rows of an aggregate share a version only when the
\* later one's save had read before the earlier one was added.
VersionClashNeedsOverlap ==
    \A e, f \in events :
        e.agg = f.agg /\ e.version = f.version /\ e.id < f.id => f.readAt < e.id

\* CreateWhen tests Exists long before its rows are added: an aggregate is
\* created again only when the second request had tested before the first
\* row of the aggregate was added.
CreateClashNeedsOverlap ==
    \A e, f \in events :
        e.agg = f.agg /\ f.creates /\ e.id < f.id => f.checkAt < e.id

\* When a handler returns, every event its command raised is in the table.
AckedSaveComplete ==
    \A c \in acked : \A n \in c : \E e \in events : e.name = n

\* A snapshot never holds the effect of an event that is not in the table,
\* wherever the save that took it failed.
SnapshotContentsStored ==
    \A a \in Aggregates : \A n \in snapshot[a].content :
        \E e \in events : e.agg = a /\ e.name = n

\* An aggregate that Load hands to the updater has applied every event that
\* was in the table, although the snapshot it started from carries a version
\* older than its contents and may lack events that were added while the
\* request that took it was running.
LoadReplaysEverything ==
    \A h \in Handlers : pc[h] = "saving" =>
        \A e \in events :
            e.agg = req[h].agg /\ e.id <= req[h].checkAt => e.name \in req[h].state

\* The comment of ShouldSnapshot, "every 100": when no request is running, the
\* latest snapshot of an aggregate is at most an interval, and the changes of
\* the save that crossed it, behind the stored versions.
SnapshotEveryInterval ==
    (\A h \in Handlers : pc[h] = "idle") =>
        \A e \in events :
            \/ e.version <= SnapshotInterval
            \/ \E n \in ChangeCounts :
                  e.version - snapshot[e.agg].version <= SnapshotInterval + n

=============================================================================
