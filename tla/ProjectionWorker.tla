--------------------------- MODULE ProjectionWorker ---------------------------
(***************************************************************************)
(* The hosted service that reads the Event table behind a checkpoint and   *)
(* projects each event into the UserDetails read model                     *)
(* (ProjectionWorker.cs, EFCheckpointStore.cs, EFDbProjection.cs,          *)
(* UserDetailsProjection.cs), while requests add rows to the table.        *)
(*                                                                         *)
(* The query of the worker sorts its page in descending order after        *)
(* cutting it, so a batch is the oldest rows after the checkpoint, newest  *)
(* first, and the checkpoint ends the batch at its oldest row.             *)
(*                                                                         *)
(* The database gives a row its RecordId when the insert starts and shows  *)
(* it when the insert commits; inserts commit in any order.  A page cut    *)
(* without an order is taken in the order of the primary key.              *)
(***************************************************************************)
EXTENDS Naturals, Sequences, FiniteSets

CONSTANTS
    Users,      \* the aggregates of the type the worker projects
    PageSize,   \* the 100 of the worker's query
    MaxEvents,  \* bound: rows of the Event table
    MaxDeaths   \* bound: times the process is killed

ASSUME BoundsAssumption ==
    /\ PageSize \in Nat \ {0}
    /\ MaxEvents \in Nat
    /\ MaxDeaths \in Nat

VARIABLES
    inserting,   \* rows whose insert has started and not committed
    nextId,      \* the next value of the table's identity column
    table,       \* the committed rows of the Event table
    checkpoint,  \* the stored Position, 0 when there is none
    worker,      \* what the worker is doing
    cursor,      \* its lastCheckpoint
    batch,       \* the events of its foreach still to do
    details,     \* the UserDetails table in the order of its primary key
    deaths,      \* times the process was killed
    times,       \* history: how often each row was projected
    lost,        \* history: rows the worker left for good, or cut short
    failed       \* history: a projection has thrown

workerVars == <<checkpoint, worker, cursor, batch>>
history == <<deaths, times, lost, failed>>
vars == <<inserting, nextId, table, workerVars, details, history>>

------------------------------------------------------------------------------

Ids == 1..MaxEvents

\* A row: RecordId and the event.  A row of another AggregateType has kind
\* "Other".  The name an event gives its user is the RecordId of the row.
Row == [id : Ids, user : Users, kind : {"UserCreated", "UsernameChanged", "Other"}]

Detail == [user : Users, name : Ids]

Phases == {"stopped", "polling", "projecting", "storing"}

\* e.AggregateType == AggregateName && e.RecordId > lastCheckpoint
PendingDirty ==                                                    \* mutant
    {r \in table \cup inserting : r.kind # "Other" /\ r.id > cursor}
Pending == {r \in table : r.kind # "Other" /\ r.id > cursor}

\* GetPaginatedByConditionAsync(predicate, 1, 100, OrderByDescending): the rows
\* of the first page.  The foreach takes them newest first.
PageOrderedBeforeCut(rows) ==                                      \* mutant
    {r \in rows : Cardinality({s \in rows : s.id > r.id}) < PageSize}
PageAfterFirst(rows) ==                                            \* mutant
    {r \in rows : LET older == Cardinality({s \in rows : s.id < r.id})
                  IN  PageSize <= older /\ older < 2 * PageSize}
Page(rows) == {r \in rows : Cardinality({s \in rows : s.id < r.id}) < PageSize}

IsCurrent(e) == e \in batch /\ \A s \in batch : s.id <= e.id

\* GetOneAsync(t => t.UserId == id) returns the row at i.
IsFirstDetail(i, u) ==
    /\ details[i].user = u
    /\ \A j \in 1 .. i - 1 : details[j].user # u

HasDetail(u) == \E i \in DOMAIN details : details[i].user = u

\* The worker will next poll from id or from beyond it.
Behind(id) ==
    \/ worker = "stopped" /\ id <= checkpoint
    \/ worker = "polling" /\ id <= cursor
    \/ worker \in {"projecting", "storing"} /\ \A s \in batch : id <= s.id

------------------------------------------------------------------------------

Init ==
    /\ inserting = {}
    /\ nextId = 1
    /\ table = {}
    /\ checkpoint = 0
    /\ worker = "stopped"
    /\ cursor = 0
    /\ batch = {}
    /\ details = <<>>
    /\ deaths = 0
    /\ times = [i \in Ids |-> 0]
    /\ lost = {}
    /\ failed = FALSE

\* A request's AddAsync gets the next RecordId.  A rename is added only for an
\* aggregate Load has found; a creation can be added at any time, by a request
\* that tested Exists when there was no row.
BeginInsert(u, kind) ==
    /\ nextId <= MaxEvents
    /\ nextId' = nextId + 1
    /\ kind = "UsernameChanged" =>
          \E r \in table : r.user = u /\ r.kind = "UserCreated"
    /\ inserting' = inserting \cup {[id |-> nextId, user |-> u, kind |-> kind]}
    /\ UNCHANGED <<table, workerVars, details, history>>

\* The insert commits.  When the worker will poll from beyond it, it is lost.
Commit(r) ==
    /\ r \in inserting
    /\ inserting' = inserting \ {r}
    /\ table' = table \cup {r}
    /\ lost' = IF r.kind # "Other" /\ Behind(r.id)
               THEN lost \cup {r.id} ELSE lost
    /\ UNCHANGED <<nextId, workerVars, details, deaths, times, failed>>

\* ExecuteAsync up to the loop: GetCheckpoint(...) ?? 0.
Start ==
    /\ worker = "stopped"
    /\ worker' = "polling"
    /\ cursor' = checkpoint
    /\ UNCHANGED <<inserting, nextId, table, checkpoint, batch, details, history>>

\* The query of the loop finds events.  When it finds none the worker waits
\* for a second and queries again.
Poll ==
    /\ worker = "polling"
    /\ Page(Pending) # {}
    /\ batch' = Page(Pending)
    /\ worker' = "projecting"
    /\ UNCHANGED <<inserting, nextId, table, checkpoint, cursor, details, history>>

\* The projection of the current event succeeds: a creation adds a row, a
\* rename updates the first row of its user.
ProjectSkipping(e) ==                                              \* mutant
    /\ worker = "projecting"
    /\ IsCurrent(e)
    /\ \/ /\ e.kind = "UserCreated"
          /\ details' = Append(details, [user |-> e.user, name |-> e.id])
          /\ times' = [times EXCEPT ![e.id] = @ + 1]
       \/ /\ e.kind = "UsernameChanged"
          /\ UNCHANGED <<details, times>>
    /\ worker' = "storing"
    /\ UNCHANGED <<inserting, nextId, table, checkpoint, cursor, batch>>
    /\ UNCHANGED <<deaths, lost, failed>>
Project(e) ==
    /\ worker = "projecting"
    /\ IsCurrent(e)
    /\ \/ /\ e.kind = "UserCreated"
          /\ details' = Append(details, [user |-> e.user, name |-> e.id])
       \/ /\ e.kind = "UsernameChanged"
          /\ \E i \in DOMAIN details :
                /\ IsFirstDetail(i, e.user)
                /\ details' = [details EXCEPT ![i].name = e.id]
    /\ times' = [times EXCEPT ![e.id] = @ + 1]
    /\ worker' = "storing"
    /\ UNCHANGED <<inserting, nextId, table, checkpoint, cursor, batch>>
    /\ UNCHANGED <<deaths, lost, failed>>

\* The worker is gone.  It will start again from the stored checkpoint: in the
\* middle of a batch that is beyond rows it would have gone over again.
Die ==
    /\ worker' = "stopped"
    /\ cursor' = 0
    /\ batch' = {}
    /\ lost' = lost \cup
          {r.id : r \in {s \in table : /\ s.kind # "Other"
                                      /\ \E b \in batch : b.id <= s.id
                                      /\ s.id <= checkpoint}}
    /\ UNCHANGED <<inserting, nextId, table, checkpoint, details, times>>

\* The rename of a user that has no row: user is null, the exception leaves
\* ExecuteAsync and the host stops.
ProjectThrows(e) ==
    /\ worker = "projecting"
    /\ IsCurrent(e)
    /\ e.kind = "UsernameChanged"
    /\ ~HasDetail(e.user)
    /\ failed' = TRUE
    /\ Die
    /\ UNCHANGED deaths

\* The process is killed, anywhere, or a database call of the worker throws,
\* before or after it took effect.
Kill ==
    /\ worker # "stopped"
    /\ deaths < MaxDeaths
    /\ deaths' = deaths + 1
    /\ Die
    /\ UNCHANGED failed

\* lastCheckpoint = e.RecordId and StoreCheckpoint; the foreach goes on.
StoreHighest(e) ==                                                 \* mutant
    /\ worker = "storing"
    /\ IsCurrent(e)
    /\ cursor' = IF e.id > cursor THEN e.id ELSE cursor
    /\ checkpoint' = cursor'
    /\ batch' = batch \ {e}
    /\ worker' = IF batch' = {} THEN "polling" ELSE "projecting"
    /\ UNCHANGED <<inserting, nextId, table, details, history>>
StoreOnly(e) ==                                                    \* mutant
    /\ worker = "storing"
    /\ IsCurrent(e)
    /\ UNCHANGED cursor
    /\ checkpoint' = e.id
    /\ batch' = batch \ {e}
    /\ worker' = IF batch' = {} THEN "polling" ELSE "projecting"
    /\ UNCHANGED <<inserting, nextId, table, details, history>>
StoreCheckpoint(e) ==
    /\ worker = "storing"
    /\ IsCurrent(e)
    /\ cursor' = e.id
    /\ checkpoint' = e.id
    /\ batch' = batch \ {e}
    /\ worker' = IF batch' = {} THEN "polling" ELSE "projecting"
    /\ UNCHANGED <<inserting, nextId, table, details, history>>

Work ==
    \/ Poll
    \/ \E e \in batch : Project(e) \/ ProjectThrows(e) \/ StoreCheckpoint(e)

Next ==
    \/ \E u \in Users, kind \in {"UserCreated", "UsernameChanged", "Other"} :
          BeginInsert(u, kind)
    \/ \E r \in inserting : Commit(r)
    \/ Start
    \/ Work
    \/ Kill

\* The database finishes its inserts, the loop of the worker keeps running,
\* and a host that stopped is started again.
Fairness ==
    /\ WF_vars(\E r \in inserting : Commit(r))
    /\ WF_vars(Start)
    /\ WF_vars(Work)

Spec == Init /\ [][Next]_vars

FairSpec == Spec /\ Fairness

------------------------------------------------------------------------------

\* Rows, checkpoint and read model are well formed; a batch is in progress
\* exactly while the worker is inside its foreach, and holds committed rows.
TypeOK ==
    /\ inserting \subseteq Row
    /\ nextId \in Nat \ {0}
    /\ table \subseteq Row
    /\ checkpoint \in Nat
    /\ worker \in Phases
    /\ cursor \in Nat
    /\ batch \subseteq table
    /\ batch # {} <=> worker \in {"projecting", "storing"}
    /\ details \in Seq(Detail)
    /\ deaths \in 0..MaxDeaths
    /\ times \in [Ids -> Nat]
    /\ lost \subseteq Ids
    /\ failed \in BOOLEAN

\* The stored checkpoint never runs ahead of the read model: it is the id of a
\* row whose projection has taken effect.
CheckpointIsProjected == checkpoint # 0 => times[checkpoint] > 0

\* The worker polls from beyond an event only after projecting it, except for
\* the events that commit after a later one was checkpointed and those that a
\* death in the middle of a batch leaves below the stored checkpoint.
OnlyKnownLosses ==
    worker = "polling" =>
        \A r \in table :
            r.kind # "Other" /\ r.id <= cursor => times[r.id] > 0 \/ r.id \in lost

\* Although each batch moves the checkpoint back to its oldest event, every
\* poll retires one: an event is projected at most once per RecordId up to its
\* own, and once more for each time the process was killed.
RedeliveryBounded == \A i \in Ids : times[i] <= i + deaths

\* When the worker has caught up and nothing was lost, the read model shows
\* each user under the last name it was given, in spite of the batches that
\* are projected newest first and of what is projected again.
CaughtUpReadModelCurrent ==
    worker = "polling" /\ Pending = {} /\ lost = {} =>
        \A u \in Users :
            LET rows == {r \in table : r.user = u /\ r.kind # "Other"}
            IN  Cardinality({r \in rows : r.kind = "UserCreated"}) = 1 =>
                   \E i \in DOMAIN details, r \in rows :
                      /\ IsFirstDetail(i, u)
                      /\ details[i].name = r.id
                      /\ \A s \in rows : s.id <= r.id

\* Every committed event is projected in the end, unless it is lost or a
\* projection has thrown.
ProjectedUnlessThrown ==
    \A i \in Ids :
        (\E r \in table : r.id = i /\ r.kind # "Other")
            ~> (times[i] > 0 \/ i \in lost \/ failed)

\* "Load new events since last checkpoint": while the process is not killed,
\* no event is loaded and projected a second time.
LoadsOnlyNewEvents == deaths = 0 => \A i \in Ids : times[i] <= 1

\* "Update the read model": every committed event that is not lost reaches the
\* read model.
EventuallyProjected ==
    \A i \in Ids :
        (\E r \in table : r.id = i /\ r.kind # "Other")
            ~> (times[i] > 0 \/ i \in lost)

=============================================================================
