----------------------------- MODULE UnitOfWork -----------------------------
(***************************************************************************)
(* Units of work over an Entity Framework context: UnitOfWork.cs and the   *)
(* EfUnitOfWork of the specification library (the Guarded units), with the *)
(* repositories that only track changes and, on the same scoped context,   *)
(* the bulk create of Service.cs, whose repository saves entity by entity. *)
(*                                                                         *)
(* A change is an insert or an update, made once. Every await of the code  *)
(* that reaches the database may throw; a commit may throw after the       *)
(* database has committed. Disposing a transaction is assumed not to throw.*)
(***************************************************************************)
EXTENDS Naturals, Sequences, FiniteSets

CONSTANTS
    Units,         \* units of work, each with the context of its scope
    Guarded,       \* those that are EfUnitOfWork
    Changes,       \* what the callers may ask the repositories to do
    MaxBatch,      \* bound: entities in one CreateMany
    MaxFailures    \* bound: awaits that throw

ASSUME UnitsAssumption ==
    /\ Guarded \subseteq Units
    /\ MaxBatch \in Nat
    /\ MaxFailures \in Nat

VARIABLES
    stored,    \* the changes in the database, as other connections see it
    tracked,   \* for each unit, the changes its context has still to save
    staged,    \* those saved in its open transaction
    open,      \* its connection has a transaction
    field,     \* _transaction is not null
    at,        \* where its call is
    todo,      \* the entities CreateMany has still to add
    last,      \* how its last call ended
    failures,
    made,      \* history: the changes the unit was asked for
    undone,    \* history: those a rollback, or the end of the unit, was to drop
    batches    \* history: the lists given to CreateMany

unitVars == <<tracked, staged, open, field, at, todo, last, made, undone>>
vars == <<stored, failures, batches, unitVars>>

----------------------------------------------------------------------------

Places == {"idle", "creating", "committing", "catching", "finishing", "closed"}
Outcomes == {"none", "ok", "committed", "failed"}

Elements(s) == {s[i] : i \in DOMAIN s}

Used == (UNION {made[u] : u \in Units}) \cup (UNION {Elements(s) : s \in batches})

Lists == {s \in UNION {[1..n -> Changes \ Used] : n \in 1..MaxBatch} :
            \A i, j \in DOMAIN s : s[i] = s[j] => i = j}

\* A unit that refers to a transaction refers to one that is open, unless its
\* CommitAsync has still to reset the reference or the unit is disposed.
ReferencesLive ==
    \A u \in Units : field[u] => open[u] \/ at[u] \in {"finishing", "closed"}

\* The state of the units, with ReferencesLive: _transaction is null or a
\* transaction that can still be used (UnitOfWork.cs, the finally of CommitAsync).
TypeOK ==
    /\ stored \subseteq Changes
    /\ tracked \in [Units -> SUBSET Changes]
    /\ staged \in [Units -> SUBSET Changes]
    /\ open \in [Units -> BOOLEAN]
    /\ field \in [Units -> BOOLEAN]
    /\ at \in [Units -> Places]
    /\ todo \in [Units -> Seq(Changes)]
    /\ last \in [Units -> Outcomes]
    /\ failures \in 0..MaxFailures
    /\ made \in [Units -> SUBSET Changes]
    /\ undone \in [Units -> SUBSET Changes]
    /\ batches \subseteq Seq(Changes)
    /\ ReferencesLive

Init ==
    /\ stored = {}
    /\ tracked = [u \in Units |-> {}]
    /\ staged = [u \in Units |-> {}]
    /\ open = [u \in Units |-> FALSE]
    /\ field = [u \in Units |-> FALSE]
    /\ at = [u \in Units |-> "idle"]
    /\ todo = [u \in Units |-> << >>]
    /\ last = [u \in Units |-> "none"]
    /\ failures = 0
    /\ made = [u \in Units |-> {}]
    /\ undone = [u \in Units |-> {}]
    /\ batches = {}

----------------------------------------------------------------------------

\* The call of u goes on at a place, or ends with an outcome.
Goto(u, place) == at' = [at EXCEPT ![u] = place]
Ends(u, outcome) ==
    /\ at' = [at EXCEPT ![u] = "idle"]
    /\ last' = [last EXCEPT ![u] = outcome]

Throws ==
    /\ failures < MaxFailures
    /\ failures' = failures + 1

\* SaveChangesAsync writes the pending changes, into the transaction when there
\* is one, and stops tracking them as pending.
Saved(u, pending) ==
    /\ tracked' = [tracked EXCEPT ![u] = {}]
    /\ \/ /\ open[u]
          /\ staged' = [staged EXCEPT ![u] = staged[u] \cup pending]
          /\ UNCHANGED stored
       \/ /\ ~open[u]
          /\ stored' = stored \cup pending
          /\ UNCHANGED staged

\* It throws, and the changes stay pending; outside a transaction its own
\* commit may have reached the database.
SaveThrows(u, pending) ==
    /\ Throws
    /\ tracked' = [tracked EXCEPT ![u] = pending]
    /\ \/ UNCHANGED stored
       \/ ~open[u] /\ stored' = stored \cup pending
    /\ UNCHANGED staged

\* The database drops what the transaction staged, and EF closes it. Without a
\* transaction nothing is staged and this changes nothing.
Discarded(u) ==
    /\ undone' = [undone EXCEPT ![u] = undone[u] \cup (staged[u] \ stored)]
    /\ staged' = [staged EXCEPT ![u] = {}]
    /\ open' = [open EXCEPT ![u] = FALSE]
    /\ field' = [field EXCEPT ![u] = FALSE]

\* Mutant: the finally of EfUnitOfWork's rollback is missing.
RollbackThrewWithoutFinally(u) ==
    /\ undone' = [undone EXCEPT ![u] = undone[u] \cup (staged[u] \ stored)]
    /\ UNCHANGED <<staged, open, field>>

\* RollbackAsync threw before the database rolled back. UnitOfWork leaves the
\* transaction as it was, EfUnitOfWork disposes it in a finally.
RollbackThrew(u) ==
    \/ u \in Guarded /\ Discarded(u)
    \/ /\ u \notin Guarded
       /\ undone' = [undone EXCEPT ![u] = undone[u] \cup (staged[u] \ stored)]
       /\ UNCHANGED <<staged, open, field>>

----------------------------------------------------------------------------

\* The check of EfUnitOfWork for a transaction it has begun.
Started(u) == u \in Guarded /\ field[u]

\* BeginTransactionAsync. EF refuses a second transaction on a connection;
\* EfUnitOfWork returns before it asks.
Begin(u) ==
    /\ at[u] = "idle"
    /\ \/ /\ ~Started(u)
          /\ ~open[u]
          /\ open' = [open EXCEPT ![u] = TRUE]
          /\ field' = [field EXCEPT ![u] = TRUE]
          /\ Ends(u, "ok")
       \/ /\ ~Started(u)
          /\ open[u]
          /\ Ends(u, "failed")
          /\ UNCHANGED <<open, field>>
       \/ /\ Started(u)
          /\ Ends(u, "ok")
          /\ UNCHANGED <<open, field>>
    /\ UNCHANGED <<stored, tracked, staged, todo, failures, made, undone, batches>>

BeginThrows(u) ==
    /\ at[u] = "idle"
    /\ ~Started(u)
    /\ ~open[u]
    /\ Throws
    /\ Ends(u, "failed")
    /\ UNCHANGED <<stored, tracked, staged, open, field, todo, made, undone, batches>>

\* AddAsync, UpdateAsync or DeleteAsync of a repository that leaves saving to
\* the unit of work.
Track(u, c) ==
    /\ at[u] = "idle"
    /\ c \notin Used
    /\ tracked' = [tracked EXCEPT ![u] = tracked[u] \cup {c}]
    /\ made' = [made EXCEPT ![u] = made[u] \cup {c}]
    /\ Ends(u, "none")
    /\ UNCHANGED <<stored, staged, open, field, todo, failures, undone, batches>>

SaveChanges(u) ==
    /\ at[u] = "idle"
    /\ \/ Saved(u, tracked[u]) /\ Ends(u, "ok") /\ UNCHANGED failures
       \/ SaveThrows(u, tracked[u]) /\ Ends(u, "failed")
    /\ UNCHANGED <<open, field, todo, made, undone, batches>>

\* CommitAsync first saves,
Commit(u) ==
    /\ at[u] = "idle"
    /\ \/ Saved(u, tracked[u]) /\ Goto(u, "committing") /\ UNCHANGED failures
       \/ SaveThrows(u, tracked[u]) /\ Goto(u, "catching")
    /\ last' = [last EXCEPT ![u] = "none"]
    /\ UNCHANGED <<open, field, todo, made, undone, batches>>

\* Mutant: the transaction is left for the finally to dispose.
CommitNothing(u) ==
    /\ at[u] = "committing"
    /\ last' = [last EXCEPT ![u] = "committed"]
    /\ Goto(u, "finishing")
    /\ UNCHANGED <<stored, staged, open, tracked, field, todo, failures, made, undone, batches>>

\* then commits the transaction, when there is one,
CommitTransaction(u) ==
    /\ at[u] = "committing"
    /\ stored' = IF field[u] THEN stored \cup staged[u] ELSE stored
    /\ staged' = IF field[u] THEN [staged EXCEPT ![u] = {}] ELSE staged
    /\ open' = IF field[u] THEN [open EXCEPT ![u] = FALSE] ELSE open
    /\ last' = [last EXCEPT ![u] = "committed"]
    /\ Goto(u, "finishing")
    /\ UNCHANGED <<tracked, field, todo, failures, made, undone, batches>>

\* which may throw before or after the database has committed it,
CommitThrows(u) ==
    /\ at[u] = "committing"
    /\ field[u]
    /\ Throws
    /\ \/ UNCHANGED <<stored, staged>>
       \/ /\ stored' = stored \cup staged[u]
          /\ staged' = [staged EXCEPT ![u] = {}]
    /\ Goto(u, "catching")
    /\ UNCHANGED <<tracked, open, field, todo, last, made, undone, batches>>

\* the catch rolls back, whether or not that throws, and rethrows,
Catch(u) ==
    /\ at[u] = "catching"
    /\ \/ Discarded(u) /\ UNCHANGED failures
       \/ field[u] /\ Throws /\ RollbackThrew(u)
    /\ last' = [last EXCEPT ![u] = "failed"]
    /\ Goto(u, "finishing")
    /\ UNCHANGED <<stored, tracked, todo, made, batches>>

\* Mutant: the field is cleared and the transaction not disposed.
FinishWithoutDispose(u) ==
    /\ at[u] = "finishing"
    /\ field' = [field EXCEPT ![u] = FALSE]
    /\ Goto(u, "idle")
    /\ UNCHANGED <<stored, staged, open, undone, tracked, todo, last, failures, made, batches>>

\* Mutant: the transaction is disposed and the reference to it kept.
FinishWithoutReset(u) ==
    /\ at[u] = "finishing"
    /\ undone' = [undone EXCEPT ![u] = undone[u] \cup (staged[u] \ stored)]
    /\ staged' = [staged EXCEPT ![u] = {}]
    /\ open' = [open EXCEPT ![u] = FALSE]
    /\ Goto(u, "idle")
    /\ UNCHANGED <<field, stored, tracked, todo, last, failures, made, batches>>

\* and the finally disposes the transaction that is left.
Finish(u) ==
    /\ at[u] = "finishing"
    /\ Discarded(u)
    /\ Goto(u, "idle")
    /\ UNCHANGED <<stored, tracked, todo, last, failures, made, batches>>

\* RollbackAsync, called by the owner of the unit.
Rollback(u) ==
    /\ at[u] = "idle"
    /\ \/ Discarded(u) /\ Ends(u, "ok") /\ UNCHANGED failures
       \/ field[u] /\ Throws /\ RollbackThrew(u) /\ Ends(u, "failed")
    /\ UNCHANGED <<stored, tracked, todo, made, batches>>

\* CreateManyAsync of a service on the same context,
CreateMany(u, list) ==
    /\ at[u] = "idle"
    /\ u \notin Guarded
    /\ todo' = [todo EXCEPT ![u] = list]
    /\ batches' = batches \cup {list}
    /\ Goto(u, "creating")
    /\ last' = [last EXCEPT ![u] = "none"]
    /\ UNCHANGED <<stored, tracked, staged, open, field, failures, made, undone>>

\* Mutant: an entity that cannot be saved is passed over.
CreateNextAnyway(u) ==
    /\ at[u] = "creating"
    /\ todo[u] # << >>
    /\ LET pending == tracked[u] \cup {Head(todo[u])}
       IN  \/ Saved(u, pending) /\ UNCHANGED failures
           \/ SaveThrows(u, tracked[u])
    /\ todo' = [todo EXCEPT ![u] = Tail(todo[u])]
    /\ made' = [made EXCEPT ![u] = made[u] \cup {Head(todo[u])}]
    /\ UNCHANGED <<at, last, open, field, undone, batches>>

\* which adds and saves one entity after the other and stops where one throws.
CreateNext(u) ==
    /\ at[u] = "creating"
    /\ todo[u] # << >>
    /\ LET pending == tracked[u] \cup {Head(todo[u])}
       IN  \/ /\ Saved(u, pending)
              /\ todo' = [todo EXCEPT ![u] = Tail(todo[u])]
              /\ UNCHANGED <<at, last, failures>>
           \/ /\ SaveThrows(u, pending)
              /\ todo' = [todo EXCEPT ![u] = << >>]
              /\ Ends(u, "failed")
    /\ made' = [made EXCEPT ![u] = made[u] \cup {Head(todo[u])}]
    /\ UNCHANGED <<open, field, undone, batches>>

CreateReturns(u) ==
    /\ at[u] = "creating"
    /\ todo[u] = << >>
    /\ Ends(u, "ok")
    /\ UNCHANGED <<stored, tracked, staged, open, field, todo, failures, made, undone, batches>>

\* Dispose, of the transaction and then of the context.
Dispose(u) ==
    /\ at[u] = "idle"
    /\ Goto(u, "closed")
    /\ undone' = [undone EXCEPT ![u] = undone[u] \cup ((staged[u] \cup tracked[u]) \ stored)]
    /\ staged' = [staged EXCEPT ![u] = {}]
    /\ tracked' = [tracked EXCEPT ![u] = {}]
    /\ open' = [open EXCEPT ![u] = FALSE]
    /\ UNCHANGED <<stored, field, todo, last, failures, made, batches>>

Next ==
    \E u \in Units :
        \/ Begin(u) \/ BeginThrows(u)
        \/ \E c \in Changes : Track(u, c)
        \/ SaveChanges(u)
        \/ Commit(u) \/ CommitTransaction(u) \/ CommitThrows(u) \/ Catch(u) \/ Finish(u)
        \/ Rollback(u)
        \/ \E list \in Lists : CreateMany(u, list)
        \/ CreateNext(u) \/ CreateReturns(u)
        \/ Dispose(u)

Spec == Init /\ [][Next]_vars

----------------------------------------------------------------------------

\* Between two calls a unit holds a reference to a transaction exactly while
\* the connection has one: no await that throws leaves a transaction open that
\* nothing can commit or dispose, and a disposed unit leaves none
\* (UnitOfWork.cs Begin, Commit, Rollback and Dispose, and EfUnitOfWork).
NoOrphanTransaction ==
    \A u \in Units :
        /\ at[u] = "idle" => field[u] = open[u]
        /\ at[u] = "closed" => ~open[u]
        /\ staged[u] # {} => open[u]

\* When CommitAsync has returned, everything the unit was ever asked for is in
\* the database, except what a rollback was to drop; nothing is left pending or
\* staged for a later call (CommitAsync of both units). What an earlier commit
\* rolled back is not there: a commit called again returns without saving it.
CommittedIsStored ==
    \A u \in Units :
        last[u] = "committed" =>
            /\ tracked[u] = {}
            /\ staged[u] = {}
            /\ made[u] \subseteq stored \cup undone[u]

\* What EfUnitOfWork was asked to roll back is never stored, whichever of its
\* calls threw and whatever is called after (the finally of
\* RollbackTransactionAsync). It is not so for UnitOfWork, whose transaction
\* outlives a rollback that throws and is committed by the next CommitAsync.
RolledBackStaysOut ==
    \A u \in Guarded : undone[u] \cap stored = {}

\* The entities of a CreateMany reach the database in the order of the list:
\* none is stored when one before it was not, unless a rollback dropped that one
\* (Service.CreateManyAsync over EFRepository.AddAsync, which stops at the first
\* failure and leaves the entity pending).
BatchInOrder ==
    \A list \in batches : \A j \in DOMAIN list : \A i \in 1..(j - 1) :
        list[j] \in stored =>
            list[i] \in stored \cup UNION {undone[u] : u \in Units}
=============================================================================
