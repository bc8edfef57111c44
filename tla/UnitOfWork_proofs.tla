-------------------------- MODULE UnitOfWork_proofs --------------------------
(* Proofs about UnitOfWork, for any units, changes, batches and failures.    *)
EXTENDS UnitOfWork, TLAPS

\* The types of what saving changes, and of what the end of a transaction does.
SaveTyped ==
  /\ stored \subseteq Changes
  /\ tracked \in [Units -> SUBSET Changes] /\ staged \in [Units -> SUBSET Changes]
TransactionTyped ==
  /\ staged \in [Units -> SUBSET Changes] /\ undone \in [Units -> SUBSET Changes]
  /\ open \in [Units -> BOOLEAN] /\ field \in [Units -> BOOLEAN]

LEMMA SavedTyped ==
  ASSUME TypeOK, NEW u \in Units, NEW pending \in SUBSET Changes, Saved(u, pending)
  PROVE  SaveTyped'
<1>1. tracked' \in [Units -> SUBSET Changes]
  BY DEF Saved, TypeOK
<1>2. CASE open[u]
  BY <1>1, <1>2 DEF Saved, SaveTyped, TypeOK
<1>3. CASE ~open[u]
  BY <1>1, <1>3 DEF Saved, SaveTyped, TypeOK
<1> QED
  BY <1>2, <1>3

LEMMA SaveThrowsTyped ==
  ASSUME TypeOK, NEW u \in Units, NEW pending \in SUBSET Changes, SaveThrows(u, pending)
  PROVE  SaveTyped' /\ failures' \in 0..MaxFailures
<1>1. tracked' \in [Units -> SUBSET Changes] /\ staged' = staged
  BY DEF SaveThrows, TypeOK
<1>2. stored' \subseteq Changes
  BY DEF SaveThrows, TypeOK
<1>3. failures' \in 0..MaxFailures
  BY UnitsAssumption DEF SaveThrows, Throws, TypeOK
<1> QED
  BY <1>1, <1>2, <1>3 DEF SaveTyped, TypeOK

LEMMA DiscardedTyped ==
  ASSUME TypeOK, NEW u \in Units, Discarded(u)
  PROVE  TransactionTyped'
<1>1. undone' \in [Units -> SUBSET Changes]
  BY DEF Discarded, TypeOK
<1>2. staged' \in [Units -> SUBSET Changes]
  BY DEF Discarded, TypeOK
<1>3. open' \in [Units -> BOOLEAN] /\ field' \in [Units -> BOOLEAN]
  BY Zenon DEF Discarded, TypeOK
<1> QED
  BY <1>1, <1>2, <1>3 DEF TransactionTyped

LEMMA RollbackThrewTyped ==
  ASSUME TypeOK, NEW u \in Units, RollbackThrew(u)
  PROVE  TransactionTyped'
<1>1. CASE u \notin Guarded
  BY <1>1 DEF RollbackThrew, TransactionTyped, TypeOK
<1> QED
  BY <1>1, DiscardedTyped DEF RollbackThrew

\* A list of distinct changes is a sequence of changes.
LEMMA ListsAreSequences == Lists \subseteq Seq(Changes)
<1>1. \A n \in 1..MaxBatch : [1..n -> Changes \ Used] \subseteq Seq(Changes)
  <2>1. \A n \in Nat : [1..n -> Changes \ Used] \subseteq [1..n -> Changes]
    OBVIOUS
  <2>2. \A n \in Nat : [1..n -> Changes] \subseteq Seq(Changes)
    OBVIOUS
  <2> QED
    BY <2>1, <2>2, UnitsAssumption
<1> QED
  BY <1>1 DEF Lists

\* No step leaves a unit referring to a transaction that is gone.
LEMMA ReferencesStayLive ==
  TypeOK /\ [Next]_vars => ReferencesLive'
<1> SUFFICES ASSUME TypeOK, [Next]_vars
             PROVE  ReferencesLive'
  OBVIOUS
<1> USE DEF TypeOK, ReferencesLive, Goto, Ends
<1>1. ASSUME NEW v \in Units, Begin(v) \/ BeginThrows(v)
      PROVE  ReferencesLive'
  BY <1>1 DEF Begin, BeginThrows
<1>2. ASSUME NEW v \in Units, UNCHANGED <<open, field>>, at[v] \notin {"finishing", "closed"},
             \A u \in Units \ {v} : at'[u] = at[u]
      PROVE  ReferencesLive'
  BY <1>2
<1>3. ASSUME NEW v \in Units, \E c \in Changes : Track(v, c)
      PROVE  ReferencesLive'
  BY <1>2, <1>3 DEF Track
<1>4. ASSUME NEW v \in Units, SaveChanges(v) \/ Commit(v) \/ CommitThrows(v)
      PROVE  ReferencesLive'
  BY <1>2, <1>4 DEF SaveChanges, Commit, CommitThrows
<1>5. ASSUME NEW v \in Units, CommitTransaction(v)
      PROVE  ReferencesLive'
  BY <1>5 DEF CommitTransaction
<1>6. ASSUME NEW v \in Units, Discarded(v), \A u \in Units \ {v} : at'[u] = at[u]
      PROVE  ReferencesLive'
  BY <1>6 DEF Discarded
<1>7. ASSUME NEW v \in Units, Catch(v) \/ Finish(v) \/ Rollback(v)
      PROVE  ReferencesLive'
  <2>1. at[v] # "closed" /\ \A u \in Units \ {v} : at'[u] = at[u]
    BY <1>7 DEF Catch, Finish, Rollback
  <2>2. Discarded(v) \/ (UNCHANGED <<open, field>> /\ at[v] # "finishing")
    BY <1>7 DEF Catch, Finish, Rollback, RollbackThrew
  <2> QED
    BY <1>2, <1>6, <2>1, <2>2
<1>8. ASSUME NEW v \in Units,
             (\E list \in Lists : CreateMany(v, list)) \/ CreateNext(v) \/ CreateReturns(v)
      PROVE  ReferencesLive'
  <2>1. UNCHANGED <<open, field>> /\ at[v] \in {"idle", "creating"}
    BY <1>8 DEF CreateMany, CreateNext, CreateReturns
  <2>2. \A u \in Units \ {v} : at'[u] = at[u]
    BY <1>8 DEF CreateMany, CreateNext, CreateReturns
  <2> QED
    BY <1>2, <2>1, <2>2
<1>9. ASSUME NEW v \in Units, Dispose(v)
      PROVE  ReferencesLive'
  BY <1>9 DEF Dispose
<1>10. CASE UNCHANGED vars
  BY <1>10 DEF vars, unitVars
<1> QED
  BY <1>1, <1>3, <1>4, <1>5, <1>7, <1>8, <1>9, <1>10 DEF Next

\* The state of the units, the database and the counters keep their types.
THEOREM TypeCorrect == Spec => []TypeOK
<1>1. Init => TypeOK
  BY UnitsAssumption DEF Init, TypeOK, ReferencesLive, Places, Outcomes
<1>2. TypeOK /\ [Next]_vars => TypeOK'
  <2> SUFFICES ASSUME TypeOK, [Next]_vars
               PROVE  TypeOK'
    OBVIOUS
  <2>0. ReferencesLive'
    BY ReferencesStayLive
  <2> USE <2>0, UnitsAssumption DEF TypeOK, Places, Outcomes, Goto, Ends, Throws
  <2>1. ASSUME NEW u \in Units, Begin(u) \/ BeginThrows(u)
        PROVE  TypeOK'
    <3>1. open' \in [Units -> BOOLEAN] /\ field' \in [Units -> BOOLEAN]
      <4>1. CASE UNCHANGED <<open, field>>
        BY <4>1
      <4>2. CASE open' = [open EXCEPT ![u] = TRUE] /\ field' = [field EXCEPT ![u] = TRUE]
        BY Zenon, <4>2
      <4> QED
        BY <2>1, <4>1, <4>2 DEF Begin, BeginThrows
    <3>2. at' \in [Units -> Places] /\ last' \in [Units -> Outcomes]
      BY <2>1 DEF Begin, BeginThrows
    <3>3. failures' \in 0..MaxFailures
      BY <2>1 DEF Begin, BeginThrows
    <3> QED
      BY <2>1, <3>1, <3>2, <3>3 DEF Begin, BeginThrows
  <2>2. ASSUME NEW u \in Units, NEW c \in Changes, Track(u, c)
        PROVE  TypeOK'
    BY <2>2 DEF Track
  <2>3. ASSUME NEW u \in Units, SaveChanges(u)
        PROVE  TypeOK'
    <3>1. SaveTyped' /\ failures' \in 0..MaxFailures
      BY <2>3, SavedTyped, SaveThrowsTyped DEF SaveChanges
    <3>2. at' \in [Units -> Places] /\ last' \in [Units -> Outcomes]
      BY <2>3 DEF SaveChanges
    <3> QED
      BY <2>3, <3>1, <3>2 DEF SaveChanges, SaveTyped
  <2>4. ASSUME NEW u \in Units, Commit(u)
        PROVE  TypeOK'
    <3>1. SaveTyped' /\ failures' \in 0..MaxFailures
      BY <2>4, SavedTyped, SaveThrowsTyped DEF Commit
    <3>2. at' \in [Units -> Places] /\ last' \in [Units -> Outcomes]
      BY <2>4 DEF Commit
    <3> QED
      BY <2>4, <3>1, <3>2 DEF Commit, SaveTyped
  <2>5. ASSUME NEW u \in Units, CommitTransaction(u)
        PROVE  TypeOK'
    BY <2>5 DEF CommitTransaction
  <2>6. ASSUME NEW u \in Units, CommitThrows(u)
        PROVE  TypeOK'
    BY <2>6 DEF CommitThrows
  <2>7. ASSUME NEW u \in Units, Catch(u)
        PROVE  TypeOK'
    <3>1. TransactionTyped' /\ failures' \in 0..MaxFailures
      BY <2>7, DiscardedTyped, RollbackThrewTyped DEF Catch
    <3>2. at' \in [Units -> Places] /\ last' \in [Units -> Outcomes]
      BY <2>7 DEF Catch
    <3> QED
      BY <2>7, <3>1, <3>2 DEF Catch, TransactionTyped
  <2>8. ASSUME NEW u \in Units, Finish(u)
        PROVE  TypeOK'
    BY <2>8 DEF Finish, Discarded
  <2>9. ASSUME NEW u \in Units, Rollback(u)
        PROVE  TypeOK'
    <3>1. TransactionTyped' /\ failures' \in 0..MaxFailures
      BY <2>9, DiscardedTyped, RollbackThrewTyped DEF Rollback
    <3>2. at' \in [Units -> Places] /\ last' \in [Units -> Outcomes]
      BY <2>9 DEF Rollback
    <3> QED
      BY <2>9, <3>1, <3>2 DEF Rollback, TransactionTyped
  <2>10. ASSUME NEW u \in Units, NEW list \in Lists, CreateMany(u, list)
         PROVE  TypeOK'
    BY <2>10, ListsAreSequences DEF CreateMany
  <2>11. ASSUME NEW u \in Units, CreateNext(u)
         PROVE  TypeOK'
    <3>1. Head(todo[u]) \in Changes /\ Tail(todo[u]) \in Seq(Changes)
      BY <2>11 DEF CreateNext
    <3> DEFINE pending == tracked[u] \cup {Head(todo[u])}
    <3>2. pending \in SUBSET Changes
      BY <3>1
    <3>3. SaveTyped' /\ failures' \in 0..MaxFailures
      <4>1. (Saved(u, pending) /\ failures' = failures) \/ SaveThrows(u, pending)
        BY <2>11 DEF CreateNext
      <4> HIDE DEF pending
      <4> QED
        BY <3>2, <4>1, SavedTyped, SaveThrowsTyped
    <3>4. todo' \in [Units -> Seq(Changes)]
      <4>1. todo' = [todo EXCEPT ![u] = Tail(todo[u])] \/ todo' = [todo EXCEPT ![u] = << >>]
        BY <2>11 DEF CreateNext
      <4>2. CASE todo' = [todo EXCEPT ![u] = Tail(todo[u])]
        <5> HIDE DEF pending
        <5> QED
          BY <3>1, <4>2
      <4>3. CASE todo' = [todo EXCEPT ![u] = << >>]
        <5>1. << >> \in Seq(Changes)
          OBVIOUS
        <5> QED
          BY <4>3, <5>1
      <4> QED
        BY <4>1, <4>2, <4>3
    <3>5. /\ at' \in [Units -> Places] /\ last' \in [Units -> Outcomes]
          /\ made' \in [Units -> SUBSET Changes]
          /\ UNCHANGED <<open, field, undone, batches>>
      <4>1. (at' = at /\ last' = last) \/ Ends(u, "failed")
        BY <2>11 DEF CreateNext
      <4>2. made' = [made EXCEPT ![u] = made[u] \cup {Head(todo[u])}]
            /\ UNCHANGED <<open, field, undone, batches>>
        BY <2>11 DEF CreateNext
      <4> QED
        BY <3>1, <4>1, <4>2
    <3> QED
      BY <3>3, <3>4, <3>5 DEF SaveTyped
  <2>12. ASSUME NEW u \in Units, CreateReturns(u)
         PROVE  TypeOK'
    BY <2>12 DEF CreateReturns
  <2>13. ASSUME NEW u \in Units, Dispose(u)
         PROVE  TypeOK'
    BY <2>13 DEF Dispose
  <2>14. CASE UNCHANGED vars
    BY <2>14 DEF vars, unitVars
  <2> QED
    BY <2>1, <2>2, <2>3, <2>4, <2>5, <2>6, <2>7, <2>8, <2>9, <2>10, <2>11, <2>12, <2>13,
       <2>14 DEF Next
<1> QED
  BY <1>1, <1>2, PTL DEF Spec

----------------------------------------------------------------------------
(* What the shared parts of the actions do, unit by unit. *)

\* Nothing of unit d changes.
Same(d) ==
  /\ tracked'[d] = tracked[d] /\ staged'[d] = staged[d]
  /\ open'[d] = open[d] /\ field'[d] = field[d]
  /\ at'[d] = at[d] /\ todo'[d] = todo[d] /\ last'[d] = last[d]
  /\ made'[d] = made[d] /\ undone'[d] = undone[d]

LEMMA SavedValue ==
  ASSUME TypeOK, NEW u \in Units, NEW pending, Saved(u, pending)
  PROVE  /\ tracked'[u] = {}
         /\ open[u] => staged'[u] = staged[u] \cup pending /\ stored' = stored
         /\ ~open[u] => staged'[u] = staged[u] /\ stored' = stored \cup pending
         /\ \A d \in Units \ {u} : tracked'[d] = tracked[d] /\ staged'[d] = staged[d]
BY DEF TypeOK, Saved

LEMMA SaveThrowsValue ==
  ASSUME TypeOK, NEW u \in Units, NEW pending, SaveThrows(u, pending)
  PROVE  /\ tracked'[u] = pending /\ staged' = staged
         /\ stored' = stored \/ (~open[u] /\ stored' = stored \cup pending)
         /\ \A d \in Units \ {u} : tracked'[d] = tracked[d]
BY DEF TypeOK, SaveThrows

LEMMA DiscardedValue ==
  ASSUME TypeOK, NEW u \in Units, Discarded(u)
  PROVE  /\ undone'[u] = undone[u] \cup (staged[u] \ stored)
         /\ staged'[u] = {} /\ open'[u] = FALSE /\ field'[u] = FALSE
         /\ \A d \in Units \ {u} : /\ undone'[d] = undone[d] /\ staged'[d] = staged[d]
                                   /\ open'[d] = open[d] /\ field'[d] = field[d]
<1>1. /\ undone'[u] = undone[u] \cup (staged[u] \ stored)
      /\ \A d \in Units \ {u} : undone'[d] = undone[d]
  BY DEF TypeOK, Discarded
<1>2. staged'[u] = {} /\ \A d \in Units \ {u} : staged'[d] = staged[d]
  BY DEF TypeOK, Discarded
<1>3. /\ open'[u] = FALSE /\ field'[u] = FALSE
      /\ \A d \in Units \ {u} : open'[d] = open[d] /\ field'[d] = field[d]
  BY DEF TypeOK, Discarded
<1> QED
  BY <1>1, <1>2, <1>3

LEMMA RollbackThrewValue ==
  ASSUME TypeOK, NEW u \in Units, RollbackThrew(u)
  PROVE  /\ undone'[u] = undone[u] \cup (staged[u] \ stored)
         /\ \/ staged'[u] = {} /\ open'[u] = FALSE /\ field'[u] = FALSE
            \/ /\ u \notin Guarded
               /\ staged'[u] = staged[u] /\ open'[u] = open[u] /\ field'[u] = field[u]
         /\ \A d \in Units \ {u} : /\ undone'[d] = undone[d] /\ staged'[d] = staged[d]
                                   /\ open'[d] = open[d] /\ field'[d] = field[d]
<1>1. CASE u \notin Guarded /\ ~Discarded(u)
  BY <1>1 DEF RollbackThrew, TypeOK
<1> QED
  BY <1>1, DiscardedValue DEF RollbackThrew

\* A call that ends, or goes on.
LEMMA EndsValue ==
  ASSUME TypeOK, NEW u \in Units, NEW outcome, Ends(u, outcome)
  PROVE  /\ at'[u] = "idle" /\ last'[u] = outcome
         /\ \A d \in Units \ {u} : at'[d] = at[d] /\ last'[d] = last[d]
BY DEF TypeOK, Ends

LEMMA GotoValue ==
  ASSUME TypeOK, NEW u \in Units, NEW place, Goto(u, place)
  PROVE  at'[u] = place /\ \A d \in Units \ {u} : at'[d] = at[d]
BY DEF TypeOK, Goto

LEMMA ElementsOfRest ==
  ASSUME NEW s \in Seq(Changes), s # << >>
  PROVE  /\ Head(s) \in Elements(s) /\ Head(s) \in Changes
         /\ Elements(Tail(s)) \subseteq Elements(s)
         /\ Elements(<< >>) = {}
BY DEF Elements

----------------------------------------------------------------------------
(* The invariant of one unit, and the effect of a step on it.              *)

\* The places of a call where the field is not null exactly while the
\* connection has a transaction.
InStep == {"idle", "creating", "committing", "catching"}

UnitInv(u) ==
  /\ at[u] \in InStep => field[u] = open[u]
  /\ at[u] = "finishing" /\ open[u] => field[u]
  /\ at[u] = "closed" => ~open[u] /\ tracked[u] = {}
  /\ staged[u] # {} => open[u]
  /\ at[u] = "committing" => tracked[u] = {}
  /\ made[u] \subseteq stored \cup tracked[u] \cup staged[u] \cup undone[u]
  /\ tracked[u] \cup staged[u] \cup undone[u] \subseteq made[u]
  /\ last[u] = "committed" =>
        at[u] \in {"finishing", "idle", "closed"} /\ tracked[u] = {} /\ staged[u] = {}

\* What a step of u does to the others, and what may become stored by it.
Framed(u) ==
  /\ stored \subseteq stored'
  /\ stored' \subseteq stored \cup tracked[u] \cup staged[u] \cup Elements(todo[u])
  /\ \A d \in Units \ {u} : Same(d)

\* The history of the requests is only added to, and with what nobody asked for.
Asked(u) ==
  /\ made[u] \subseteq made'[u]
  /\ batches \subseteq batches'
  /\ \A c \in made'[u] \cup Elements(todo'[u]) :
        c \in made[u] \cup Elements(todo[u]) \/ c \notin Used
  /\ \A c \in Elements(todo'[u]) : c \in Elements(todo[u]) \/ c \in UNION {Elements(s) : s \in batches'}

StepOK(u) == UnitInv(u)' /\ Framed(u) /\ Asked(u)

LEMMA BeginStep ==
  ASSUME TypeOK, NEW u \in Units, UnitInv(u), Begin(u)
  PROVE  StepOK(u)
<1>1. /\ at[u] = "idle" /\ at'[u] = "idle" /\ last'[u] \in {"ok", "failed"}
      /\ \A d \in Units \ {u} : at'[d] = at[d] /\ last'[d] = last[d]
  BY EndsValue DEF Begin
<1>2. /\ open'[u] = field'[u]
      /\ staged[u] # {} => open'[u]
      /\ \A d \in Units \ {u} : open'[d] = open[d] /\ field'[d] = field[d]
  <2>1. CASE UNCHANGED <<open, field>>
    BY <1>1, <2>1 DEF UnitInv, InStep
  <2>2. CASE open' = [open EXCEPT ![u] = TRUE] /\ field' = [field EXCEPT ![u] = TRUE]
    BY <2>2 DEF TypeOK
  <2> QED
    BY <2>1, <2>2 DEF Begin
<1>3. UNCHANGED <<stored, tracked, staged, todo, made, undone, batches>>
  BY DEF Begin
<1> QED
  BY <1>1, <1>2, <1>3 DEF StepOK, UnitInv, Framed, Same, Asked

LEMMA BeginThrowsStep ==
  ASSUME TypeOK, NEW u \in Units, UnitInv(u), BeginThrows(u)
  PROVE  StepOK(u)
<1>1. /\ at[u] = "idle" /\ at'[u] = "idle" /\ last'[u] = "failed"
      /\ \A d \in Units \ {u} : at'[d] = at[d] /\ last'[d] = last[d]
  BY EndsValue DEF BeginThrows
<1>2. UNCHANGED <<stored, tracked, staged, open, field, todo, made, undone, batches>>
  BY DEF BeginThrows
<1> QED
  BY <1>1, <1>2 DEF StepOK, UnitInv, InStep, Framed, Same, Asked

LEMMA TrackStep ==
  ASSUME TypeOK, NEW u \in Units, NEW c \in Changes, UnitInv(u), Track(u, c)
  PROVE  StepOK(u)
<1>1. /\ at[u] = "idle" /\ at'[u] = "idle" /\ last'[u] = "none"
      /\ \A d \in Units \ {u} : at'[d] = at[d] /\ last'[d] = last[d]
  BY EndsValue DEF Track
<1>2. /\ tracked'[u] = tracked[u] \cup {c} /\ made'[u] = made[u] \cup {c} /\ c \notin Used
      /\ \A d \in Units \ {u} : tracked'[d] = tracked[d] /\ made'[d] = made[d]
      /\ UNCHANGED <<stored, staged, open, field, todo, undone, batches>>
  BY DEF Track, TypeOK
<1> QED
  BY <1>1, <1>2 DEF StepOK, UnitInv, InStep, Framed, Same, Asked

LEMMA SaveChangesStep ==
  ASSUME TypeOK, NEW u \in Units, UnitInv(u), SaveChanges(u)
  PROVE  StepOK(u)
<1>1. /\ at[u] = "idle" /\ at'[u] = "idle" /\ last'[u] \in {"ok", "failed"}
      /\ \A d \in Units \ {u} : at'[d] = at[d] /\ last'[d] = last[d]
  BY EndsValue DEF SaveChanges
<1>2. UNCHANGED <<open, field, todo, made, undone, batches>>
  BY DEF SaveChanges
<1>3. CASE Saved(u, tracked[u])
  BY <1>1, <1>2, <1>3, SavedValue DEF StepOK, UnitInv, InStep, Framed, Same, Asked
<1>4. CASE SaveThrows(u, tracked[u])
  BY <1>1, <1>2, <1>4, SaveThrowsValue DEF StepOK, UnitInv, InStep, Framed, Same, Asked
<1> QED
  BY <1>3, <1>4 DEF SaveChanges

LEMMA CommitStep ==
  ASSUME TypeOK, NEW u \in Units, UnitInv(u), Commit(u)
  PROVE  StepOK(u)
<1>1. /\ at[u] = "idle" /\ last'[u] = "none"
      /\ \A d \in Units \ {u} : last'[d] = last[d]
      /\ UNCHANGED <<open, field, todo, made, undone, batches>>
  BY DEF Commit, TypeOK
<1>2. CASE Saved(u, tracked[u]) /\ Goto(u, "committing")
  BY <1>1, <1>2, SavedValue, GotoValue DEF StepOK, UnitInv, InStep, Framed, Same, Asked
<1>3. CASE SaveThrows(u, tracked[u]) /\ Goto(u, "catching")
  BY <1>1, <1>3, SaveThrowsValue, GotoValue DEF StepOK, UnitInv, InStep, Framed, Same, Asked
<1> QED
  BY <1>2, <1>3 DEF Commit

LEMMA CommitTransactionStep ==
  ASSUME TypeOK, NEW u \in Units, UnitInv(u), CommitTransaction(u)
  PROVE  StepOK(u)
<1>1. /\ at[u] = "committing" /\ at'[u] = "finishing" /\ last'[u] = "committed"
      /\ \A d \in Units \ {u} : at'[d] = at[d] /\ last'[d] = last[d]
      /\ UNCHANGED <<tracked, field, todo, made, undone, batches>>
  BY GotoValue DEF CommitTransaction, TypeOK
<1>2. CASE field[u]
  <2>1. /\ stored' = stored \cup staged[u] /\ staged'[u] = {} /\ open'[u] = FALSE
        /\ \A d \in Units \ {u} : staged'[d] = staged[d] /\ open'[d] = open[d]
    BY <1>2 DEF CommitTransaction, TypeOK
  <2> QED
    BY <1>1, <2>1 DEF StepOK, UnitInv, InStep, Framed, Same, Asked
<1>3. CASE ~field[u]
  <2>1. UNCHANGED <<stored, staged, open>>
    BY <1>3 DEF CommitTransaction
  <2> QED
    BY <1>1, <1>3, <2>1 DEF StepOK, UnitInv, InStep, Framed, Same, Asked
<1> QED
  BY <1>2, <1>3

LEMMA CommitThrowsStep ==
  ASSUME TypeOK, NEW u \in Units, UnitInv(u), CommitThrows(u)
  PROVE  StepOK(u)
<1>1. /\ at[u] = "committing" /\ at'[u] = "catching"
      /\ \A d \in Units \ {u} : at'[d] = at[d]
      /\ UNCHANGED <<tracked, open, field, todo, last, made, undone, batches>>
  BY GotoValue DEF CommitThrows
<1>2. /\ \/ staged'[u] = staged[u] /\ stored' = stored
         \/ staged'[u] = {} /\ stored' = stored \cup staged[u]
      /\ \A d \in Units \ {u} : staged'[d] = staged[d]
  BY DEF CommitThrows, TypeOK
<1> QED
  BY <1>1, <1>2 DEF StepOK, UnitInv, InStep, Framed, Same, Asked

LEMMA CatchStep ==
  ASSUME TypeOK, NEW u \in Units, UnitInv(u), Catch(u)
  PROVE  StepOK(u)
<1>1. /\ at[u] = "catching" /\ at'[u] = "finishing" /\ last'[u] = "failed"
      /\ \A d \in Units \ {u} : at'[d] = at[d] /\ last'[d] = last[d]
      /\ UNCHANGED <<stored, tracked, todo, made, batches>>
  BY GotoValue DEF Catch, TypeOK
<1>2. CASE Discarded(u)
  BY <1>1, <1>2, DiscardedValue DEF StepOK, UnitInv, InStep, Framed, Same, Asked
<1>3. CASE RollbackThrew(u)
  BY <1>1, <1>3, RollbackThrewValue DEF StepOK, UnitInv, InStep, Framed, Same, Asked
<1> QED
  BY <1>2, <1>3 DEF Catch

LEMMA FinishStep ==
  ASSUME TypeOK, NEW u \in Units, UnitInv(u), Finish(u)
  PROVE  StepOK(u)
<1>1. /\ at[u] = "finishing" /\ at'[u] = "idle" /\ Discarded(u)
      /\ \A d \in Units \ {u} : at'[d] = at[d]
      /\ UNCHANGED <<stored, tracked, todo, last, made, batches>>
  BY GotoValue DEF Finish
<1> QED
  BY <1>1, DiscardedValue DEF StepOK, UnitInv, InStep, Framed, Same, Asked

LEMMA RollbackStep ==
  ASSUME TypeOK, NEW u \in Units, UnitInv(u), Rollback(u)
  PROVE  StepOK(u)
<1>1. /\ at[u] = "idle" /\ at'[u] = "idle" /\ last'[u] \in {"ok", "failed"}
      /\ \A d \in Units \ {u} : at'[d] = at[d] /\ last'[d] = last[d]
      /\ UNCHANGED <<stored, tracked, todo, made, batches>>
  BY EndsValue DEF Rollback
<1>2. CASE Discarded(u)
  BY <1>1, <1>2, DiscardedValue DEF StepOK, UnitInv, InStep, Framed, Same, Asked
<1>3. CASE RollbackThrew(u)
  <2>1. /\ undone'[u] = undone[u] \cup (staged[u] \ stored)
        /\ \/ staged'[u] = {} /\ open'[u] = FALSE /\ field'[u] = FALSE
           \/ staged'[u] = staged[u] /\ open'[u] = open[u] /\ field'[u] = field[u]
        /\ \A d \in Units \ {u} : /\ undone'[d] = undone[d] /\ staged'[d] = staged[d]
                                  /\ open'[d] = open[d] /\ field'[d] = field[d]
    BY <1>3, RollbackThrewValue
  <2>2. UnitInv(u)'
    BY <1>1, <2>1 DEF UnitInv, InStep
  <2>3. Framed(u) /\ Asked(u)
    BY <1>1, <2>1 DEF Framed, Same, Asked
  <2> QED
    BY <2>2, <2>3 DEF StepOK
<1> QED
  BY <1>2, <1>3 DEF Rollback

LEMMA CreateManyStep ==
  ASSUME TypeOK, NEW u \in Units, NEW list \in Lists, UnitInv(u), CreateMany(u, list)
  PROVE  StepOK(u)
<1>1. /\ at[u] = "idle" /\ at'[u] = "creating" /\ last'[u] = "none"
      /\ \A d \in Units \ {u} : at'[d] = at[d] /\ last'[d] = last[d]
      /\ UNCHANGED <<stored, tracked, staged, open, field, made, undone>>
  BY GotoValue DEF CreateMany, TypeOK
<1>2. /\ todo'[u] = list /\ list \in batches' /\ batches \subseteq batches'
      /\ \A d \in Units \ {u} : todo'[d] = todo[d]
  BY DEF CreateMany, TypeOK
<1>3. Elements(list) \cap Used = {}
  BY DEF Lists, Elements
<1> QED
  BY <1>1, <1>2, <1>3 DEF StepOK, UnitInv, InStep, Framed, Same, Asked

LEMMA CreateNextStep ==
  ASSUME TypeOK, NEW u \in Units, UnitInv(u), CreateNext(u)
  PROVE  StepOK(u)
<1> DEFINE h == Head(todo[u])
           pending == tracked[u] \cup {h}
<1>1. /\ at[u] = "creating" /\ UNCHANGED <<open, field, undone, batches>>
      /\ made'[u] = made[u] \cup {h} /\ \A d \in Units \ {u} : made'[d] = made[d]
  BY DEF CreateNext, TypeOK
<1>2. /\ h \in Elements(todo[u]) /\ Elements(Tail(todo[u])) \subseteq Elements(todo[u])
      /\ Elements(<< >>) = {}
  BY ElementsOfRest DEF CreateNext, TypeOK
<1>3. /\ Elements(todo'[u]) \subseteq Elements(todo[u])
      /\ \A d \in Units \ {u} : todo'[d] = todo[d]
  <2>1. CASE todo' = [todo EXCEPT ![u] = Tail(todo[u])]
    <3>1. todo'[u] = Tail(todo[u]) /\ \A d \in Units \ {u} : todo'[d] = todo[d]
      BY <2>1 DEF TypeOK
    <3> QED
      BY <1>2, <3>1
  <2>2. CASE todo' = [todo EXCEPT ![u] = << >>]
    <3>1. todo'[u] = << >> /\ \A d \in Units \ {u} : todo'[d] = todo[d]
      BY <2>2 DEF TypeOK
    <3> QED
      BY <1>2, <3>1
  <2> QED
    BY <2>1, <2>2 DEF CreateNext
<1>4. \/ Saved(u, pending) /\ at' = at /\ last' = last
      \/ SaveThrows(u, pending) /\ Ends(u, "failed")
  BY DEF CreateNext
<1> HIDE DEF h, pending
<1>5. pending = tracked[u] \cup {h}
  BY DEF pending
<1>6. Asked(u)
  BY <1>1, <1>2, <1>3 DEF Asked
<1>7. CASE Saved(u, pending) /\ at' = at /\ last' = last
  BY <1>1, <1>2, <1>3, <1>5, <1>6, <1>7, SavedValue DEF StepOK, UnitInv, InStep, Framed, Same
<1>8. CASE SaveThrows(u, pending) /\ Ends(u, "failed")
  BY <1>1, <1>2, <1>3, <1>5, <1>6, <1>8, SaveThrowsValue, EndsValue
     DEF StepOK, UnitInv, InStep, Framed, Same
<1> QED
  BY <1>4, <1>7, <1>8

LEMMA CreateReturnsStep ==
  ASSUME TypeOK, NEW u \in Units, UnitInv(u), CreateReturns(u)
  PROVE  StepOK(u)
<1>1. /\ at[u] = "creating" /\ at'[u] = "idle" /\ last'[u] = "ok"
      /\ \A d \in Units \ {u} : at'[d] = at[d] /\ last'[d] = last[d]
  BY EndsValue DEF CreateReturns
<1>2. UNCHANGED <<stored, tracked, staged, open, field, todo, made, undone, batches>>
  BY DEF CreateReturns
<1> QED
  BY <1>1, <1>2 DEF StepOK, UnitInv, InStep, Framed, Same, Asked

LEMMA DisposeStep ==
  ASSUME TypeOK, NEW u \in Units, UnitInv(u), Dispose(u)
  PROVE  StepOK(u)
<1>1. /\ at[u] = "idle" /\ at'[u] = "closed" /\ \A d \in Units \ {u} : at'[d] = at[d]
      /\ UNCHANGED <<stored, field, todo, last, made, batches>>
  BY GotoValue DEF Dispose
<1>2. /\ undone'[u] = undone[u] \cup ((staged[u] \cup tracked[u]) \ stored)
      /\ staged'[u] = {} /\ tracked'[u] = {}
      /\ \A d \in Units \ {u} : /\ undone'[d] = undone[d] /\ staged'[d] = staged[d]
                                /\ tracked'[d] = tracked[d]
  BY DEF Dispose, TypeOK
<1>3. open'[u] = FALSE /\ \A d \in Units \ {u} : open'[d] = open[d]
  BY DEF Dispose, TypeOK
<1> QED
  BY <1>1, <1>2, <1>3 DEF StepOK, UnitInv, InStep, Framed, Same, Asked

----------------------------------------------------------------------------
(* The invariant of all units. *)

Inv == TypeOK /\ \A u \in Units : UnitInv(u)

\* A step is a step of one unit, or changes nothing.
LEMMA SomeStep ==
  ASSUME Inv, [Next]_vars
  PROVE  (\E u \in Units : StepOK(u)) \/ UNCHANGED vars
<1> USE DEF Inv
<1>1. ASSUME NEW u \in Units,
             \/ Begin(u) \/ BeginThrows(u) \/ SaveChanges(u)
             \/ Commit(u) \/ CommitTransaction(u) \/ CommitThrows(u) \/ Catch(u) \/ Finish(u)
             \/ Rollback(u) \/ CreateNext(u) \/ CreateReturns(u) \/ Dispose(u)
      PROVE  StepOK(u)
  BY <1>1, BeginStep, BeginThrowsStep, SaveChangesStep, CommitStep, CommitTransactionStep,
     CommitThrowsStep, CatchStep, FinishStep, RollbackStep, CreateNextStep, CreateReturnsStep,
     DisposeStep
<1>2. ASSUME NEW u \in Units, NEW c \in Changes, Track(u, c)
      PROVE  StepOK(u)
  BY <1>2, TrackStep
<1>3. ASSUME NEW u \in Units, NEW list \in Lists, CreateMany(u, list)
      PROVE  StepOK(u)
  BY <1>3, CreateManyStep
<1> QED
  BY <1>1, <1>2, <1>3 DEF Next

LEMMA InvHolds == Spec => []Inv
<1>1. Init => \A u \in Units : UnitInv(u)
  BY DEF Init, UnitInv, InStep
<1>2. TypeOK /\ TypeOK' /\ (\A u \in Units : UnitInv(u)) /\ [Next]_vars
        => (\A u \in Units : UnitInv(u))'
  <2> SUFFICES ASSUME TypeOK, TypeOK', \A u \in Units : UnitInv(u), [Next]_vars, NEW d \in Units
               PROVE  UnitInv(d)'
    OBVIOUS
  <2>1. ASSUME NEW u \in Units, StepOK(u)
        PROVE  UnitInv(d)'
    <3>1. CASE d = u
      BY <2>1, <3>1 DEF StepOK
    <3>2. CASE d # u
      <4>1. Same(d) /\ stored \subseteq stored' /\ UnitInv(d)
        BY <2>1, <3>2 DEF StepOK, Framed
      <4> QED
        BY <4>1 DEF Same, UnitInv
    <3> QED
      BY <3>1, <3>2
  <2>2. CASE UNCHANGED vars
    BY <2>2 DEF vars, unitVars, UnitInv
  <2> QED
    BY <2>1, <2>2, SomeStep DEF Inv
<1> QED
  BY <1>1, <1>2, TypeCorrect, PTL DEF Spec, Inv

\* Between two calls the reference and the transaction of a unit go together.
THEOREM NoOrphan == Spec => []NoOrphanTransaction
<1>1. Inv => NoOrphanTransaction
  BY DEF Inv, UnitInv, InStep, NoOrphanTransaction
<1> QED
  BY <1>1, InvHolds, PTL

\* A commit that returned stored what the unit was asked for and not told to drop.
THEOREM CommitStores == Spec => []CommittedIsStored
<1>1. Inv => CommittedIsStored
  BY DEF Inv, UnitInv, CommittedIsStored
<1> QED
  BY <1>1, InvHolds, PTL

----------------------------------------------------------------------------
(* What a guarded unit drops stays out. *)

\* A guarded unit has dropped nothing that is stored or on its way there, and no
\* other unit was asked for what it was asked for.
Clean(g) ==
  /\ at[g] # "creating" /\ todo[g] = << >>
  /\ undone[g] \cap (stored \cup tracked[g] \cup staged[g]) = {}
  /\ tracked[g] \cap staged[g] = {}

Apart(g, u) == made[g] \cap (made[u] \cup Elements(todo[u])) = {}

GuardInv ==
  /\ \A u \in Units : \A c \in Elements(todo[u]) : c \in UNION {Elements(s) : s \in batches}
  /\ \A g \in Guarded : Clean(g) /\ \A u \in Units \ {g} : Apart(g, u)

\* A step of a guarded unit itself.
LEMMA GuardedStep ==
  ASSUME Inv, NEW g \in Guarded, g \in Units, Clean(g),
         \/ Begin(g) \/ BeginThrows(g) \/ SaveChanges(g)
         \/ Commit(g) \/ CommitTransaction(g) \/ CommitThrows(g) \/ Catch(g) \/ Finish(g)
         \/ Rollback(g) \/ CreateNext(g) \/ CreateReturns(g) \/ Dispose(g)
         \/ \E c \in Changes : Track(g, c)
         \/ \E list \in Lists : CreateMany(g, list)
  PROVE  Clean(g)'
<1> USE DEF Inv
<1>1. ASSUME Begin(g) \/ BeginThrows(g)
      PROVE  Clean(g)'
  BY <1>1, EndsValue DEF Begin, BeginThrows, Clean
<1>2. ASSUME NEW c \in Changes, Track(g, c)
      PROVE  Clean(g)'
  <2>1. /\ at'[g] = "idle" /\ tracked'[g] = tracked[g] \cup {c} /\ c \notin Used
        /\ UNCHANGED <<stored, staged, todo, undone>>
    BY <1>2, EndsValue DEF Track, TypeOK
  <2>2. c \notin undone[g] /\ c \notin staged[g]
    BY <2>1 DEF UnitInv, Used
  <2> QED
    BY <2>1, <2>2 DEF Clean
<1>3. ASSUME SaveChanges(g) \/ Commit(g)
      PROVE  Clean(g)'
  <2>1. /\ at'[g] \in {"idle", "committing", "catching"}
        /\ UNCHANGED <<todo, undone>>
        /\ Saved(g, tracked[g]) \/ SaveThrows(g, tracked[g])
    BY <1>3, EndsValue, GotoValue DEF SaveChanges, Commit
  <2>2. CASE Saved(g, tracked[g])
    BY <2>1, <2>2, SavedValue DEF Clean
  <2>3. CASE SaveThrows(g, tracked[g])
    BY <2>1, <2>3, SaveThrowsValue DEF Clean
  <2> QED
    BY <2>1, <2>2, <2>3
<1>4. ASSUME CommitTransaction(g) \/ CommitThrows(g)
      PROVE  Clean(g)'
  <2>1. /\ at'[g] \in {"finishing", "catching"} /\ UNCHANGED <<tracked, todo, undone>>
        /\ stored' \subseteq stored \cup staged[g] /\ staged'[g] \subseteq staged[g]
    BY <1>4, GotoValue DEF CommitTransaction, CommitThrows, TypeOK
  <2> QED
    BY <2>1 DEF Clean
<1>5. ASSUME Catch(g) \/ Finish(g) \/ Rollback(g)
      PROVE  Clean(g)'
  <2>1. /\ at'[g] \in {"finishing", "idle"} /\ UNCHANGED <<stored, tracked, todo>>
        /\ Discarded(g)
    BY <1>5, EndsValue, GotoValue DEF Catch, Finish, Rollback, RollbackThrew
  <2>2. undone'[g] = undone[g] \cup (staged[g] \ stored) /\ staged'[g] = {}
    BY <2>1, DiscardedValue
  <2> QED
    BY <2>1, <2>2 DEF Clean
<1>6. ASSUME Dispose(g)
      PROVE  Clean(g)'
  <2>1. /\ at'[g] = "closed" /\ UNCHANGED <<stored, todo>>
        /\ undone'[g] = undone[g] \cup ((staged[g] \cup tracked[g]) \ stored)
        /\ staged'[g] = {} /\ tracked'[g] = {}
    BY <1>6, GotoValue DEF Dispose, TypeOK
  <2> QED
    BY <2>1 DEF Clean
<1>7. ~CreateNext(g) /\ ~CreateReturns(g) /\ \A list \in Lists : ~CreateMany(g, list)
  BY DEF CreateNext, CreateReturns, CreateMany, Clean
<1> QED
  BY <1>1, <1>2, <1>3, <1>4, <1>5, <1>6, <1>7

\* A step of another unit, or of a guarded one, and the histories of both.
LEMMA ApartStep ==
  ASSUME Inv, GuardInv, NEW u \in Units, StepOK(u),
         NEW g \in Guarded, g \in Units, NEW d \in Units \ {g}
  PROVE  Apart(g, d)'
<1>1. /\ made[g] \subseteq Used /\ made[d] \subseteq Used
      /\ Elements(todo[d]) \subseteq Used /\ Elements(todo[g]) = {}
  <2>1. Elements(todo[g]) = {}
    BY DEF GuardInv, Clean, Elements
  <2>2. made[g] \subseteq Used /\ made[d] \subseteq Used
    <3>1. \A v \in Units : made[v] \subseteq UNION {made[w] : w \in Units}
      OBVIOUS
    <3> QED
      BY <3>1 DEF Used
  <2>3. UNION {Elements(s) : s \in batches} \subseteq Used
    BY DEF Used
  <2>4. Elements(todo[d]) \subseteq UNION {Elements(s) : s \in batches}
    BY DEF GuardInv
  <2> QED
    BY <2>1, <2>2, <2>3, <2>4
<1>2. Apart(g, d)
  BY DEF GuardInv
<1>3. CASE u = g
  <2>1. made'[d] = made[d] /\ todo'[d] = todo[d]
    BY <1>3 DEF StepOK, Framed, Same
  <2>2. \A c \in made'[g] : c \in made[g] \/ c \notin Used
    BY <1>1, <1>3 DEF StepOK, Asked
  <2> QED
    BY <1>1, <1>2, <2>1, <2>2 DEF Apart
<1>4. CASE u = d
  <2>1. made'[g] = made[g]
    BY <1>4 DEF StepOK, Framed, Same
  <2>2. \A c \in made'[d] \cup Elements(todo'[d]) :
           c \in made[d] \cup Elements(todo[d]) \/ c \notin Used
    BY <1>4 DEF StepOK, Asked
  <2> QED
    BY <1>1, <1>2, <2>1, <2>2 DEF Apart
<1>5. CASE u # g /\ u # d
  BY <1>2, <1>5 DEF StepOK, Framed, Same, Apart
<1> QED
  BY <1>3, <1>4, <1>5

\* A step of another unit stores nothing that a guarded one was asked for.
LEMMA OtherStep ==
  ASSUME Inv, GuardInv, NEW u \in Units, StepOK(u),
         NEW g \in Guarded, g \in Units, g # u
  PROVE  Clean(g)'
<1>1. /\ Same(g) /\ Clean(g) /\ Apart(g, u)
      /\ undone[g] \subseteq made[g] /\ tracked[u] \cup staged[u] \subseteq made[u]
      /\ stored' \subseteq stored \cup tracked[u] \cup staged[u] \cup Elements(todo[u])
  BY DEF StepOK, Framed, GuardInv, Inv, UnitInv
<1> QED
  BY <1>1 DEF Same, Clean, Apart

LEMMA ElementsAsked ==
  ASSUME GuardInv, NEW u \in Units, StepOK(u), NEW d \in Units, NEW c \in Elements(todo'[d])
  PROVE  c \in UNION {Elements(s) : s \in batches'}
<1>1. CASE d = u
  BY <1>1 DEF StepOK, Asked, GuardInv
<1>2. CASE d # u
  BY <1>2 DEF StepOK, Framed, Same, Asked, GuardInv
<1> QED
  BY <1>1, <1>2

LEMMA GuardHolds == Spec => []GuardInv
<1>1. Init => GuardInv
  BY UnitsAssumption DEF Init, GuardInv, Clean, Apart, Elements
<1>2. Inv /\ GuardInv /\ [Next]_vars => GuardInv'
  <2> SUFFICES ASSUME Inv, GuardInv, [Next]_vars
               PROVE  GuardInv'
    OBVIOUS
  <2>1. Guarded \subseteq Units
    BY UnitsAssumption
  <2>2. CASE UNCHANGED vars
    BY <2>2 DEF vars, unitVars, GuardInv, Clean, Apart
  <2>3. ASSUME NEW u \in Units, StepOK(u), u \in Guarded => Clean(u)'
        PROVE  GuardInv'
    <3>1. \A d \in Units : \A c \in Elements(todo'[d]) : c \in UNION {Elements(s) : s \in batches'}
      BY <2>3, ElementsAsked
    <3>2. ASSUME NEW g \in Guarded
          PROVE  Clean(g)' /\ \A d \in Units \ {g} : Apart(g, d)'
      BY <2>1, <2>3, OtherStep, ApartStep
    <3> QED
      BY <3>1, <3>2 DEF GuardInv
  <2>4. ASSUME NEW u \in Units,
               \/ Begin(u) \/ BeginThrows(u) \/ SaveChanges(u)
               \/ Commit(u) \/ CommitTransaction(u) \/ CommitThrows(u) \/ Catch(u) \/ Finish(u)
               \/ Rollback(u) \/ CreateNext(u) \/ CreateReturns(u) \/ Dispose(u)
               \/ \E c \in Changes : Track(u, c)
               \/ \E list \in Lists : CreateMany(u, list)
        PROVE  GuardInv'
    <3>1. StepOK(u)
      BY <2>4, BeginStep, BeginThrowsStep, SaveChangesStep, CommitStep, CommitTransactionStep,
         CommitThrowsStep, CatchStep, FinishStep, RollbackStep, CreateNextStep,
         CreateReturnsStep, DisposeStep, TrackStep, CreateManyStep DEF Inv
    <3>2. u \in Guarded => Clean(u)'
      BY <2>4, GuardedStep DEF GuardInv
    <3> QED
      BY <2>3, <3>1, <3>2
  <2> QED
    BY <2>2, <2>4 DEF Next
<1> QED
  BY <1>1, <1>2, InvHolds, PTL DEF Spec

\* What a guarded unit was told to roll back is never stored.
THEOREM RollbackIsFinal == Spec => []RolledBackStaysOut
<1>1. GuardInv => RolledBackStaysOut
  BY DEF GuardInv, Clean, RolledBackStaysOut
<1> QED
  BY <1>1, GuardHolds, PTL

----------------------------------------------------------------------------
(* The order of a batch.                                                   *)

\* A list has c at a place before d.
Before(c, d) ==
  \E list \in batches : \E j \in DOMAIN list : \E i \in 1..(j - 1) : c = list[i] /\ d = list[j]

\* The changes that are stored, or that some unit was to drop; and those that
\* have come at least as far as the context of u.
Settled == stored \cup {c \in Changes : \E u \in Units : c \in undone[u]}
Reached(u) == Settled \cup staged[u] \cup tracked[u]

\* Whatever stands before a change of X is in Y.
Preceded(X, Y) == \A c, d \in Changes : d \in X /\ Before(c, d) => c \in Y

\* Wherever a change is on its way to the database, those before it are at least
\* as far: the ones CreateMany has still to add stand in the order of their list.
UnitOrder(u) ==
  /\ Preceded(staged[u], Settled \cup staged[u])
  /\ Preceded(tracked[u], Reached(u))
  /\ \A k \in DOMAIN todo[u] : Preceded({todo[u][k]}, Reached(u) \cup {todo[u][l] : l \in 1..(k - 1)})

OrderInv ==
  /\ stored \subseteq Used
  /\ Preceded(stored, Settled)
  /\ \A u \in Units : UnitOrder(u)

\* Only what was in a list stands after anything.
LEMMA BeforeUsed ==
  ASSUME NEW c, NEW d, Before(c, d)
  PROVE  d \in Used
<1>1. PICK list \in batches : \E j \in DOMAIN list : d = list[j]
  BY DEF Before
<1>2. d \in Elements(list)
  BY <1>1 DEF Elements
<1> QED
  BY <1>2 DEF Used

LEMMA EverythingUsed ==
  ASSUME Inv, GuardInv, OrderInv, NEW u \in Units
  PROVE  /\ stored \cup tracked[u] \cup staged[u] \cup Elements(todo[u]) \subseteq Used
         /\ \A k \in DOMAIN todo[u] : todo[u][k] \in Used /\ todo[u][k] \in Changes
<1>1. tracked[u] \cup staged[u] \subseteq Used
  <2>1. made[u] \in {made[w] : w \in Units}
    OBVIOUS
  <2>2. tracked[u] \cup staged[u] \subseteq made[u]
    BY DEF Inv, UnitInv
  <2> QED
    BY <2>1, <2>2 DEF Used
<1>2. Elements(todo[u]) \subseteq Used
  BY DEF GuardInv, Used
<1>3. \A k \in DOMAIN todo[u] : todo[u][k] \in Elements(todo[u])
  BY DEF Elements
<1>4. \A k \in DOMAIN todo[u] : todo[u][k] \in Changes
  <2>1. todo[u] \in Seq(Changes)
    BY DEF Inv, TypeOK
  <2> QED
    BY <2>1
<1> QED
  BY <1>1, <1>2, <1>3, <1>4 DEF OrderInv

\* Nothing is stored that nobody asked for.
LEMMA StoredUsed ==
  ASSUME Inv, GuardInv, OrderInv, NEW u \in Units, StepOK(u)
  PROVE  stored' \subseteq Used'
<1>1. stored' \subseteq Used
  BY EverythingUsed DEF StepOK, Framed
<1>2. Used \subseteq Used'
  <2>1. \A d \in Units : made[d] \subseteq made'[d]
    BY DEF StepOK, Framed, Same, Asked
  <2>2. batches \subseteq batches'
    BY DEF StepOK, Asked
  <2>3. UNION {made[d] : d \in Units} \subseteq UNION {made'[d] : d \in Units}
    BY <2>1
  <2>4. UNION {Elements(s) : s \in batches} \subseteq UNION {Elements(s) : s \in batches'}
    BY <2>2
  <2> QED
    BY <2>3, <2>4 DEF Used
<1> QED
  BY <1>1, <1>2

LEMMA SettledGrows ==
  ASSUME NEW u \in Units, StepOK(u), undone[u] \subseteq undone'[u]
  PROVE  /\ Settled \subseteq Settled'
         /\ \A d \in Units \ {u} : Reached(d) \subseteq Reached(d)'
<1>1. Settled \subseteq Settled'
  <2>1. stored \subseteq stored' /\ \A d \in Units : undone[d] \subseteq undone'[d]
    BY DEF StepOK, Framed, Same
  <2> QED
    BY <2>1 DEF Settled
<1>2. \A d \in Units \ {u} : tracked'[d] = tracked[d] /\ staged'[d] = staged[d]
  BY DEF StepOK, Framed, Same
<1> QED
  BY <1>1, <1>2 DEF Reached

\* A step of u that starts no list keeps the order when it keeps that of u.
LEMMA OrderKept ==
  ASSUME Inv, GuardInv, OrderInv, NEW u \in Units, StepOK(u),
         batches' = batches, undone[u] \subseteq undone'[u],
         \A c, d \in Changes : Before(c, d) =>
            /\ d \in stored' => c \in Settled'
            /\ d \in staged'[u] => c \in Settled' \cup staged'[u]
            /\ d \in tracked'[u] => c \in Reached(u)'
            /\ \A k \in DOMAIN todo'[u] :
                  d = todo'[u][k] => c \in Reached(u)' \cup {todo'[u][l] : l \in 1..(k - 1)}
  PROVE  OrderInv'
<1>1. \A c, d : Before(c, d)' <=> Before(c, d)
  BY DEF Before
<1>2. Preceded(stored, Settled)'
  BY <1>1 DEF Preceded
<1>3. UnitOrder(u)'
  BY <1>1 DEF UnitOrder, Preceded
<1>4. ASSUME NEW v \in Units \ {u}
      PROVE  UnitOrder(v)'
  <2>1. staged'[v] = staged[v] /\ tracked'[v] = tracked[v] /\ todo'[v] = todo[v]
    BY DEF StepOK, Framed, Same
  <2>2. Settled \subseteq Settled' /\ Reached(v) \subseteq Reached(v)'
    BY SettledGrows
  <2>3. UnitOrder(v)
    BY DEF OrderInv
  <2> QED
    BY <1>1, <2>1, <2>2, <2>3 DEF UnitOrder, Preceded
<1> QED
  BY <1>2, <1>3, <1>4, StoredUsed DEF OrderInv

\* Moving: what u had staged is stored, dropped or still staged, what it tracked
\* is no further from the database, and it asks for nothing.
Moved(u) ==
  /\ batches' = batches /\ undone[u] \subseteq undone'[u] /\ todo'[u] = todo[u]
  /\ stored' = stored \/ (stored' = stored \cup staged[u])
  /\ staged'[u] \subseteq staged[u] /\ tracked'[u] \subseteq tracked[u]
  /\ staged[u] \subseteq stored' \cup undone'[u] \cup staged'[u]
  /\ tracked[u] \subseteq stored' \cup undone'[u] \cup tracked'[u]

LEMMA MovedKeeps ==
  ASSUME Inv, GuardInv, OrderInv, NEW u \in Units, StepOK(u), Moved(u)
  PROVE  OrderInv'
<1> USE DEF Moved
<1>1. UnitOrder(u) /\ Preceded(stored, Settled) /\ Settled \subseteq Settled'
  BY SettledGrows DEF OrderInv
<1>2. staged[u] \subseteq Settled' \cup staged'[u] /\ tracked[u] \subseteq Settled' \cup tracked'[u]
  <2>1. staged[u] \subseteq Changes /\ tracked[u] \subseteq Changes
    BY DEF Inv, TypeOK
  <2>2. stored' \subseteq Settled' /\ \A c \in Changes : c \in undone'[u] => c \in Settled'
    BY DEF Settled
  <2> QED
    BY <2>1, <2>2
<1>3. Reached(u) \subseteq Reached(u)'
  BY <1>1, <1>2 DEF Reached
<1>4. ASSUME NEW c \in Changes, NEW d \in Changes, Before(c, d)
      PROVE  /\ d \in stored' => c \in Settled'
             /\ d \in staged'[u] => c \in Settled' \cup staged'[u]
             /\ d \in tracked'[u] => c \in Reached(u)'
             /\ \A k \in DOMAIN todo'[u] :
                   d = todo'[u][k] => c \in Reached(u)' \cup {todo'[u][l] : l \in 1..(k - 1)}
  <2>1. d \in stored' => c \in Settled'
    <3>1. CASE stored' = stored
      BY <1>1, <1>4, <3>1 DEF Preceded
    <3>2. CASE stored' = stored \cup staged[u]
      <4>1. d \in stored' => c \in Settled \cup staged[u]
        BY <1>1, <1>4, <3>2 DEF Preceded, UnitOrder
      <4>2. staged[u] \subseteq Settled'
        BY <3>2 DEF Settled
      <4> QED
        BY <1>1, <4>1, <4>2
    <3> QED
      BY <3>1, <3>2
  <2>2. d \in staged'[u] => c \in Settled' \cup staged'[u]
    BY <1>1, <1>2, <1>4 DEF UnitOrder, Preceded
  <2>3. d \in tracked'[u] => c \in Reached(u)'
    BY <1>1, <1>3, <1>4 DEF UnitOrder, Preceded
  <2>4. \A k \in DOMAIN todo'[u] :
           d = todo'[u][k] => c \in Reached(u)' \cup {todo'[u][l] : l \in 1..(k - 1)}
    BY <1>1, <1>3, <1>4 DEF UnitOrder, Preceded
  <2> QED
    BY <2>1, <2>2, <2>3, <2>4
<1> HIDE DEF Moved
<1> QED
  BY <1>4, OrderKept DEF Moved

\* Saving keeps the order when what stands before a pending change is settled,
\* staged or pending too, and the rest of the list follows.
LEMMA SavingKeeps ==
  ASSUME Inv, GuardInv, OrderInv, NEW u \in Units, StepOK(u),
         NEW pending \in SUBSET Changes, tracked[u] \subseteq pending,
         Preceded(pending, Reached(u)),
         Saved(u, pending) \/ SaveThrows(u, pending),
         batches' = batches, undone' = undone,
         \A k \in DOMAIN todo'[u] :
            Preceded({todo'[u][k]}, Reached(u) \cup pending \cup {todo'[u][l] : l \in 1..(k - 1)})
  PROVE  OrderInv'
<1>1. UnitOrder(u) /\ Preceded(stored, Settled) /\ Settled \subseteq Settled'
  BY SettledGrows DEF OrderInv
<1>2. \/ tracked'[u] = {} /\ staged'[u] = staged[u] \cup pending /\ stored' = stored
      \/ tracked'[u] = {} /\ staged'[u] = staged[u] /\ staged[u] = {} /\ stored' = stored \cup pending
      \/ tracked'[u] = pending /\ staged'[u] = staged[u] /\ stored' = stored
      \/ tracked'[u] = pending /\ staged'[u] = staged[u] /\ staged[u] = {} /\ stored' = stored \cup pending
  <2>1. ~open[u] => staged[u] = {}
    BY DEF Inv, UnitInv
  <2>2. CASE Saved(u, pending)
    BY <2>1, <2>2, SavedValue DEF Inv
  <2>3. CASE SaveThrows(u, pending)
    BY <2>1, <2>3, SaveThrowsValue DEF Inv
  <2> QED
    BY <2>2, <2>3
<1>3. stored' \subseteq Settled'
  BY DEF Settled
<1>4. Reached(u) \cup pending \subseteq Reached(u)'
  BY <1>1, <1>2, <1>3 DEF Reached
<1>5. ASSUME NEW c \in Changes, NEW d \in Changes, Before(c, d)
      PROVE  /\ d \in stored' => c \in Settled'
             /\ d \in staged'[u] => c \in Settled' \cup staged'[u]
             /\ d \in tracked'[u] => c \in Reached(u)'
             /\ \A k \in DOMAIN todo'[u] :
                   d = todo'[u][k] => c \in Reached(u)' \cup {todo'[u][l] : l \in 1..(k - 1)}
  <2>1. /\ d \in pending => c \in Settled \cup staged[u] \cup pending
        /\ d \in staged[u] => c \in Settled \cup staged[u]
        /\ d \in stored => c \in Settled
    BY <1>1, <1>5 DEF Preceded, UnitOrder, Reached
  <2>2. d \in stored' => c \in Settled'
    BY <1>1, <1>2, <1>3, <2>1
  <2>3. d \in staged'[u] => c \in Settled' \cup staged'[u]
    BY <1>1, <1>2, <2>1
  <2>4. d \in tracked'[u] => c \in Reached(u)'
    BY <1>2, <1>4, <2>1 DEF Reached
  <2>5. \A k \in DOMAIN todo'[u] :
           d = todo'[u][k] => c \in Reached(u)' \cup {todo'[u][l] : l \in 1..(k - 1)}
    BY <1>4, <1>5 DEF Preceded
  <2> QED
    BY <2>2, <2>3, <2>4, <2>5
<1> QED
  BY <1>5, OrderKept

\* Saving what is tracked.
LEMMA OrderSave ==
  ASSUME Inv, GuardInv, OrderInv, NEW u \in Units, StepOK(u), SaveChanges(u) \/ Commit(u)
  PROVE  OrderInv'
<1>1. /\ Saved(u, tracked[u]) \/ SaveThrows(u, tracked[u])
      /\ UNCHANGED <<todo, undone, batches>>
  BY DEF SaveChanges, Commit
<1>2. tracked[u] \in SUBSET Changes
  BY DEF Inv, TypeOK
<1>3. Preceded(tracked[u], Reached(u))
  BY DEF OrderInv, UnitOrder
<1>4. \A k \in DOMAIN todo'[u] :
         Preceded({todo'[u][k]}, Reached(u) \cup tracked[u] \cup {todo'[u][l] : l \in 1..(k - 1)})
  <2>1. todo' = todo /\ UnitOrder(u)
    BY <1>1 DEF OrderInv
  <2> QED
    BY <2>1 DEF UnitOrder, Preceded
<1> QED
  BY <1>1, <1>2, <1>3, <1>4, SavingKeeps

\* Saving the head of the list with what is tracked: what stands before it is
\* tracked, staged or settled.
LEMMA OrderCreateNext ==
  ASSUME Inv, GuardInv, OrderInv, NEW u \in Units, StepOK(u), CreateNext(u)
  PROVE  OrderInv'
<1> DEFINE h == Head(todo[u])
           pending == tracked[u] \cup {h}
<1>1. /\ Saved(u, pending) \/ SaveThrows(u, pending)
      /\ todo' = [todo EXCEPT ![u] = Tail(todo[u])] \/ todo' = [todo EXCEPT ![u] = << >>]
      /\ UNCHANGED <<undone, batches>>
  BY DEF CreateNext
<1>2. todo[u] \in Seq(Changes) /\ todo[u] # << >> /\ tracked[u] \in SUBSET Changes
  BY DEF CreateNext, Inv, TypeOK
<1>3. 1 \in DOMAIN todo[u] /\ h = todo[u][1] /\ h \in Changes
  BY <1>2
<1>4. UnitOrder(u)
  BY DEF OrderInv
<1>5. Preceded({h}, Reached(u))
  BY <1>3, <1>4 DEF UnitOrder, Preceded
<1>6. Preceded(pending, Reached(u))
  BY <1>4, <1>5 DEF UnitOrder, Preceded
<1>7. ASSUME NEW k \in DOMAIN todo'[u]
      PROVE  Preceded({todo'[u][k]}, Reached(u) \cup pending \cup {todo'[u][l] : l \in 1..(k - 1)})
  <2>1. todo'[u] = Tail(todo[u]) \/ todo'[u] = << >>
    BY <1>1 DEF Inv, TypeOK
  <2>2. CASE todo'[u] = << >>
    BY <2>2
  <2>3. CASE todo'[u] = Tail(todo[u])
    <3>1. /\ k \in Nat /\ k + 1 \in DOMAIN todo[u] /\ todo'[u][k] = todo[u][k + 1]
          /\ \A l \in 1..(k - 1) : todo'[u][l] = todo[u][l + 1]
      BY <1>2, <2>3
    <3>2. {todo[u][l] : l \in 1..((k + 1) - 1)} \subseteq pending \cup {todo'[u][l] : l \in 1..(k - 1)}
      <4> SUFFICES ASSUME NEW l \in 1..k
                   PROVE  todo[u][l] \in pending \cup {todo'[u][m] : m \in 1..(k - 1)}
        BY <3>1
      <4>1. CASE l = 1
        BY <1>3, <4>1
      <4>2. CASE l # 1
        <5>1. l - 1 \in 1..(k - 1) /\ (l - 1) + 1 = l
          BY <3>1, <4>2
        <5>2. todo'[u][l - 1] = todo[u][l]
          BY <3>1, <5>1
        <5> QED
          BY <5>1, <5>2
      <4> QED
        BY <4>1, <4>2
    <3>3. Preceded({todo[u][k + 1]}, Reached(u) \cup {todo[u][l] : l \in 1..((k + 1) - 1)})
      BY <1>4, <3>1 DEF UnitOrder
    <3> HIDE DEF pending
    <3> QED
      BY <3>1, <3>2, <3>3 DEF Preceded
  <2> QED
    BY <2>1, <2>2, <2>3
<1>8. pending \in SUBSET Changes /\ tracked[u] \subseteq pending
  BY <1>2, <1>3
<1> HIDE DEF pending
<1> QED
  BY <1>1, <1>6, <1>7, <1>8, SavingKeeps

\* A list of changes nobody has asked for: nothing of it is anywhere yet, and
\* each of its changes has those before it in the list.
LEMMA OrderCreateMany ==
  ASSUME Inv, GuardInv, OrderInv, NEW u \in Units, StepOK(u),
         NEW list \in Lists, CreateMany(u, list)
  PROVE  OrderInv'
<1>1. /\ UNCHANGED <<stored, tracked, staged, undone>> /\ batches' = batches \cup {list}
      /\ todo'[u] = list /\ \A v \in Units \ {u} : todo'[v] = todo[v]
  BY DEF CreateMany, Inv, TypeOK
<1>2. /\ \A k \in DOMAIN list : list[k] \notin Used
      /\ \A i, j \in DOMAIN list : list[i] = list[j] => i = j
  BY DEF Lists
<1>3. list \in Seq(Changes)
  BY ListsAreSequences
<1>4. ASSUME NEW c, NEW d, Before(c, d)'
      PROVE  \/ Before(c, d)
             \/ /\ d \notin Used
                /\ \A k \in DOMAIN list : d = list[k] => c \in {list[l] : l \in 1..(k - 1)}
  <2>1. PICK s \in batches' : \E j \in DOMAIN s : \E i \in 1..(j - 1) : c = s[i] /\ d = s[j]
    BY <1>4 DEF Before
  <2>2. CASE s \in batches
    BY <2>1, <2>2 DEF Before
  <2>3. CASE s = list
    BY <1>2, <2>1, <2>3
  <2> QED
    BY <1>1, <2>1, <2>2, <2>3
<1>5. ASSUME NEW c, NEW d \in Used, Before(c, d)'
      PROVE  Before(c, d)
  BY <1>4, <1>5
<1>6. Settled' = Settled /\ \A v \in Units : Reached(v)' = Reached(v)
  BY <1>1 DEF Settled, Reached
<1>7. \A v \in Units : UnitOrder(v)
  BY DEF OrderInv
<1>8. ASSUME NEW v \in Units
      PROVE  UnitOrder(v)'
  <2>1. Preceded(staged[v], Settled \cup staged[v])'
    BY <1>1, <1>5, <1>6, <1>7, EverythingUsed DEF UnitOrder, Preceded
  <2>2. Preceded(tracked[v], Reached(v))'
    BY <1>1, <1>5, <1>6, <1>7, EverythingUsed DEF UnitOrder, Preceded
  <2>3. ASSUME NEW k \in DOMAIN todo'[v]
        PROVE  Preceded({todo[v][k]}, Reached(v) \cup {todo[v][l] : l \in 1..(k - 1)})'
    <3>1. CASE v = u
      <4>1. list[k] \notin Used /\ k \in DOMAIN list
        BY <1>1, <1>2, <2>3, <3>1
      <4>2. ASSUME NEW c, Before(c, list[k])'
            PROVE  c \in {list[l] : l \in 1..(k - 1)}
        BY <1>4, <4>1, <4>2, BeforeUsed
      <4> QED
        BY <1>1, <3>1, <4>2 DEF Preceded
    <3>2. CASE v # u
      <4>1. todo'[v] = todo[v] /\ todo[v][k] \in Used
        BY <1>1, <2>3, <3>2, EverythingUsed
      <4>2. Preceded({todo[v][k]}, Reached(v) \cup {todo[v][l] : l \in 1..(k - 1)})
        BY <1>7, <2>3, <4>1 DEF UnitOrder
      <4> QED
        BY <1>5, <1>6, <4>1, <4>2 DEF Preceded
    <3> QED
      BY <3>1, <3>2
  <2> QED
    BY <2>1, <2>2, <2>3 DEF UnitOrder
<1>9. Preceded(stored, Settled)'
  BY <1>1, <1>5, <1>6 DEF OrderInv, Preceded
<1> QED
  BY <1>8, <1>9, StoredUsed DEF OrderInv

\* A change of its own stands after nothing.
LEMMA OrderTrack ==
  ASSUME Inv, GuardInv, OrderInv, NEW u \in Units, StepOK(u), NEW e \in Changes, Track(u, e)
  PROVE  OrderInv'
<1>1. /\ tracked'[u] = tracked[u] \cup {e} /\ e \notin Used
      /\ UNCHANGED <<stored, staged, todo, undone, batches>>
  BY DEF Track, Inv, TypeOK
<1>2. Settled' = Settled /\ Reached(u) \subseteq Reached(u)'
  BY <1>1 DEF Settled, Reached
<1>3. UnitOrder(u) /\ Preceded(stored, Settled)
  BY DEF OrderInv
<1>4. ASSUME NEW c \in Changes, NEW d \in Changes, Before(c, d)
      PROVE  /\ d \in stored' => c \in Settled'
             /\ d \in staged'[u] => c \in Settled' \cup staged'[u]
             /\ d \in tracked'[u] => c \in Reached(u)'
             /\ \A k \in DOMAIN todo'[u] :
                   d = todo'[u][k] => c \in Reached(u)' \cup {todo'[u][l] : l \in 1..(k - 1)}
  <2>1. d # e
    BY <1>1, <1>4, BeforeUsed
  <2> QED
    BY <1>1, <1>2, <1>3, <1>4, <2>1 DEF UnitOrder, Preceded
<1> QED
  BY <1>1, <1>4, OrderKept

\* What the end of a transaction, or of a unit, does with what was staged.
LEMMA OrderOther ==
  ASSUME Inv, GuardInv, OrderInv, NEW u \in Units, StepOK(u),
         \/ Begin(u) \/ BeginThrows(u) \/ CommitTransaction(u) \/ CommitThrows(u)
         \/ Catch(u) \/ Finish(u) \/ Rollback(u) \/ CreateReturns(u) \/ Dispose(u)
  PROVE  OrderInv'
<1> SUFFICES Moved(u)
  BY MovedKeeps
<1>1. CASE Begin(u) \/ BeginThrows(u) \/ CreateReturns(u)
  BY <1>1 DEF Begin, BeginThrows, CreateReturns, Moved
<1>2. CASE CommitTransaction(u) \/ CommitThrows(u)
  <2>1. /\ UNCHANGED <<tracked, todo, undone, batches>>
        /\ \/ staged' = staged /\ stored' = stored
           \/ staged'[u] = {} /\ stored' = stored \cup staged[u]
    BY <1>2 DEF CommitTransaction, CommitThrows, Inv, TypeOK
  <2> QED
    BY <2>1 DEF Moved
<1>3. CASE Catch(u) \/ Finish(u) \/ Rollback(u)
  <2>1. /\ UNCHANGED <<stored, tracked, todo, batches>>
        /\ Discarded(u) \/ RollbackThrew(u)
    BY <1>3 DEF Catch, Finish, Rollback
  <2>2. /\ undone'[u] = undone[u] \cup (staged[u] \ stored)
        /\ staged'[u] = {} \/ staged'[u] = staged[u]
    BY <2>1, DiscardedValue, RollbackThrewValue DEF Inv
  <2> QED
    BY <2>1, <2>2 DEF Moved
<1>4. CASE Dispose(u)
  <2>1. /\ UNCHANGED <<stored, todo, batches>>
        /\ undone'[u] = undone[u] \cup ((staged[u] \cup tracked[u]) \ stored)
        /\ staged'[u] = {} /\ tracked'[u] = {}
    BY <1>4 DEF Dispose, Inv, TypeOK
  <2> QED
    BY <2>1 DEF Moved
<1> QED
  BY <1>1, <1>2, <1>3, <1>4

\* The entities of a CreateMany are stored in the order of the list.
THEOREM BatchesInOrder == Spec => []BatchInOrder
<1>1. Init => OrderInv
  BY DEF Init, OrderInv, UnitOrder, Preceded
<1>2. Inv /\ GuardInv /\ OrderInv /\ [Next]_vars => OrderInv'
  <2> SUFFICES ASSUME Inv, GuardInv, OrderInv, [Next]_vars
               PROVE  OrderInv'
    OBVIOUS
  <2>1. CASE UNCHANGED vars
    BY <2>1 DEF vars, unitVars, OrderInv, UnitOrder, Preceded, Before, Settled, Reached, Used
  <2>2. ASSUME NEW u \in Units, NEW c \in Changes, Track(u, c)
        PROVE  OrderInv'
    BY <2>2, TrackStep, OrderTrack DEF Inv
  <2>3. ASSUME NEW u \in Units, SaveChanges(u) \/ Commit(u)
        PROVE  OrderInv'
    BY <2>3, SaveChangesStep, CommitStep, OrderSave DEF Inv
  <2>4. ASSUME NEW u \in Units, CreateNext(u)
        PROVE  OrderInv'
    BY <2>4, CreateNextStep, OrderCreateNext DEF Inv
  <2>5. ASSUME NEW u \in Units, NEW list \in Lists, CreateMany(u, list)
        PROVE  OrderInv'
    BY <2>5, CreateManyStep, OrderCreateMany DEF Inv
  <2>6. ASSUME NEW u \in Units,
               \/ Begin(u) \/ BeginThrows(u) \/ CommitTransaction(u) \/ CommitThrows(u)
               \/ Catch(u) \/ Finish(u) \/ Rollback(u) \/ CreateReturns(u) \/ Dispose(u)
        PROVE  OrderInv'
    BY <2>6, BeginStep, BeginThrowsStep, CommitTransactionStep, CommitThrowsStep, CatchStep,
       FinishStep, RollbackStep, CreateReturnsStep, DisposeStep, OrderOther DEF Inv
  <2> QED
    BY <2>1, <2>2, <2>3, <2>4, <2>5, <2>6 DEF Next
<1>3. Inv /\ OrderInv => BatchInOrder
  <2> SUFFICES ASSUME Inv, OrderInv, NEW list \in batches, NEW j \in DOMAIN list,
                      NEW i \in 1..(j - 1), list[j] \in stored
               PROVE  list[i] \in stored \cup UNION {undone[u] : u \in Units}
    BY DEF BatchInOrder
  <2>1. list \in Seq(Changes)
    BY DEF Inv, TypeOK
  <2>2. list[i] \in Changes /\ list[j] \in Changes
    BY <2>1
  <2>3. Before(list[i], list[j])
    BY DEF Before
  <2>4. list[i] \in Settled
    BY <2>2, <2>3 DEF OrderInv, Preceded
  <2> QED
    BY <2>4 DEF Settled
<1> QED
  BY <1>1, <1>2, <1>3, InvHolds, GuardHolds, PTL DEF Spec
=============================================================================
