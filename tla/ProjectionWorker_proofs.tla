------------------------ MODULE ProjectionWorker_proofs ------------------------
(* Proofs about ProjectionWorker, for any users, any page size and any number *)
(* of rows and of deaths.                                                     *)
EXTENDS ProjectionWorker, WellFoundedInduction, FiniteSetTheorems,
        SequenceTheorems, TLAPS

\* A non-empty set of rows has an oldest one.
LEMMA OldestExists ==
  ASSUME NEW S, S # {}, \A r \in S : r.id \in Nat
  PROVE  \E o \in S : \A r \in S : o.id <= r.id
<1> DEFINE below == {p \in Nat \X Nat : p[1] < p[2]}
           ids == {r.id : r \in S}
<1>1. IsWellFoundedOn(below, Nat)
  <2>1. below = OpToRel(<, Nat)
    BY DEF OpToRel
  <2> QED
    BY <2>1, NatLessThanWellFounded
<1>2. ids \subseteq Nat /\ ids # {}
  OBVIOUS
<1>3. PICK m \in ids : \A n \in ids : <<n, m>> \notin below
  <2> HIDE DEF below, ids
  <2> QED
    BY <1>1, <1>2, WFMin
<1>4. ASSUME NEW n \in ids
      PROVE  m <= n
  <2>1. n \in Nat /\ m \in Nat
    BY <1>2
  <2>2. <<n, m>> \notin below
    BY <1>3
  <2>3. ~(n < m)
    BY <2>1, <2>2
  <2> QED
    BY <2>1, <2>3
<1> QED
  BY <1>4

\* The oldest of some rows is on their first page.
LEMMA OldestOnPage ==
  ASSUME NEW rows, NEW o \in rows, \A r \in rows : o.id \in Nat /\ r.id \in Nat /\ o.id <= r.id
  PROVE  o \in Page(rows)
<1>1. {s \in rows : s.id < o.id} = {}
  OBVIOUS
<1> QED
  BY <1>1, FS_EmptySet, BoundsAssumption DEF Page

------------------------------------------------------------------------------

LEMMA TypeInit == Init => TypeOK
<1> USE BoundsAssumption
<1> SUFFICES ASSUME Init
             PROVE  TypeOK
  OBVIOUS
<1>1. details \in Seq(Detail)
  BY EmptySeq DEF Init
<1>2. deaths \in 0..MaxDeaths
  BY DEF Init
<1>3. times \in [Ids -> Nat]
  BY DEF Init
<1>4. /\ nextId \in Nat \ {0}
      /\ checkpoint \in Nat
      /\ cursor \in Nat
  BY DEF Init
<1>5. /\ inserting \subseteq Row
      /\ table \subseteq Row
      /\ batch \subseteq table
      /\ lost \subseteq Ids
  BY DEF Init
<1>6. worker = "stopped" /\ batch = {} /\ failed = FALSE
  BY DEF Init
<1>7. batch # {} <=> worker \in {"projecting", "storing"}
  BY <1>6
<1>8. worker \in Phases /\ failed \in BOOLEAN
  BY <1>6 DEF Phases
<1> QED
  BY <1>1, <1>2, <1>3, <1>4, <1>5, <1>7, <1>8 DEF TypeOK

LEMMA TypeInductive == TypeOK /\ [Next]_vars => TypeOK'
<1> USE BoundsAssumption
<1> SUFFICES ASSUME TypeOK, [Next]_vars
             PROVE  TypeOK'
  OBVIOUS
<1>1. ASSUME NEW u \in Users, NEW kind \in {"UserCreated", "UsernameChanged", "Other"},
             BeginInsert(u, kind)
      PROVE  TypeOK'
  <2>1. nextId \in Nat \ {0}
    BY DEF TypeOK
  <2>2. [id |-> nextId, user |-> u, kind |-> kind] \in Row
    BY <1>1, <2>1 DEF BeginInsert, Row, Ids
  <2> QED
    BY <1>1, <2>1, <2>2 DEF BeginInsert, TypeOK, workerVars, history
<1>2. ASSUME NEW r \in inserting, Commit(r)
      PROVE  TypeOK'
  BY <1>2 DEF Commit, TypeOK, workerVars, Row
<1>3. CASE Start
  BY <1>3 DEF Start, TypeOK, Phases, history
<1>4. CASE Poll
  BY <1>4 DEF Poll, TypeOK, Phases, Page, Pending, history
<1>5. ASSUME NEW e \in batch, Project(e)
      PROVE  TypeOK'
  <2>1. e \in Row
    BY DEF TypeOK
  <2>2. details' \in Seq(Detail)
    <3>1. CASE e.kind = "UserCreated"
      <4>1. [user |-> e.user, name |-> e.id] \in Detail
        BY <2>1 DEF Detail, Row
      <4>2. details' = Append(details, [user |-> e.user, name |-> e.id])
        BY <1>5, <3>1 DEF Project
      <4> QED
        BY <4>1, <4>2, AppendProperties DEF TypeOK
    <3>2. ASSUME NEW i \in DOMAIN details, details' = [details EXCEPT ![i].name = e.id]
          PROVE  details' \in Seq(Detail)
      <4>1. details \in Seq(Detail) /\ i \in 1..Len(details)
        BY DEF TypeOK
      <4>2. details[i] \in Detail
        BY <4>1, ElementOfSeq
      <4>3. [details[i] EXCEPT !.name = e.id] \in Detail
        BY <2>1, <4>2 DEF Detail, Row
      <4> QED
        BY <3>2, <4>1, <4>3, ExceptSeq
    <3> QED
      BY <1>5, <3>1, <3>2 DEF Project
  <2>3. times' \in [Ids -> Nat]
    BY <1>5, <2>1 DEF Project, TypeOK, Row
  <2> QED
    BY <1>5, <2>2, <2>3 DEF Project, TypeOK, Phases
<1>6. CASE Die /\ deaths' \in 0..MaxDeaths /\ failed' \in BOOLEAN
  BY <1>6 DEF Die, TypeOK, Phases, Row
<1>7. ASSUME NEW e \in batch, ProjectThrows(e)
      PROVE  TypeOK'
  BY <1>6, <1>7 DEF ProjectThrows, TypeOK
<1>8. ASSUME NEW e \in batch, StoreCheckpoint(e)
      PROVE  TypeOK'
  <2>1. e.id \in Nat
    BY DEF TypeOK, Row, Ids
  <2> QED
    BY <1>8, <2>1 DEF StoreCheckpoint, TypeOK, Phases, history
<1>9. CASE Kill
  BY <1>6, <1>9 DEF Kill, TypeOK
<1>10. CASE UNCHANGED vars
  BY <1>10 DEF vars, workerVars, history, TypeOK
<1> QED
  BY <1>1, <1>2, <1>3, <1>4, <1>5, <1>7, <1>8, <1>9, <1>10 DEF Next, Work

\* The tables, the position of the worker and the read model keep their types.
THEOREM TypeCorrect == Spec => []TypeOK
BY TypeInit, TypeInductive, PTL DEF Spec

------------------------------------------------------------------------------

\* No two rows have the same RecordId, and the checkpoint is the last one the
\* worker has dealt with.
Positions ==
    /\ \A r \in inserting \cup table : r.id < nextId
    /\ \A r, s \in inserting \cup table : r.id = s.id => r = s
    /\ checkpoint \in 0..MaxEvents
    /\ worker # "stopped" => cursor = checkpoint
    /\ worker = "storing" => \A e \in batch : IsCurrent(e) => times[e.id] > 0

\* The worker is done with a row, or has left it.
Settled(r) == r.kind # "Other" => times[r.id] > 0 \/ r.id \in lost

\* Every row that is older than what the worker will look at next is settled.
LossInv ==
    /\ worker \in {"stopped", "polling"} =>
          \A r \in table : r.id <= checkpoint => Settled(r)
    /\ worker \in {"projecting", "storing"} =>
          \A r \in table : (\A b \in batch : r.id < b.id) => Settled(r)

\* How often a row can have been projected, by where the worker is: no more
\* than there are positions up to the one it will poll from.
RedeliveryInv ==
    /\ RedeliveryBounded
    /\ worker # "storing" => \A i \in Ids : times[i] <= checkpoint + deaths
    /\ \A i \in Ids : times[i] <= checkpoint + 1 + deaths
    /\ \A b \in batch : \A i \in Ids : times[i] <= b.id + deaths
    /\ \A a, b \in batch :
          worker = "projecting" \/ ~IsCurrent(a) => times[a.id] < b.id + deaths

LEMMA PositionsInductive == TypeOK /\ Positions /\ [Next]_vars => Positions'
<1> SUFFICES ASSUME TypeOK, Positions, [Next]_vars
             PROVE  Positions'
  OBVIOUS
<1>1. ASSUME NEW u \in Users, NEW kind \in {"UserCreated", "UsernameChanged", "Other"},
             BeginInsert(u, kind)
      PROVE  Positions'
  <2> DEFINE new == [id |-> nextId, user |-> u, kind |-> kind]
  <2>1. inserting' \cup table' = (inserting \cup table) \cup {new}
    BY <1>1 DEF BeginInsert
  <2>2. \A r \in inserting \cup table : r.id \in Nat /\ r.id < nextId
    BY DEF TypeOK, Positions, Row, Ids
  <2>3. new.id = nextId /\ nextId' = nextId + 1 /\ nextId \in Nat
    BY <1>1 DEF BeginInsert, TypeOK
  <2> HIDE DEF new
  <2>4. \A r \in inserting' \cup table' : r.id < nextId'
    BY <2>1, <2>2, <2>3
  <2>5. \A r, s \in inserting' \cup table' : r.id = s.id => r = s
    BY <2>1, <2>2, <2>3 DEF Positions
  <2> QED
    BY <1>1, <2>4, <2>5 DEF BeginInsert, Positions, IsCurrent, workerVars, history
<1>2. ASSUME NEW r \in inserting, Commit(r)
      PROVE  Positions'
  <2>1. inserting' \cup table' = inserting \cup table
    BY <1>2 DEF Commit
  <2> QED
    BY <1>2, <2>1 DEF Commit, Positions, IsCurrent, workerVars
<1>3. CASE Start
  BY <1>3 DEF Start, Positions, history
<1>4. CASE Poll
  BY <1>4 DEF Poll, Positions, history
<1>5. ASSUME NEW e \in batch, Project(e)
      PROVE  Positions'
  <2>1. e.id \in Ids /\ times[e.id] \in Nat
    BY DEF TypeOK, Row
  <2>2. times'[e.id] > 0
    BY <1>5, <2>1 DEF Project, TypeOK
  <2>3. \A c \in batch : IsCurrent(c)' => c.id = e.id
    BY <1>5 DEF Project, IsCurrent, TypeOK, Row, Ids
  <2> QED
    BY <1>5, <2>2, <2>3 DEF Project, Positions
<1>6. CASE Die
  BY <1>6 DEF Die, Positions
<1>7. ASSUME NEW e \in batch, StoreCheckpoint(e)
      PROVE  Positions'
  <2>1. e.id \in 0..MaxEvents
    BY DEF TypeOK, Row, Ids
  <2> QED
    BY <1>7, <2>1 DEF StoreCheckpoint, Positions, history
<1>8. CASE UNCHANGED vars
  BY <1>8 DEF vars, workerVars, history, Positions, IsCurrent
<1> QED
  BY <1>1, <1>2, <1>3, <1>4, <1>5, <1>6, <1>7, <1>8 DEF Next, Work, Kill, ProjectThrows

\* Projections are only added, and so are losses.
LEMMA SettledStays ==
  ASSUME TypeOK, [Next]_vars, NEW r \in table, Settled(r)
  PROVE  Settled(r)'
<1>1. r.id \in Ids
  BY DEF TypeOK, Row
<1>2. times'[r.id] >= times[r.id]
  <2>1. times[r.id] \in Nat
    BY <1>1 DEF TypeOK
  <2>2. ASSUME NEW e \in batch, Project(e)
        PROVE  times'[r.id] >= times[r.id]
    BY <1>1, <2>1, <2>2 DEF Project, TypeOK
  <2>3. CASE UNCHANGED times
    BY <2>1, <2>3
  <2> QED
    BY <2>2, <2>3 DEF Next, Work, BeginInsert, Commit, Start, Poll, ProjectThrows, Kill,
                      Die, StoreCheckpoint, vars, history
<1>3. lost \subseteq lost'
  BY DEF Next, Work, BeginInsert, Commit, Start, Poll, Project, ProjectThrows, Kill,
         Die, StoreCheckpoint, vars, history
<1>4. times[r.id] \in Nat /\ times'[r.id] \in Nat
  <2>1. TypeOK'
    BY TypeInductive
  <2> QED
    BY <1>1, <2>1 DEF TypeOK
<1> QED
  BY <1>2, <1>3, <1>4 DEF Settled

LEMMA LossInductive ==
  TypeOK /\ Positions /\ LossInv /\ [Next]_vars => LossInv'
<1> SUFFICES ASSUME TypeOK, Positions, LossInv, [Next]_vars
             PROVE  LossInv'
  OBVIOUS
<1>1. \A r \in table : Settled(r) => Settled(r)'
  BY SettledStays
<1> DEFINE AtRest == worker \in {"stopped", "polling"}
           InBatch == worker \in {"projecting", "storing"}
<1>2. \A r \in inserting \cup table : r.id \in Nat
  BY DEF TypeOK, Row, Ids
<1>3. ASSUME NEW u \in Users, NEW kind \in {"UserCreated", "UsernameChanged", "Other"},
             BeginInsert(u, kind)
      PROVE  LossInv'
  BY <1>1, <1>3 DEF BeginInsert, LossInv, workerVars
<1>4. ASSUME NEW c \in inserting, Commit(c)
      PROVE  LossInv'
  <2>1. table' = table \cup {c} /\ UNCHANGED workerVars
    BY <1>4 DEF Commit
  <2>2. c.kind # "Other" /\ Behind(c.id) => c.id \in lost'
    BY <1>4 DEF Commit
  <2>3. CASE AtRest
    <3>1. c.id <= checkpoint => Behind(c.id)
      BY <2>3 DEF Behind, Positions
    <3> QED
      BY <1>1, <2>1, <2>2, <2>3, <3>1 DEF LossInv, Settled, workerVars
  <2>4. CASE InBatch
    <3>1. (\A b \in batch : c.id < b.id) => Behind(c.id)
      BY <1>2, <2>4 DEF Behind, TypeOK
    <3> QED
      BY <1>1, <2>1, <2>2, <2>4, <3>1 DEF LossInv, Settled, workerVars
  <2> QED
    BY <2>3, <2>4 DEF TypeOK, Phases
<1>5. CASE Start
  BY <1>1, <1>5 DEF Start, LossInv
<1>6. CASE Poll
  <2>1. cursor = checkpoint
    BY <1>6 DEF Poll, Positions
  <2> SUFFICES ASSUME NEW r \in table, \A b \in Page(Pending) : r.id < b.id
               PROVE  Settled(r)
    BY <1>1, <1>6 DEF Poll, LossInv
  <2>2. CASE r.id <= checkpoint \/ r.kind = "Other"
    BY <1>6, <2>2 DEF Poll, LossInv, Settled
  <2>3. CASE ~(r.id <= checkpoint) /\ r.kind # "Other"
    <3>1. r \in Pending
      BY <1>2, <2>1, <2>3 DEF Pending, TypeOK
    <3>2. \A s \in Pending : s.id \in Nat
      BY <1>2 DEF Pending
    <3>3. PICK o \in Pending : \A s \in Pending : o.id <= s.id
      BY <3>1, <3>2, OldestExists
    <3>4. o \in Page(Pending)
      BY <3>2, <3>3, OldestOnPage
    <3>5. r.id < o.id /\ o.id <= r.id
      BY <3>1, <3>3, <3>4
    <3> QED
      BY <3>1, <3>2, <3>5
  <2> QED
    BY <2>2, <2>3
<1>7. ASSUME NEW e \in batch, Project(e)
      PROVE  LossInv'
  BY <1>1, <1>7 DEF Project, LossInv
<1>8. CASE Die
  <2> SUFFICES ASSUME NEW r \in table, r.id <= checkpoint
               PROVE  Settled(r)'
    BY <1>8 DEF Die, LossInv
  <2>1. CASE AtRest
    BY <1>1, <2>1 DEF LossInv
  <2>2. CASE InBatch /\ \A b \in batch : r.id < b.id
    BY <1>1, <2>2 DEF LossInv
  <2>3. CASE \E b \in batch : b.id <= r.id
    BY <1>8, <2>3 DEF Die, Settled
  <2>4. \A b \in batch : r.id < b.id \/ b.id <= r.id
    BY <1>2 DEF TypeOK
  <2> QED
    BY <2>1, <2>2, <2>3, <2>4 DEF TypeOK, Phases
<1>9. ASSUME NEW e \in batch, StoreCheckpoint(e)
      PROVE  LossInv'
  <2>1. /\ worker = "storing" /\ IsCurrent(e)
        /\ batch' = batch \ {e} /\ checkpoint' = e.id
        /\ worker' = IF batch' = {} THEN "polling" ELSE "projecting"
        /\ UNCHANGED <<table, times>>
    BY <1>9 DEF StoreCheckpoint, history
  <2>2. \A b \in batch : b.id \in Nat /\ b.id <= e.id
    BY <1>2, <2>1 DEF IsCurrent, TypeOK
  <2>3. times[e.id] > 0
    BY <2>1 DEF Positions
  <2>4. \A r \in table : (\A b \in batch : r.id < b.id) => Settled(r)
    BY <2>1 DEF LossInv
  <2>5. CASE batch' = {}
    <3>1. \A r \in table : r.id < e.id => Settled(r)
      BY <2>1, <2>4, <2>5
    <3>2. \A r \in table : r.id = e.id => Settled(r)
      BY <2>3 DEF Settled
    <3>3. \A r \in table : r.id <= e.id => Settled(r)
      BY <1>2, <2>2, <3>1, <3>2
    <3> QED
      BY <1>1, <2>1, <2>5, <3>3 DEF LossInv
  <2>6. CASE batch' # {}
    <3>1. ASSUME NEW r \in table, \A b \in batch' : r.id < b.id
          PROVE  \A b \in batch : r.id < b.id
      BY <1>2, <2>1, <2>2, <2>6, <3>1
    <3> QED
      BY <1>1, <2>1, <2>4, <2>6, <3>1 DEF LossInv
  <2> QED
    BY <2>5, <2>6
<1>10. CASE UNCHANGED vars
  BY <1>1, <1>10 DEF vars, workerVars, LossInv
<1> QED
  BY <1>3, <1>4, <1>5, <1>6, <1>7, <1>8, <1>9, <1>10
     DEF Next, Work, Kill, ProjectThrows

LEMMA RedeliveryInductive ==
  TypeOK /\ Positions /\ RedeliveryInv /\ [Next]_vars => RedeliveryInv'
<1> SUFFICES ASSUME TypeOK, Positions, RedeliveryInv, [Next]_vars
             PROVE  RedeliveryInv'
  OBVIOUS
<1>1. /\ deaths \in Nat /\ checkpoint \in Nat
      /\ \A i \in Ids : i \in Nat /\ times[i] \in Nat
      /\ \A b \in batch : b.id \in Ids
  BY BoundsAssumption DEF TypeOK, Row, Ids
<1>2. ASSUME UNCHANGED <<worker, checkpoint, batch, times, deaths>>
      PROVE  RedeliveryInv'
  BY <1>2 DEF RedeliveryInv, RedeliveryBounded, IsCurrent
<1>3. CASE Start
  BY <1>3 DEF Start, TypeOK, RedeliveryInv, RedeliveryBounded, history
<1>4. CASE Poll
  <2>1. /\ worker = "polling" /\ cursor = checkpoint
        /\ UNCHANGED <<checkpoint, times, deaths>>
    BY <1>4 DEF Poll, Positions, history
  <2>2. \A b \in batch' : b.id \in Ids /\ checkpoint < b.id
    BY <1>4, <2>1 DEF Poll, Page, Pending, TypeOK, Row
  <2>3. \A b \in batch' : \A i \in Ids : times[i] < b.id + deaths
    <3> SUFFICES ASSUME NEW b \in batch', NEW i \in Ids
                 PROVE  times[i] < b.id + deaths
      OBVIOUS
    <3>1. times[i] <= checkpoint + deaths
      BY <2>1 DEF RedeliveryInv
    <3> QED
      BY <1>1, <2>2, <3>1
  <2>4. \A b \in batch' : \A i \in Ids : times[i] <= b.id + deaths
    BY <1>1, <2>2, <2>3
  <2> QED
    BY <2>1, <2>2, <2>3, <2>4 DEF RedeliveryInv, RedeliveryBounded
<1>5. ASSUME NEW e \in batch, Project(e)
      PROVE  RedeliveryInv'
  <2>1. /\ worker = "projecting" /\ worker' = "storing" /\ IsCurrent(e)
        /\ times' = [times EXCEPT ![e.id] = @ + 1]
        /\ UNCHANGED <<checkpoint, batch, deaths>>
    BY <1>5 DEF Project
  <2>2. \A i \in Ids : times'[i] = IF i = e.id THEN times[i] + 1 ELSE times[i]
    BY <2>1 DEF TypeOK
  <2>3. \A b \in batch : times[e.id] < b.id + deaths
    BY <2>1 DEF RedeliveryInv
  <2>4. \A b \in batch : \A i \in Ids : times'[i] <= b.id + deaths
    <3> SUFFICES ASSUME NEW b \in batch, NEW i \in Ids
                 PROVE  times'[i] <= b.id + deaths
      OBVIOUS
    <3>1. times[i] <= b.id + deaths
      BY DEF RedeliveryInv
    <3> QED
      BY <1>1, <2>2, <2>3, <3>1
  <2>5. RedeliveryBounded'
    <3> SUFFICES ASSUME NEW i \in Ids
                 PROVE  times'[i] <= i + deaths
      BY <2>1 DEF RedeliveryBounded
    <3>1. CASE i = e.id
      BY <2>4, <3>1
    <3>2. CASE i # e.id
      BY <2>2, <3>2 DEF RedeliveryInv, RedeliveryBounded
    <3> QED
      BY <3>1, <3>2
  <2>6. \A i \in Ids : times'[i] <= checkpoint + 1 + deaths
    <3> SUFFICES ASSUME NEW i \in Ids
                 PROVE  times'[i] <= checkpoint + 1 + deaths
      OBVIOUS
    <3>1. times[i] <= checkpoint + deaths
      BY <2>1 DEF RedeliveryInv
    <3> QED
      BY <1>1, <2>2, <3>1
  <2>7. ASSUME NEW a \in batch, NEW b \in batch, ~IsCurrent(a)'
        PROVE  times'[a.id] < b.id + deaths
    <3>1. ~IsCurrent(a)
      BY <2>1, <2>7 DEF IsCurrent
    <3>2. a.id # e.id
      <4>1. a # e
        BY <2>1, <3>1
      <4>2. a \in table /\ e \in table
        BY DEF TypeOK
      <4> QED
        BY <4>1, <4>2 DEF Positions
    <3>3. times[a.id] < b.id + deaths
      BY <3>1 DEF RedeliveryInv
    <3> QED
      BY <1>1, <2>2, <3>2, <3>3
  <2> QED
    BY <2>1, <2>4, <2>5, <2>6, <2>7 DEF RedeliveryInv
<1>6. CASE Kill
  <2>1. /\ worker' = "stopped" /\ batch' = {} /\ deaths' = deaths + 1
        /\ UNCHANGED <<checkpoint, times>>
    BY <1>6 DEF Kill, Die
  <2>2. \A i \in Ids : /\ times[i] <= i + deaths'
                       /\ times[i] <= checkpoint + deaths'
                       /\ times[i] <= checkpoint + 1 + deaths'
    <3> SUFFICES ASSUME NEW i \in Ids
                 PROVE  /\ times[i] <= i + deaths'
                        /\ times[i] <= checkpoint + deaths'
                        /\ times[i] <= checkpoint + 1 + deaths'
      OBVIOUS
    <3>1. times[i] <= i + deaths /\ times[i] <= checkpoint + 1 + deaths
      BY DEF RedeliveryInv, RedeliveryBounded
    <3> QED
      BY <1>1, <2>1, <3>1
  <2> QED
    BY <2>1, <2>2 DEF RedeliveryInv, RedeliveryBounded
<1>7. ASSUME NEW e \in batch, ProjectThrows(e)
      PROVE  RedeliveryInv'
  BY <1>7 DEF ProjectThrows, Die, RedeliveryInv, RedeliveryBounded
<1>8. ASSUME NEW e \in batch, StoreCheckpoint(e)
      PROVE  RedeliveryInv'
  <2>1. /\ worker = "storing" /\ IsCurrent(e)
        /\ batch' = batch \ {e} /\ checkpoint' = e.id
        /\ worker' \in {"polling", "projecting"}
        /\ UNCHANGED <<times, deaths>>
    BY <1>8 DEF StoreCheckpoint, history
  <2>2. \A i \in Ids : times[i] <= checkpoint' + deaths
    BY <2>1 DEF RedeliveryInv
  <2>3. \A i \in Ids : times[i] <= checkpoint' + 1 + deaths
    BY <1>1, <2>1, <2>2
  <2>4. \A a, b \in batch' : times[a.id] < b.id + deaths
    <3> SUFFICES ASSUME NEW a \in batch', NEW b \in batch'
                 PROVE  times[a.id] < b.id + deaths
      OBVIOUS
    <3>1. a \in batch /\ b \in batch /\ a # e
      BY <2>1
    <3>2. ~IsCurrent(a)
      <4>1. a \in table /\ e \in table
        BY <3>1 DEF TypeOK
      <4>2. a.id # e.id
        BY <3>1, <4>1 DEF Positions
      <4> QED
        BY <1>1, <2>1, <3>1, <4>2 DEF IsCurrent
    <3> QED
      BY <3>1, <3>2 DEF RedeliveryInv
  <2> QED
    BY <2>1, <2>2, <2>3, <2>4 DEF RedeliveryInv, RedeliveryBounded
<1> QED
  BY <1>2, <1>3, <1>4, <1>5, <1>6, <1>7, <1>8
     DEF Next, Work, BeginInsert, Commit, vars, workerVars, history

------------------------------------------------------------------------------

LEMMA InitEstablishes == Init => Positions /\ LossInv /\ RedeliveryInv
<1> SUFFICES ASSUME Init
             PROVE  Positions /\ LossInv /\ RedeliveryInv
  OBVIOUS
<1>1. Positions
  BY BoundsAssumption DEF Init, Positions
<1>2. LossInv
  BY DEF Init, LossInv
<1>3. \A i \in Ids : i \in Nat /\ times[i] = 0
  BY DEF Init, Ids
<1>4. RedeliveryInv
  BY <1>3 DEF Init, RedeliveryInv, RedeliveryBounded
<1> QED
  BY <1>1, <1>2, <1>4

\* The stored checkpoint is always the id of a row that has been projected.
THEOREM CheckpointNeverAhead == Spec => []CheckpointIsProjected
<1>1. Init => CheckpointIsProjected
  BY DEF Init, CheckpointIsProjected
<1>2. TypeOK /\ Positions /\ CheckpointIsProjected /\ [Next]_vars
        => CheckpointIsProjected'
  <2> SUFFICES ASSUME TypeOK, Positions, CheckpointIsProjected, [Next]_vars
               PROVE  CheckpointIsProjected'
    OBVIOUS
  <2>1. ASSUME NEW e \in batch, Project(e)
        PROVE  CheckpointIsProjected'
    <3> SUFFICES ASSUME checkpoint # 0
                 PROVE  times'[checkpoint] > 0
      BY <2>1 DEF Project, CheckpointIsProjected
    <3>1. checkpoint \in Ids /\ times[checkpoint] \in Nat /\ times[checkpoint] > 0
      BY DEF Positions, TypeOK, Ids, CheckpointIsProjected
    <3> QED
      BY <2>1, <3>1 DEF Project, TypeOK
  <2>2. ASSUME NEW e \in batch, StoreCheckpoint(e)
        PROVE  CheckpointIsProjected'
    BY <2>2 DEF StoreCheckpoint, Positions, CheckpointIsProjected, history
  <2>3. CASE UNCHANGED <<checkpoint, times>>
    BY <2>3 DEF CheckpointIsProjected
  <2> QED
    BY <2>1, <2>2, <2>3 DEF Next, Work, BeginInsert, Commit, Start, Poll, ProjectThrows,
                            Kill, Die, vars, workerVars, history
<1> QED
  BY <1>1, <1>2, InitEstablishes, PositionsInductive, TypeInit, TypeInductive, PTL DEF Spec

\* The worker polls from beyond an event only when it has projected it, or when
\* the event is one of those that a late commit or a cut batch loses.
THEOREM NoOtherLosses == Spec => []OnlyKnownLosses
<1>1. Positions /\ LossInv => OnlyKnownLosses
  BY DEF Positions, LossInv, Settled, OnlyKnownLosses
<1> QED
  BY <1>1, InitEstablishes, PositionsInductive, LossInductive, TypeInit, TypeInductive,
     PTL DEF Spec

\* No event is projected more often than its RecordId and the number of deaths
\* allow.
THEOREM RedeliveryIsBounded == Spec => []RedeliveryBounded
<1>1. RedeliveryInv => RedeliveryBounded
  BY DEF RedeliveryInv
<1> QED
  BY <1>1, InitEstablishes, PositionsInductive, RedeliveryInductive, TypeInit,
     TypeInductive, PTL DEF Spec

------------------------------------------------------------------------------

\* The rows of a user that the worker projects, and whether there is one
\* creation among them.
RowsOf(u) == {r \in table : r.user = u /\ r.kind # "Other"}
CreatedOnce(u) == Cardinality({r \in RowsOf(u) : r.kind = "UserCreated"}) = 1

\* The read model shows user u under the name id.
Named(u, id) == \E i \in DOMAIN details : IsFirstDetail(i, u) /\ details[i].name = id

\* The worker will not project the row with this RecordId again.
Done(id) ==
    IF worker \in {"stopped", "polling"} THEN id <= checkpoint
    ELSE \A b \in batch : id < b.id

ShowsNewest(u) ==
    \E r \in RowsOf(u) : Named(u, r.id) /\ \A s \in RowsOf(u) : s.id <= r.id

\* What the projection of e left behind.
Shown(e) ==
    /\ e.kind = "UserCreated" => HasDetail(e.user)
    /\ e.kind = "UsernameChanged" => Named(e.user, e.id)

\* The read model's names are those of rows of the user.
NamesFromRows == \A i \in DOMAIN details : \E r \in RowsOf(details[i].user) : details[i].name = r.id

\* A rename has a creation before it, a name is that of one of the user's rows,
\* and a user all of whose rows are done is shown under the newest of them.
CurrentInv ==
    /\ IsFiniteSet(table)
    /\ \A r \in inserting \cup table : r.kind = "UsernameChanged" =>
          \E s \in RowsOf(r.user) : s.kind = "UserCreated" /\ s.id < r.id
    /\ \A b \in batch : b.kind # "Other"
    /\ NamesFromRows
    /\ worker = "storing" => \A e \in batch : IsCurrent(e) => Shown(e)
    /\ lost = {} =>
          \A u \in Users : CreatedOnce(u) /\ (\A r \in RowsOf(u) : Done(r.id)) => ShowsNewest(u)

\* The rows of a user, among them the only creation.
LEMMA OnlyCreation ==
  ASSUME NEW u, CreatedOnce(u), IsFiniteSet(table)
  PROVE  \E c \in RowsOf(u) : \A r \in RowsOf(u) : r.kind = "UserCreated" => r = c
<1> DEFINE created == {r \in RowsOf(u) : r.kind = "UserCreated"}
<1>1. created \in SUBSET table
  BY DEF RowsOf
<1>2. IsFiniteSet(created) /\ Cardinality(created) = 1
  <2> HIDE DEF created
  <2>1. IsFiniteSet(created)
    BY <1>1, FS_Subset
  <2> QED
    BY <2>1 DEF created, CreatedOnce
<1>3. PICK c : created = {c}
  <2> HIDE DEF created
  <2> QED
    BY <1>2, FS_Singleton
<1> QED
  BY <1>3

\* A user with a row in the read model has a first one.
LEMMA FirstDetailExists ==
  ASSUME TypeOK, NEW u, HasDetail(u)
  PROVE  \E i \in DOMAIN details : IsFirstDetail(i, u)
<1> DEFINE indices == {[id |-> i] : i \in {j \in DOMAIN details : details[j].user = u}}
<1>1. DOMAIN details = 1..Len(details) /\ Len(details) \in Nat
  BY DEF TypeOK
<1>2. indices # {}
  BY DEF HasDetail
<1>3. \A r \in indices : r.id \in Nat
  BY <1>1
<1>4. PICK o \in indices : \A r \in indices : o.id <= r.id
  <2> HIDE DEF indices
  <2> QED
    BY <1>2, <1>3, OldestExists
<1>5. PICK i \in DOMAIN details : o = [id |-> i] /\ details[i].user = u
  OBVIOUS
<1>6. ASSUME NEW j \in 1 .. i - 1, details[j].user = u
      PROVE  FALSE
  <2>1. j \in DOMAIN details
    BY <1>1
  <2>2. [id |-> j] \in indices
    BY <2>1, <1>6
  <2>3. i <= j
    BY <2>2, <1>4, <1>5
  <2> QED
    BY <1>1, <2>1, <2>3
<1> QED
  BY <1>5, <1>6 DEF IsFirstDetail

\* What the projection of an event does to the read model.
LEMMA ProjectShows ==
  ASSUME TypeOK, NEW e \in batch, Project(e)
  PROVE  /\ DOMAIN details \subseteq DOMAIN details'
         /\ \A i \in DOMAIN details' : \/ /\ i \in DOMAIN details
                                          /\ details'[i] = details[i]
                                       \/ details'[i] = [user |-> e.user, name |-> e.id]
         /\ \A i \in DOMAIN details : details'[i].user = details[i].user
         /\ Shown(e)'
<1>1. e \in Row /\ e.id \in Ids /\ e.user \in Users
  BY DEF TypeOK, Row
<1>2. DOMAIN details = 1..Len(details) /\ Len(details) \in Nat
  BY DEF TypeOK
<1>3. ASSUME e.kind = "UserCreated",
             details' = Append(details, [user |-> e.user, name |-> e.id])
      PROVE  /\ DOMAIN details' = 1 .. Len(details) + 1
             /\ \A i \in DOMAIN details : details'[i] = details[i]
             /\ details'[Len(details) + 1] = [user |-> e.user, name |-> e.id]
  <2>1. details \in Seq(Detail) /\ [user |-> e.user, name |-> e.id] \in Detail
    BY <1>1 DEF TypeOK, Detail
  <2>2. details' \in Seq(Detail) /\ Len(details') = Len(details) + 1
    BY <1>3, <2>1, AppendProperties
  <2> QED
    BY <1>2, <1>3, <2>1, <2>2, AppendProperties
<1>4. ASSUME e.kind = "UserCreated",
             details' = Append(details, [user |-> e.user, name |-> e.id])
      PROVE  HasDetail(e.user)'
  <2>1. Len(details) + 1 \in DOMAIN details'
    BY <1>2, <1>3, <1>4
  <2> QED
    BY <1>3, <1>4, <2>1 DEF HasDetail
<1>5. ASSUME e.kind = "UsernameChanged", NEW i \in DOMAIN details, IsFirstDetail(i, e.user),
             details' = [details EXCEPT ![i].name = e.id]
      PROVE  /\ DOMAIN details' = DOMAIN details
             /\ \A j \in DOMAIN details \ {i} : details'[j] = details[j]
             /\ details'[i] = [user |-> e.user, name |-> e.id]
  <2>1. details[i] \in Detail
    BY DEF TypeOK
  <2>2. details[i].user = e.user
    BY <1>5 DEF IsFirstDetail
  <2> QED
    BY <1>5, <2>1, <2>2 DEF Detail
<1>6. ASSUME e.kind = "UsernameChanged", NEW i \in DOMAIN details, IsFirstDetail(i, e.user),
             details' = [details EXCEPT ![i].name = e.id]
      PROVE  Named(e.user, e.id)'
  <2>1. \A j \in 1 .. i - 1 : j \in DOMAIN details \ {i}
    BY <1>2
  <2>2. IsFirstDetail(i, e.user)'
    BY <1>5, <1>6, <2>1 DEF IsFirstDetail
  <2> QED
    BY <1>5, <1>6, <2>2 DEF Named
<1>7. CASE e.kind = "UserCreated"
  <2>1. details' = Append(details, [user |-> e.user, name |-> e.id])
    BY <1>7 DEF Project
  <2> QED
    BY <1>2, <1>3, <1>4, <1>7, <2>1 DEF Shown
<1>8. CASE e.kind = "UsernameChanged"
  <2>1. PICK i \in DOMAIN details : /\ IsFirstDetail(i, e.user)
                                   /\ details' = [details EXCEPT ![i].name = e.id]
    BY <1>8 DEF Project
  <2>2. details[i].user = e.user
    BY <2>1 DEF IsFirstDetail
  <2> QED
    BY <1>5, <1>6, <1>8, <2>1, <2>2 DEF Shown
<1> QED
  BY <1>7, <1>8 DEF Project

\* It leaves the other users as they are shown.
LEMMA OthersKeepNames ==
  ASSUME TypeOK, NEW e \in batch, Project(e), NEW u, u # e.user, NEW id, Named(u, id)
  PROVE  Named(u, id)'
<1>1. PICK i \in DOMAIN details : IsFirstDetail(i, u) /\ details[i].name = id
  BY DEF Named
<1>2. DOMAIN details = 1..Len(details) /\ Len(details) \in Nat
  BY DEF TypeOK
<1>3. i \in DOMAIN details' /\ details'[i].user = u
  BY <1>1, ProjectShows DEF IsFirstDetail
<1>4. details'[i] = details[i]
  BY <1>3, ProjectShows
<1>5. \A j \in 1 .. i - 1 : details'[j].user # u
  <2>1. \A j \in 1 .. i - 1 : j \in DOMAIN details
    BY <1>1, <1>2
  <2> QED
    BY <1>1, <2>1, ProjectShows DEF IsFirstDetail
<1> QED
  BY <1>1, <1>3, <1>4, <1>5 DEF Named, IsFirstDetail

\* The invariant holds at the start,
LEMMA InitCurrent == Init => CurrentInv
<1> SUFFICES ASSUME Init PROVE CurrentInv
  OBVIOUS
<1>1. IsFiniteSet(table)
  BY FS_EmptySet DEF Init
<1>2. \A u : ~CreatedOnce(u)
  <2>1. \A u : {r \in RowsOf(u) : r.kind = "UserCreated"} = {}
    BY DEF Init, RowsOf
  <2> QED
    BY <2>1, FS_EmptySet DEF CreatedOnce
<1> QED
  BY <1>1, <1>2 DEF Init, CurrentInv, NamesFromRows

\* A step that leaves the table, the read model and the worker alone.
LEMMA CurrentStays ==
  ASSUME CurrentInv, table' = table, details' = details, batch' = batch,
         worker' = worker, checkpoint' = checkpoint, lost' = lost,
         inserting' = inserting
  PROVE  CurrentInv'
BY DEF CurrentInv, NamesFromRows, RowsOf, CreatedOnce, ShowsNewest, Named, Done, Shown, IsFirstDetail,
       HasDetail, IsCurrent

\* and every step keeps it: a user whose rows are all done is projected no more,
\* and the last row that a batch is done with is its oldest.
LEMMA CurrentInductive ==
  TypeOK /\ Positions /\ CurrentInv /\ [Next]_vars => CurrentInv'
<1> SUFFICES ASSUME TypeOK, Positions, CurrentInv, [Next]_vars
             PROVE  CurrentInv'
  OBVIOUS
<1>t. TypeOK'
  BY TypeInductive
<1>n. \A r \in inserting \cup table : r \in Row /\ r.id \in Nat
  BY DEF TypeOK, Row, Ids
<1>1. ASSUME NEW u \in Users, NEW kind \in {"UserCreated", "UsernameChanged", "Other"},
             BeginInsert(u, kind)
      PROVE  CurrentInv'
  <2> DEFINE new == [id |-> nextId, user |-> u, kind |-> kind]
  <2>1. new.kind = "UsernameChanged" =>
            \E s \in RowsOf(new.user) : s.kind = "UserCreated" /\ s.id < new.id
    BY <1>1 DEF BeginInsert, Positions, RowsOf
  <2>2. inserting' = inserting \cup {new}
    BY <1>1 DEF BeginInsert
  <2> HIDE DEF new
  <2>3. \A r \in inserting' \cup table' : r.kind = "UsernameChanged" =>
            \E s \in RowsOf(r.user)' : s.kind = "UserCreated" /\ s.id < r.id
    BY <1>1, <2>1, <2>2 DEF BeginInsert, CurrentInv, RowsOf
  <2> QED
    BY <1>1, <2>3
       DEF BeginInsert, workerVars, history, CurrentInv, NamesFromRows, RowsOf, CreatedOnce, ShowsNewest,
           Named, Done, Shown, IsFirstDetail, HasDetail, IsCurrent
<1>2. ASSUME NEW r \in inserting, Commit(r)
      PROVE  CurrentInv'
  <2>1. table' = table \cup {r} /\ inserting' = inserting \ {r}
    BY <1>2 DEF Commit
  <2>2. \A u : RowsOf(u) \subseteq RowsOf(u)'
    BY <2>1 DEF RowsOf
  <2>3. IsFiniteSet(table')
    BY <2>1, FS_AddElement DEF CurrentInv
  <2>4. \A s \in inserting' \cup table' : s.kind = "UsernameChanged" =>
            \E c \in RowsOf(s.user)' : c.kind = "UserCreated" /\ c.id < s.id
    BY <2>1, <2>2 DEF CurrentInv
  <2>5. NamesFromRows'
    BY <1>2, <2>1 DEF CurrentInv, Commit, NamesFromRows, RowsOf
  <2>6. worker' = "storing" => \A e \in batch' : IsCurrent(e)' => Shown(e)'
    BY <1>2 DEF CurrentInv, Commit, workerVars, Shown, Named, HasDetail, IsFirstDetail, IsCurrent
  <2>7. ASSUME lost' = {}, NEW u \in Users, CreatedOnce(u)', \A s \in RowsOf(u)' : Done(s.id)'
        PROVE  ShowsNewest(u)'
    <3>1. lost = {}
      BY <1>2, <2>7 DEF Commit
    <3>2. r \notin RowsOf(u)'
      <4> SUFFICES ASSUME r \in RowsOf(u)' PROVE FALSE
        OBVIOUS
      <4>1. r.kind # "Other" /\ Done(r.id)
        BY <1>2, <2>7 DEF RowsOf, Done, Commit, workerVars
      <4>2. Behind(r.id)
        <5>1. \A b \in batch : b.id \in Nat
          BY <1>n DEF TypeOK
        <5> QED
          BY <4>1, <5>1, <1>n DEF Done, Behind, Positions, TypeOK, Phases
      <4> QED
        BY <1>2, <2>7, <4>1, <4>2 DEF Commit
    <3>3. RowsOf(u)' = RowsOf(u)
      BY <2>1, <3>2 DEF RowsOf
    <3>4. CreatedOnce(u) /\ \A s \in RowsOf(u) : Done(s.id)
      BY <1>2, <2>7, <3>3 DEF CreatedOnce, Done, Commit, workerVars
    <3>5. ShowsNewest(u)
      BY <3>1, <3>4 DEF CurrentInv
    <3> QED
      BY <1>2, <3>3, <3>5 DEF ShowsNewest, Named, IsFirstDetail, Commit
  <2>8. \A b \in batch' : b.kind # "Other"
    BY <1>2 DEF Commit, workerVars, CurrentInv
  <2> QED
    BY <2>3, <2>4, <2>5, <2>6, <2>7, <2>8 DEF CurrentInv
<1>3. CASE Start
  <2>1. \A id : Done(id)' <=> Done(id)
    BY <1>3 DEF Start, Done
  <2> QED
    BY <1>3, <2>1 DEF Start, history, CurrentInv, NamesFromRows, RowsOf, CreatedOnce, ShowsNewest, Named,
                      Shown, IsFirstDetail
<1>4. CASE Poll
  <2>1. \A id \in Nat : (\E r \in table : r.id = id /\ r.kind # "Other") /\ Done(id)' => Done(id)
    <3> SUFFICES ASSUME NEW r \in table, r.kind # "Other", Done(r.id)', ~Done(r.id)
                 PROVE  FALSE
      OBVIOUS
    <3>1. r \in Pending
      BY <1>4, <1>n DEF Poll, Done, Pending, Positions, TypeOK
    <3>2. \A s \in Pending : s.id \in Nat
      BY <1>n DEF Pending
    <3>3. PICK o \in Pending : \A s \in Pending : o.id <= s.id
      BY <3>1, <3>2, OldestExists
    <3>4. o \in Page(Pending)
      BY <3>2, <3>3, OldestOnPage
    <3>5. r.id < o.id
      BY <1>4, <3>4 DEF Poll, Done
    <3> QED
      BY <3>1, <3>2, <3>3, <3>5
  <2>2. \A u : \A r \in RowsOf(u) : Done(r.id)' => Done(r.id)
    BY <2>1, <1>n DEF RowsOf
  <2>3. \A b \in batch' : b.kind # "Other"
    BY <1>4 DEF Poll, Page, Pending
  <2>4. \A u : RowsOf(u)' = RowsOf(u)
    BY <1>4 DEF Poll, RowsOf
  <2>5. NamesFromRows'
    BY <1>4 DEF Poll, CurrentInv, NamesFromRows, RowsOf
  <2> QED
    BY <1>4, <2>2, <2>3, <2>4, <2>5 DEF Poll, history, CurrentInv, CreatedOnce, ShowsNewest,
                                  Named, IsFirstDetail
<1>5. ASSUME NEW e \in batch, Project(e)
      PROVE  CurrentInv'
  <2>1. \A u : RowsOf(u)' = RowsOf(u)
    BY <1>5 DEF Project, RowsOf
  <2>2. e \in RowsOf(e.user) /\ e.id \in Nat
    BY <1>n DEF RowsOf, TypeOK, CurrentInv
  <2>3. NamesFromRows'
    <3> SUFFICES ASSUME NEW i \in DOMAIN details'
                 PROVE  \E r \in table : /\ r.user = details'[i].user /\ r.kind # "Other"
                                         /\ details'[i].name = r.id
      BY <1>5 DEF NamesFromRows, RowsOf, Project
    <3>1. CASE i \in DOMAIN details /\ details'[i] = details[i]
      BY <3>1 DEF CurrentInv, NamesFromRows, RowsOf
    <3>2. CASE details'[i] = [user |-> e.user, name |-> e.id]
      BY <3>2, <2>2 DEF RowsOf
    <3> QED
      BY <1>5, <3>1, <3>2, ProjectShows
  <2>4. \A c \in batch' : IsCurrent(c)' => c = e
    <3>1. \A c \in batch : c \in table /\ c.id \in Nat
      BY <1>n DEF TypeOK
    <3>2. \A c \in batch : c.id <= e.id /\ e.id <= c.id => c = e
      BY <3>1, <2>2 DEF Positions
    <3> QED
      BY <1>5, <3>1, <3>2, <2>2 DEF Project, IsCurrent
  <2>5. Shown(e)'
    BY <1>5, ProjectShows
  <2>6. ASSUME lost' = {}, NEW u \in Users, CreatedOnce(u)', \A s \in RowsOf(u)' : Done(s.id)'
        PROVE  ShowsNewest(u)'
    <3>1. CreatedOnce(u) /\ lost = {} /\ \A s \in RowsOf(u) : Done(s.id)
      BY <1>5, <2>1, <2>6 DEF Project, CreatedOnce, Done
    <3>2. u # e.user
      BY <1>5, <2>2, <3>1 DEF Done, Project
    <3>3. PICK r \in RowsOf(u) : Named(u, r.id) /\ \A s \in RowsOf(u) : s.id <= r.id
      BY <3>1 DEF CurrentInv, ShowsNewest
    <3>4. Named(u, r.id)'
      BY <1>5, <3>2, <3>3, OthersKeepNames
    <3> QED
      BY <2>1, <3>3, <3>4 DEF ShowsNewest
  <2> QED
    BY <1>5, <2>1, <2>3, <2>4, <2>5, <2>6 DEF CurrentInv, Project
<1>6. ASSUME Die, worker # "stopped"
      PROVE  CurrentInv'
  <2>1. \A u : RowsOf(u)' = RowsOf(u)
    BY <1>6 DEF Die, RowsOf
  <2>2. lost' = {} => lost = {} /\ \A b \in batch : checkpoint < b.id
    <3> SUFFICES ASSUME lost' = {}, NEW b \in batch, ~(checkpoint < b.id)
                 PROVE  FALSE
      BY <1>6 DEF Die
    <3>1. b \in table /\ b.kind # "Other" /\ b.id \in Nat /\ checkpoint \in Nat
      BY <1>n DEF TypeOK, CurrentInv
    <3>2. b.id <= checkpoint /\ b.id <= b.id
      BY <3>1
    <3>3. b.id \in lost'
      BY <1>6, <3>1, <3>2 DEF Die
    <3> QED
      BY <3>3
  <2>3. lost' = {} => \A id \in Nat : Done(id)' => Done(id)
    <3> SUFFICES ASSUME lost' = {}, NEW id \in Nat, Done(id)'
                 PROVE  Done(id)
      OBVIOUS
    <3>1. id <= checkpoint /\ checkpoint \in Nat
      BY <1>6 DEF Die, Done, TypeOK
    <3>2. \A b \in batch : b.id \in Nat /\ checkpoint < b.id
      BY <2>2, <1>n DEF TypeOK
    <3> QED
      BY <3>1, <3>2 DEF Done
  <2>4. \A u : \A s \in RowsOf(u) : s.id \in Nat
    BY <1>n DEF RowsOf
  <2>5. ASSUME lost' = {}, NEW u \in Users, CreatedOnce(u)', \A s \in RowsOf(u)' : Done(s.id)'
        PROVE  ShowsNewest(u)'
    <3>1. CreatedOnce(u) /\ \A s \in RowsOf(u) : Done(s.id)
      BY <2>1, <2>3, <2>4, <2>5 DEF CreatedOnce
    <3>2. ShowsNewest(u)
      BY <2>2, <2>5, <3>1 DEF CurrentInv
    <3> QED
      BY <1>6, <2>1, <3>2 DEF ShowsNewest, Named, IsFirstDetail, Die
  <2>6. NamesFromRows'
    BY <1>6 DEF Die, CurrentInv, NamesFromRows, RowsOf
  <2> QED
    BY <1>6, <2>1, <2>5, <2>6 DEF CurrentInv, Die
<1>7. ASSUME NEW e \in batch, StoreCheckpoint(e)
      PROVE  CurrentInv'
  <2>1. \A u : RowsOf(u)' = RowsOf(u)
    BY <1>7 DEF StoreCheckpoint, RowsOf
  <2>2. /\ e \in RowsOf(e.user) /\ e.id \in Nat /\ Shown(e)
        /\ \A b \in batch : b.id \in Nat /\ b.id <= e.id
    BY <1>7, <1>n DEF RowsOf, TypeOK, CurrentInv, StoreCheckpoint, IsCurrent
  <2>3. \A u : \A s \in RowsOf(u) : s.id \in Nat /\ (s.id = e.id => s = e)
    BY <1>n, <2>2 DEF RowsOf, Positions
  <2>4. ASSUME lost' = {}, NEW u \in Users, CreatedOnce(u)', \A s \in RowsOf(u)' : Done(s.id)'
        PROVE  ShowsNewest(u)
    <3>1. CreatedOnce(u) /\ lost = {}
      BY <1>7, <2>1, <2>4 DEF CreatedOnce, StoreCheckpoint, history
    <3>2. CASE \A s \in RowsOf(u) : s.id < e.id
      <4>1. \A s \in RowsOf(u) : Done(s.id)
        <5>1. CASE batch = {e}
          BY <1>7, <3>2, <5>1 DEF Done, StoreCheckpoint
        <5>2. CASE batch # {e}
          <6>1. worker' = "projecting" /\ batch' = batch \ {e}
            BY <1>7, <5>2 DEF StoreCheckpoint
          <6>2. \A s \in RowsOf(u) : \A b \in batch \ {e} : s.id < b.id
            BY <2>1, <2>4, <6>1 DEF Done
          <6> QED
            BY <1>7, <3>2, <6>2 DEF Done, StoreCheckpoint
        <5> QED
          BY <5>1, <5>2
      <4> QED
        BY <3>1, <4>1 DEF CurrentInv
    <3>3. CASE ~\A s \in RowsOf(u) : s.id < e.id
      <4>1. PICK s \in RowsOf(u) : ~(s.id < e.id)
        BY <3>3
      <4>2. batch' = {}
        <5> SUFFICES ASSUME batch' # {} PROVE FALSE
          OBVIOUS
        <5>1. PICK b \in batch : b \in batch'
          BY <1>7 DEF StoreCheckpoint
        <5>2. worker' = "projecting"
          BY <1>7 DEF StoreCheckpoint
        <5>3. s.id < b.id
          BY <2>1, <2>4, <5>1, <5>2 DEF Done
        <5> QED
          BY <2>2, <2>3, <4>1, <5>1, <5>3
      <4>3. \A r \in RowsOf(u) : r.id <= e.id
        <5>1. worker' = "polling" /\ checkpoint' = e.id
          BY <1>7, <4>2 DEF StoreCheckpoint
        <5> QED
          BY <2>1, <2>4, <5>1 DEF Done
      <4>4. s = e
        BY <2>2, <2>3, <4>1, <4>3
      <4>5. u = e.user
        BY <4>4 DEF RowsOf
      <4>6. Named(u, e.id)
        <5>1. CASE e.kind = "UsernameChanged"
          BY <2>2, <4>5, <5>1 DEF Shown
        <5>2. CASE e.kind = "UserCreated"
          <6>1. PICK c \in RowsOf(u) : \A r \in RowsOf(u) : r.kind = "UserCreated" => r = c
            BY <3>1, OnlyCreation DEF CurrentInv
          <6>2. \A r \in RowsOf(u) : r = e
            <7> SUFFICES ASSUME NEW r \in RowsOf(u), r.kind # "UserCreated"
                         PROVE  FALSE
              BY <2>2, <4>5, <5>2, <6>1
            <7>1. r \in table /\ r.user = u /\ r.kind = "UsernameChanged"
              BY <1>n DEF RowsOf, Row
            <7>2. PICK d \in RowsOf(u) : d.kind = "UserCreated" /\ d.id < r.id
              BY <7>1 DEF CurrentInv
            <7>3. d = e
              BY <2>2, <4>5, <5>2, <6>1, <7>2
            <7> QED
              BY <2>2, <2>3, <4>3, <7>2, <7>3
          <6>3. PICK i \in DOMAIN details : IsFirstDetail(i, u)
            BY <2>2, <4>5, <5>2, FirstDetailExists DEF Shown
          <6>4. details[i].name = e.id
            BY <6>2, <6>3 DEF CurrentInv, NamesFromRows, IsFirstDetail
          <6> QED
            BY <6>3, <6>4 DEF Named
        <5> QED
          BY <1>n, <2>2, <5>1, <5>2 DEF RowsOf, Row
      <4> QED
        BY <2>2, <4>3, <4>5, <4>6 DEF ShowsNewest
    <3> QED
      BY <3>2, <3>3
  <2>5. \A u : ShowsNewest(u) => ShowsNewest(u)'
    BY <1>7, <2>1 DEF ShowsNewest, Named, IsFirstDetail, StoreCheckpoint
  <2>6. NamesFromRows'
    BY <1>7 DEF StoreCheckpoint, CurrentInv, NamesFromRows, RowsOf
  <2> QED
    BY <1>7, <2>1, <2>4, <2>5, <2>6 DEF CurrentInv, StoreCheckpoint
<1>8. CASE UNCHANGED vars
  BY <1>8, CurrentStays DEF vars, workerVars, history
<1> QED
  BY <1>1, <1>2, <1>3, <1>4, <1>5, <1>6, <1>7, <1>8 DEF Next, Work, Kill, ProjectThrows

\* A worker that has caught up, and lost nothing, shows each user created once
\* under the last of its names.
THEOREM ReadModelIsCurrent == Spec => []CaughtUpReadModelCurrent
<1>1. TypeOK /\ Positions /\ CurrentInv => CaughtUpReadModelCurrent
  <2> SUFFICES ASSUME TypeOK, Positions, CurrentInv, worker = "polling", Pending = {}, lost = {},
                      NEW u \in Users, CreatedOnce(u)
               PROVE  \E i \in DOMAIN details, r \in RowsOf(u) :
                         /\ IsFirstDetail(i, u)
                         /\ details[i].name = r.id
                         /\ \A s \in RowsOf(u) : s.id <= r.id
    BY DEF CaughtUpReadModelCurrent, CreatedOnce, RowsOf
  <2>1. \A r \in RowsOf(u) : Done(r.id)
    <3>1. \A r \in RowsOf(u) : r.id \in Nat /\ ~(r.id > cursor)
      BY DEF RowsOf, Pending, TypeOK, Row, Ids
    <3> QED
      BY <3>1 DEF Done, Positions, TypeOK
  <2>2. ShowsNewest(u)
    BY <2>1 DEF CurrentInv
  <2> QED
    BY <2>2 DEF ShowsNewest, Named
<1> QED
  BY <1>1, InitCurrent, CurrentInductive, InitEstablishes, PositionsInductive, TypeInit,
     TypeInductive, PTL DEF Spec

=============================================================================
