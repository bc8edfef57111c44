------------------------ MODULE EFAggregateStore_proofs ------------------------
(* Proofs about EFAggregateStore, for any number of requests, aggregates,     *)
(* changes per command and failures, and for any snapshot interval.           *)
EXTENDS EFAggregateStore, TLAPS

\* The conjuncts of TypeOK about the requests.
RequestsTyped ==
  /\ pc \in [Handlers -> Phases]
  /\ req \in [Handlers -> Request \cup {NoRequest}]
  /\ \A h \in Handlers : pc[h] # "idle" => req[h] \in Request

\* A step that moves one request to a phase and leaves it with well-typed
\* locals keeps every request well typed.
LEMMA RequestStep ==
  ASSUME TypeOK, NEW h \in Handlers, NEW phase \in Phases, NEW r \in Request,
         pc' = [pc EXCEPT ![h] = phase], req' = [req EXCEPT ![h] = r]
  PROVE  RequestsTyped'
BY DEF TypeOK, RequestsTyped

\* A request that ends keeps the others well typed.
LEMMA EndStep ==
  ASSUME TypeOK, NEW h \in Handlers, End(h)
  PROVE  RequestsTyped'
BY DEF TypeOK, RequestsTyped, End, Goto, Phases

\* The tables, the locals of the requests and the counters keep their types.
THEOREM TypeCorrect == Spec => []TypeOK
<1>1. Init => TypeOK
  BY BoundsAssumption DEF Init, TypeOK, Blank, SnapshotRow, Phases
<1>2. TypeOK /\ [Next]_vars => TypeOK'
  <2> SUFFICES ASSUME TypeOK, [Next]_vars
               PROVE  TypeOK'
    OBVIOUS
  <2> USE BoundsAssumption
  <2>1. ASSUME NEW h \in Handlers, NEW a \in Aggregates, NEW n \in ChangeCounts,
               Create(h, a, n)
        PROVE  TypeOK'
    <3> DEFINE own == {[cmd |-> commands + 1, idx |-> i] : i \in 1..n}
               r == [cmd |-> commands + 1, agg |-> a, creates |-> TRUE, changes |-> n,
                     state |-> own, version |-> -1,
                     checkAt |-> nextId - 1, readAt |-> 0, added |-> 0]
    <3>1. own \subseteq EventName
      BY DEF EventName, TypeOK
    <3>2. r \in Request
      BY <3>1 DEF Request, TypeOK
    <3>3. pc' = [pc EXCEPT ![h] = "saving"] /\ req' = [req EXCEPT ![h] = r]
      BY <2>1 DEF Create, Issue, Goto
    <3>4. /\ commands' = commands + 1
          /\ UNCHANGED <<events, nextId, snapshot, failures, acked>>
      BY <2>1 DEF Create, Issue, tables
    <3> HIDE DEF r
    <3>5. RequestsTyped'
      BY <3>2, <3>3, RequestStep DEF Phases
    <3> QED
      BY <3>4, <3>5 DEF RequestsTyped, TypeOK
  <2>2. ASSUME NEW h \in Handlers, NEW a \in Aggregates, NEW n \in ChangeCounts,
               LoadSnapshot(h, a, n)
        PROVE  TypeOK'
    <3> DEFINE r == [cmd |-> commands + 1, agg |-> a, creates |-> FALSE, changes |-> n,
                     state |-> snapshot[a].content, version |-> snapshot[a].version,
                     checkAt |-> nextId - 1, readAt |-> 0, added |-> 0]
    <3>1. r \in Request
      BY DEF Request, SnapshotRow, TypeOK
    <3>2. pc' = [pc EXCEPT ![h] = "loading"] /\ req' = [req EXCEPT ![h] = r]
      BY <2>2 DEF LoadSnapshot, Issue, Goto
    <3>3. /\ commands' = commands + 1
          /\ UNCHANGED <<events, nextId, snapshot, failures, acked>>
      BY <2>2 DEF LoadSnapshot, Issue, tables
    <3> HIDE DEF r
    <3>4. RequestsTyped'
      BY <3>1, <3>2, RequestStep DEF Phases
    <3> QED
      BY <3>3, <3>4 DEF RequestsTyped, TypeOK
  <2>3. ASSUME NEW h \in Handlers, LoadEvents(h)
        PROVE  TypeOK'
    <3> DEFINE loaded == req[h].state \cup Replayed(req[h]) \cup Changes(req[h])
               r == [req[h] EXCEPT !.state = loaded, !.checkAt = nextId - 1]
    <3>1. req[h] \in Request
      BY <2>3 DEF LoadEvents, TypeOK
    <3>2. loaded \subseteq EventName
      BY <3>1 DEF Replayed, RowsOf, Changes, EventRow, Request, EventName, TypeOK
    <3>3. r \in Request
      <4>1. nextId - 1 \in Nat
        BY DEF TypeOK
      <4> HIDE DEF loaded
      <4> QED
        BY <3>1, <3>2, <4>1 DEF Request
    <3>4. pc' = [pc EXCEPT ![h] = "saving"] /\ req' = [req EXCEPT ![h] = r]
      BY <2>3 DEF LoadEvents, Goto
    <3> HIDE DEF r
    <3>5. RequestsTyped'
      BY <3>3, <3>4, RequestStep DEF Phases
    <3> QED
      BY <2>3, <3>5 DEF LoadEvents, tables, RequestsTyped, TypeOK
  <2>4. ASSUME NEW h \in Handlers, LoadNothing(h)
        PROVE  TypeOK'
    BY <2>4, EndStep DEF LoadNothing, tables, RequestsTyped, TypeOK
  <2>5. ASSUME NEW h \in Handlers, ReadVersion(h)
        PROVE  TypeOK'
    <3>1. PICK v \in -1 .. nextId :
             /\ CurrentVersion(req[h], v)
             /\ req' = [req EXCEPT ![h] = [req[h] EXCEPT !.version = v, !.readAt = nextId - 1, !.added = 0]]
      BY <2>5 DEF ReadVersion
    <3> DEFINE r == [req[h] EXCEPT !.version = v, !.readAt = nextId - 1, !.added = 0]
    <3>2. r \in Request
      <4>1. v \in Nat \cup {-1} /\ nextId - 1 \in Nat /\ req[h] \in Request
        BY <2>5 DEF ReadVersion, TypeOK
      <4> QED
        BY <4>1 DEF Request
    <3>3. pc' = [pc EXCEPT ![h] = "adding"] /\ req' = [req EXCEPT ![h] = r]
      BY <2>5, <3>1 DEF ReadVersion, Goto
    <3> HIDE DEF r
    <3>4. RequestsTyped'
      BY <3>2, <3>3, RequestStep DEF Phases
    <3> QED
      BY <2>5, <3>4 DEF ReadVersion, tables, RequestsTyped, TypeOK
  <2>6. ASSUME NEW h \in Handlers, AddRow(h)
        PROVE  TypeOK'
    <3> DEFINE r == [req[h] EXCEPT !.added = req[h].added + 1]
    <3>1. req[h] \in Request /\ r \in Request
      BY <2>6 DEF AddRow, Request, TypeOK
    <3>2. NextRow(req[h]) \in EventRow
      BY <3>1 DEF NextRow, EventRow, EventName, Request, TypeOK
    <3>3. pc' = [pc EXCEPT ![h] = "adding"] /\ req' = [req EXCEPT ![h] = r]
      BY <2>6 DEF AddRow, TypeOK
    <3> HIDE DEF r
    <3>4. RequestsTyped'
      BY <3>1, <3>3, RequestStep DEF Phases
    <3> QED
      BY <2>6, <3>2, <3>4 DEF AddRow, RequestsTyped, TypeOK
  <2>7. ASSUME NEW h \in Handlers, SaveSnapshot(h)
        PROVE  TypeOK'
    BY <2>7 DEF SaveSnapshot, Goto, SnapshotRow, Request, Phases, TypeOK
  <2>8. ASSUME NEW h \in Handlers, Return(h)
        PROVE  TypeOK'
    <3>1. Changes(req[h]) \subseteq EventName
      BY <2>8 DEF Return, Changes, Request, EventName, TypeOK
    <3> QED
      BY <2>8, <3>1, EndStep DEF Return, tables, RequestsTyped, TypeOK
  <2>9. ASSUME NEW h \in Handlers, Fail(h)
        PROVE  TypeOK'
    BY <2>9, EndStep DEF Fail, tables, RequestsTyped, TypeOK
  <2>10. CASE UNCHANGED vars
    BY <2>10 DEF vars, tables, TypeOK
  <2> QED
    BY <2>1, <2>2, <2>3, <2>4, <2>5, <2>6, <2>7, <2>8, <2>9, <2>10 DEF Next
<1> QED
  BY <1>1, <1>2, PTL DEF Spec

------------------------------------------------------------------------------
(* Versions have no gap.  A save in progress continues from a version that is *)
(* stored: the highest one it read, or the row it has just added; rows are    *)
(* never removed, so this stays so whatever the other requests add.           *)

SaveContinuesStored ==
  \A h \in Handlers : pc[h] = "adding" =>
    \/ req[h].version + req[h].added = -1
    \/ \E e \in events :
          e.agg = req[h].agg /\ e.version = req[h].version + req[h].added

GapInv == VersionsGapFree /\ SaveContinuesStored

\* Below each stored version its predecessor is stored, for any interleaving
\* and any failure of the saves.
THEOREM GapFree == Spec => []VersionsGapFree
<1>1. Init => GapInv
  BY DEF Init, GapInv, VersionsGapFree, SaveContinuesStored
<1>2. TypeOK /\ GapInv /\ [Next]_vars => GapInv'
  <2> SUFFICES ASSUME TypeOK, GapInv, [Next]_vars
               PROVE  GapInv'
    OBVIOUS
  <2> USE DEF GapInv, VersionsGapFree, SaveContinuesStored
  <2>1. ASSUME NEW h \in Handlers, NEW a \in Aggregates, NEW n \in ChangeCounts,
               Create(h, a, n) \/ LoadSnapshot(h, a, n)
        PROVE  GapInv'
    BY <2>1 DEF Create, LoadSnapshot, Issue, Goto, tables, TypeOK
  <2>2. ASSUME NEW h \in Handlers, LoadEvents(h)
        PROVE  GapInv'
    BY <2>2 DEF LoadEvents, Goto, tables, TypeOK
  <2>3. ASSUME NEW h \in Handlers, LoadNothing(h) \/ Return(h) \/ Fail(h)
        PROVE  GapInv'
    BY <2>3 DEF LoadNothing, Return, Fail, End, Goto, tables, TypeOK
  <2>4. ASSUME NEW h \in Handlers, ReadVersion(h)
        PROVE  GapInv'
    <3>1. PICK v \in -1 .. nextId :
             /\ CurrentVersion(req[h], v)
             /\ req' = [req EXCEPT ![h] =
                           [req[h] EXCEPT !.version = v, !.readAt = nextId - 1, !.added = 0]]
      BY <2>4 DEF ReadVersion
    <3>2. /\ req[h] \in Request /\ events' = events
          /\ pc' = [pc EXCEPT ![h] = "adding"]
      BY <2>4 DEF ReadVersion, Goto, tables, TypeOK
    <3>3. v = -1 \/ \E e \in events : e.agg = req[h].agg /\ e.version = v
      BY <3>1 DEF CurrentVersion, RowsOf
    <3> QED
      BY <3>1, <3>2, <3>3 DEF TypeOK, Request
  <2>5. ASSUME NEW h \in Handlers, AddRow(h)
        PROVE  GapInv'
    <3> DEFINE row == NextRow(req[h])
    <3>1. /\ req[h] \in Request
          /\ pc[h] = "adding" /\ pc' = pc
          /\ events' = events \cup {row}
          /\ req' = [req EXCEPT ![h] = [req[h] EXCEPT !.added = req[h].added + 1]]
      BY <2>5 DEF AddRow, TypeOK
    <3>2. /\ row.agg = req[h].agg
          /\ row.version = req[h].version + 1 + req[h].added
      BY DEF NextRow
    <3> HIDE DEF row
    <3>3. row.version = 0 \/ \E e \in events : e.agg = row.agg /\ e.version = row.version - 1
      BY <3>1, <3>2 DEF Request, TypeOK
    <3>4. VersionsGapFree'
      BY <3>1, <3>3
    <3>5. ASSUME NEW k \in Handlers, pc'[k] = "adding"
          PROVE  \/ req'[k].version + req'[k].added = -1
                 \/ \E e \in events' :
                       e.agg = req'[k].agg /\ e.version = req'[k].version + req'[k].added
      <4>1. CASE k = h
        BY <4>1, <3>1, <3>2 DEF Request, TypeOK
      <4>2. CASE k # h
        BY <4>2, <3>1, <3>5 DEF TypeOK
      <4> QED
        BY <4>1, <4>2
    <3> QED
      BY <3>4, <3>5
  <2>6. ASSUME NEW h \in Handlers, SaveSnapshot(h)
        PROVE  GapInv'
    BY <2>6 DEF SaveSnapshot, Goto, TypeOK
  <2>7. CASE UNCHANGED vars
    BY <2>7 DEF vars, tables
  <2> QED
    BY <2>1, <2>2, <2>3, <2>4, <2>5, <2>6, <2>7 DEF Next
<1>3. GapInv => VersionsGapFree
  BY DEF GapInv
<1> QED
  BY <1>1, <1>2, <1>3, TypeCorrect, PTL DEF Spec

------------------------------------------------------------------------------
(* Version clashes.  The rows a save has read do not exceed the version it    *)
(* counts on from, and every row added since has a RecordId above readAt.     *)

IdsBelowNext == \A e \in events : e.id < nextId

ReadCoversOld ==
  \A h \in Handlers : pc[h] = "adding" =>
    /\ req[h].readAt < nextId
    /\ \A e \in events :
         e.agg = req[h].agg /\ e.id <= req[h].readAt => e.version <= req[h].version

ClashInv == VersionClashNeedsOverlap /\ IdsBelowNext /\ ReadCoversOld

\* Two rows of an aggregate share a version only when the save of the later
\* one had read the current version before the earlier one was added.
THEOREM ClashNeedsOverlap == Spec => []VersionClashNeedsOverlap
<1>1. Init => ClashInv
  BY DEF Init, ClashInv, VersionClashNeedsOverlap, IdsBelowNext, ReadCoversOld
<1>2. TypeOK /\ ClashInv /\ [Next]_vars => ClashInv'
  <2> SUFFICES ASSUME TypeOK, ClashInv, [Next]_vars
               PROVE  ClashInv'
    OBVIOUS
  <2> USE DEF ClashInv, VersionClashNeedsOverlap, IdsBelowNext, ReadCoversOld
  <2>1. ASSUME NEW h \in Handlers, NEW a \in Aggregates, NEW n \in ChangeCounts,
               Create(h, a, n) \/ LoadSnapshot(h, a, n)
        PROVE  ClashInv'
    BY <2>1 DEF Create, LoadSnapshot, Issue, Goto, tables, TypeOK
  <2>2. ASSUME NEW h \in Handlers, LoadEvents(h)
        PROVE  ClashInv'
    BY <2>2 DEF LoadEvents, Goto, tables, TypeOK
  <2>3. ASSUME NEW h \in Handlers, LoadNothing(h) \/ Return(h) \/ Fail(h)
        PROVE  ClashInv'
    BY <2>3 DEF LoadNothing, Return, Fail, End, Goto, tables, TypeOK
  <2>4. ASSUME NEW h \in Handlers, ReadVersion(h)
        PROVE  ClashInv'
    <3>1. PICK v \in -1 .. nextId :
             /\ CurrentVersion(req[h], v)
             /\ req' = [req EXCEPT ![h] =
                           [req[h] EXCEPT !.version = v, !.readAt = nextId - 1, !.added = 0]]
      BY <2>4 DEF ReadVersion
    <3>2. /\ req[h] \in Request /\ events' = events /\ nextId' = nextId
          /\ pc' = [pc EXCEPT ![h] = "adding"]
      BY <2>4 DEF ReadVersion, Goto, tables, TypeOK
    <3>3. \A e \in events : e.agg = req[h].agg => e.version <= v
      BY <3>1 DEF CurrentVersion, RowsOf
    <3> QED
      BY <3>1, <3>2, <3>3 DEF TypeOK, Request
  <2>5. ASSUME NEW h \in Handlers, AddRow(h)
        PROVE  ClashInv'
    <3> DEFINE row == NextRow(req[h])
    <3>1. /\ req[h] \in Request
          /\ pc[h] = "adding" /\ pc' = pc
          /\ events' = events \cup {row} /\ nextId' = nextId + 1
          /\ req' = [req EXCEPT ![h] = [req[h] EXCEPT !.added = req[h].added + 1]]
      BY <2>5 DEF AddRow, TypeOK
    <3>2. /\ row.agg = req[h].agg /\ row.id = nextId /\ row.readAt = req[h].readAt
          /\ row.version = req[h].version + 1 + req[h].added
      BY DEF NextRow
    <3> HIDE DEF row
    <3>3. \A e \in events : e.id \in Nat /\ e.version \in Nat /\ e.id < nextId
      BY DEF TypeOK, EventRow
    <3>4. \A e \in events : e.agg = row.agg /\ e.version = row.version => row.readAt < e.id
      BY <3>1, <3>2, <3>3 DEF Request
    <3>5. VersionClashNeedsOverlap'
      BY <3>1, <3>2, <3>3, <3>4 DEF TypeOK
    <3>6. IdsBelowNext'
      BY <3>1, <3>2, <3>3 DEF TypeOK
    <3>7. ASSUME NEW k \in Handlers, pc'[k] = "adding"
          PROVE  /\ req'[k].readAt < nextId'
                 /\ \A e \in events' : e.agg = req'[k].agg /\ e.id <= req'[k].readAt
                                         => e.version <= req'[k].version
      <4>1. /\ req'[k].readAt = req[k].readAt /\ req'[k].agg = req[k].agg
            /\ req'[k].version = req[k].version
        BY <3>1 DEF Request, TypeOK
      <4>2. req[k].readAt \in Nat /\ req[k].readAt < nextId
        BY <3>1, <3>7 DEF Request, TypeOK
      <4> QED
        BY <4>1, <4>2, <3>1, <3>2, <3>7 DEF TypeOK
    <3> QED
      BY <3>5, <3>6, <3>7
  <2>6. ASSUME NEW h \in Handlers, SaveSnapshot(h)
        PROVE  ClashInv'
    BY <2>6 DEF SaveSnapshot, Goto, TypeOK
  <2>7. CASE UNCHANGED vars
    BY <2>7 DEF vars, tables
  <2> QED
    BY <2>1, <2>2, <2>3, <2>4, <2>5, <2>6, <2>7 DEF Next
<1>3. ClashInv => VersionClashNeedsOverlap
  BY DEF ClashInv
<1> QED
  BY <1>1, <1>2, <1>3, TypeCorrect, PTL DEF Spec

------------------------------------------------------------------------------
(* Reading before adding.  What a request saw when it looked at the table is  *)
(* all that has a RecordId up to checkAt: nothing, for a creation; and what   *)
(* Load replayed, for an update.                                              *)

CheckBeforeNext ==
  \A h \in Handlers : pc[h] # "idle" => req[h].checkAt < nextId

CreationSawNothing ==
  \A h \in Handlers : pc[h] # "idle" =>
    /\ pc[h] = "loading" => ~req[h].creates
    /\ req[h].creates =>
         \A e \in events : e.agg = req[h].agg => req[h].checkAt < e.id

LookInv ==
  /\ IdsBelowNext
  /\ CheckBeforeNext
  /\ CreationSawNothing
  /\ CreateClashNeedsOverlap
  /\ LoadReplaysEverything

LEMMA LookInductive == Spec => []LookInv
<1> USE DEF LookInv, IdsBelowNext, CheckBeforeNext, CreationSawNothing,
            CreateClashNeedsOverlap, LoadReplaysEverything
<1>1. Init => LookInv
  BY DEF Init
<1>2. TypeOK /\ LookInv /\ [Next]_vars => LookInv'
  <2> SUFFICES ASSUME TypeOK, LookInv, [Next]_vars
               PROVE  LookInv'
    OBVIOUS
  <2>0. \A e \in events : e.id \in Nat /\ e.checkAt \in Nat
    BY DEF TypeOK, EventRow
  <2>1. ASSUME NEW h \in Handlers, NEW a \in Aggregates, NEW n \in ChangeCounts,
               Create(h, a, n)
        PROVE  LookInv'
    <3>1. /\ \A e \in events : e.agg # a
          /\ pc' = [pc EXCEPT ![h] = "saving"]
          /\ UNCHANGED <<events, nextId>>
          /\ req' = [req EXCEPT ![h] = req'[h]]
          /\ req'[h].agg = a /\ req'[h].checkAt = nextId - 1
      BY <2>1 DEF Create, Issue, Exists, RowsOf, Goto, tables, TypeOK
    <3> QED
      BY <3>1 DEF TypeOK
  <2>2. ASSUME NEW h \in Handlers, NEW a \in Aggregates, NEW n \in ChangeCounts,
               LoadSnapshot(h, a, n)
        PROVE  LookInv'
    <3>1. /\ pc' = [pc EXCEPT ![h] = "loading"]
          /\ UNCHANGED <<events, nextId>>
          /\ req' = [req EXCEPT ![h] = req'[h]]
          /\ req'[h].agg = a /\ req'[h].checkAt = nextId - 1 /\ req'[h].creates = FALSE
      BY <2>2 DEF LoadSnapshot, Issue, Goto, tables, TypeOK
    <3> QED
      BY <3>1 DEF TypeOK
  <2>3. ASSUME NEW h \in Handlers, LoadEvents(h)
        PROVE  LookInv'
    <3>1. /\ req[h] \in Request
          /\ pc[h] = "loading" /\ pc' = [pc EXCEPT ![h] = "saving"]
          /\ UNCHANGED <<events, nextId>>
          /\ req' = [req EXCEPT ![h] = req'[h]]
      BY <2>3 DEF LoadEvents, Goto, tables, TypeOK
    <3>2. req'[h] = [req[h] EXCEPT
             !.state = req[h].state \cup Replayed(req[h]) \cup Changes(req[h]),
             !.checkAt = nextId - 1]
      BY <2>3 DEF LoadEvents, TypeOK
    <3>3. /\ req'[h].agg = req[h].agg /\ req'[h].creates = req[h].creates
          /\ req'[h].checkAt = nextId - 1
          /\ Replayed(req[h]) \subseteq req'[h].state
      BY <3>1, <3>2 DEF Request
    <3>4. \A e \in events : e.agg = req[h].agg => e.name \in req'[h].state
      BY <3>3 DEF Replayed, RowsOf
    <3> QED
      BY <3>1, <3>3, <3>4 DEF TypeOK
  <2>4. ASSUME NEW h \in Handlers, LoadNothing(h) \/ Return(h) \/ Fail(h)
        PROVE  LookInv'
    BY <2>4 DEF LoadNothing, Return, Fail, End, Goto, tables, TypeOK
  <2>5. ASSUME NEW h \in Handlers, ReadVersion(h)
        PROVE  LookInv'
    <3>1. PICK v \in -1 .. nextId :
             req' = [req EXCEPT ![h] =
                [req[h] EXCEPT !.version = v, !.readAt = nextId - 1, !.added = 0]]
      BY <2>5 DEF ReadVersion
    <3>2. /\ req[h] \in Request /\ pc[h] = "saving"
          /\ UNCHANGED <<events, nextId>>
          /\ pc' = [pc EXCEPT ![h] = "adding"]
      BY <2>5 DEF ReadVersion, Goto, tables, TypeOK
    <3>3. /\ req'[h].agg = req[h].agg /\ req'[h].creates = req[h].creates
          /\ req'[h].checkAt = req[h].checkAt
      BY <3>1, <3>2 DEF Request, TypeOK
    <3> QED
      BY <3>1, <3>2, <3>3 DEF TypeOK
  <2>6. ASSUME NEW h \in Handlers, AddRow(h)
        PROVE  LookInv'
    <3> DEFINE row == NextRow(req[h])
    <3>1. /\ req[h] \in Request
          /\ pc[h] = "adding" /\ pc' = pc
          /\ events' = events \cup {row} /\ nextId' = nextId + 1
          /\ req' = [req EXCEPT ![h] = [req[h] EXCEPT !.added = req[h].added + 1]]
      BY <2>6 DEF AddRow, TypeOK
    <3>2. /\ row.agg = req[h].agg /\ row.id = nextId /\ row.checkAt = req[h].checkAt
          /\ row.creates => req[h].creates
      BY DEF NextRow
    <3> HIDE DEF row
    <3>3. \A k \in Handlers :
             /\ req'[k].agg = req[k].agg /\ req'[k].creates = req[k].creates
             /\ req'[k].checkAt = req[k].checkAt /\ req'[k].state = req[k].state
      BY <3>1 DEF Request, TypeOK
    <3>4. \A k \in Handlers : pc[k] # "idle" => req[k].checkAt \in Nat
      BY DEF Request, TypeOK
    <3>5. CreateClashNeedsOverlap'
      BY <2>0, <3>1, <3>2 DEF TypeOK
    <3>6. IdsBelowNext' /\ CheckBeforeNext'
      BY <2>0, <3>1, <3>2, <3>3, <3>4 DEF TypeOK
    <3>7. CreationSawNothing'
      BY <3>1, <3>2, <3>3
    <3>8. LoadReplaysEverything'
      BY <3>1, <3>2, <3>3, <3>4 DEF TypeOK
    <3> QED
      BY <3>5, <3>6, <3>7, <3>8
  <2>7. ASSUME NEW h \in Handlers, SaveSnapshot(h)
        PROVE  LookInv'
    BY <2>7 DEF SaveSnapshot, Goto, TypeOK
  <2>8. CASE UNCHANGED vars
    BY <2>8 DEF vars, tables
  <2> QED
    BY <2>1, <2>2, <2>3, <2>4, <2>5, <2>6, <2>7, <2>8 DEF Next
<1> QED
  BY <1>1, <1>2, TypeCorrect, PTL DEF Spec

\* An aggregate is created again only when the second request had tested
\* Exists before the first row of the aggregate was added.
THEOREM SecondCreateOverlaps == Spec => []CreateClashNeedsOverlap
<1>1. LookInv => CreateClashNeedsOverlap
  BY DEF LookInv
<1> QED
  BY <1>1, LookInductive, PTL

\* What Load hands to the updater has applied every event that was stored.
THEOREM LoadIsComplete == Spec => []LoadReplaysEverything
<1>1. LookInv => LoadReplaysEverything
  BY DEF LookInv
<1> QED
  BY <1>1, LookInductive, PTL

------------------------------------------------------------------------------
(* What is stored.  An aggregate object holds the effects of stored events    *)
(* and of changes its save has still to add; the changes a save has counted   *)
(* as added are in the table.                                                 *)

Stored(a, n) == \E e \in events : e.agg = a /\ e.name = n

Change(r, i) == [cmd |-> r.cmd, idx |-> i]

StateStoredOrPending ==
  \A h \in Handlers : pc[h] # "idle" =>
    \A n \in req[h].state :
      \/ Stored(req[h].agg, n)
      \/ /\ pc[h] = "saving"
         /\ n \in Changes(req[h])
      \/ /\ pc[h] = "adding"
         /\ \E i \in 1..req[h].changes : i > req[h].added /\ n = Change(req[h], i)

AddedStored ==
  \A h \in Handlers : pc[h] \in {"adding", "returning"} =>
    /\ \A i \in 1..req[h].added : Stored(req[h].agg, Change(req[h], i))
    /\ pc[h] = "returning" => req[h].added = req[h].changes

StoredInv ==
  StateStoredOrPending /\ AddedStored /\ SnapshotContentsStored /\ AckedSaveComplete

LEMMA StoredInductive == Spec => []StoredInv
<1> USE DEF StoredInv, StateStoredOrPending, AddedStored, SnapshotContentsStored,
            AckedSaveComplete, Stored
<1>1. Init => StoredInv
  BY DEF Init, Blank
<1>2. TypeOK /\ StoredInv /\ [Next]_vars => StoredInv'
  <2> SUFFICES ASSUME TypeOK, StoredInv, [Next]_vars
               PROVE  StoredInv'
    OBVIOUS
  <2>1. ASSUME NEW h \in Handlers, NEW a \in Aggregates, NEW n \in ChangeCounts,
               Create(h, a, n)
        PROVE  StoredInv'
    <3>1. /\ pc' = [pc EXCEPT ![h] = "saving"]
          /\ UNCHANGED <<events, snapshot, acked>>
          /\ req' = [req EXCEPT ![h] = req'[h]]
          /\ req'[h].state = {[cmd |-> commands + 1, idx |-> i] : i \in 1..n}
          /\ req'[h].cmd = commands + 1 /\ req'[h].changes = n
      BY <2>1 DEF Create, Issue, Goto, tables, TypeOK
    <3>2. req'[h].state = Changes(req'[h])
      BY <3>1 DEF Changes
    <3> QED
      BY <3>1, <3>2 DEF TypeOK, Changes, Change
  <2>2. ASSUME NEW h \in Handlers, NEW a \in Aggregates, NEW n \in ChangeCounts,
               LoadSnapshot(h, a, n)
        PROVE  StoredInv'
    <3>1. /\ pc' = [pc EXCEPT ![h] = "loading"]
          /\ UNCHANGED <<events, snapshot, acked>>
          /\ req' = [req EXCEPT ![h] = req'[h]]
          /\ req'[h].agg = a /\ req'[h].state = snapshot[a].content
      BY <2>2 DEF LoadSnapshot, Issue, Goto, tables, TypeOK
    <3> QED
      BY <3>1 DEF TypeOK, Changes, Change
  <2>3. ASSUME NEW h \in Handlers, LoadEvents(h)
        PROVE  StoredInv'
    <3>1. /\ req[h] \in Request
          /\ pc[h] = "loading" /\ pc' = [pc EXCEPT ![h] = "saving"]
          /\ UNCHANGED <<events, snapshot, acked>>
          /\ req' = [req EXCEPT ![h] = req'[h]]
      BY <2>3 DEF LoadEvents, Goto, tables, TypeOK
    <3>2. req'[h] = [req[h] EXCEPT
             !.state = req[h].state \cup Replayed(req[h]) \cup Changes(req[h]),
             !.checkAt = nextId - 1]
      BY <2>3 DEF LoadEvents, TypeOK
    <3>3. /\ req'[h].agg = req[h].agg /\ req'[h].cmd = req[h].cmd
          /\ req'[h].changes = req[h].changes
          /\ req'[h].state = req[h].state \cup Replayed(req[h]) \cup Changes(req[h])
      BY <3>1, <3>2 DEF Request
    <3>4. Changes(req'[h]) = Changes(req[h])
      BY <3>3 DEF Changes
    <3>5. \A x \in Replayed(req[h]) : Stored(req[h].agg, x)
      BY DEF Replayed, RowsOf
    <3> QED
      BY <3>1, <3>3, <3>4, <3>5 DEF TypeOK, Changes, Change
  <2>4. ASSUME NEW h \in Handlers, LoadNothing(h) \/ Fail(h)
        PROVE  StoredInv'
    BY <2>4 DEF LoadNothing, Fail, End, Goto, tables, TypeOK, Changes, Change
  <2>5. ASSUME NEW h \in Handlers, Return(h)
        PROVE  StoredInv'
    <3>1. /\ req[h] \in Request /\ req[h].added = req[h].changes
          /\ pc[h] \in {"adding", "returning"} /\ pc' = [pc EXCEPT ![h] = "idle"]
          /\ UNCHANGED <<events, snapshot>>
          /\ acked' = acked \cup {Changes(req[h])}
          /\ \A k \in Handlers : k # h => req'[k] = req[k]
      BY <2>5 DEF Return, End, Goto, tables, TypeOK
    <3>2. \A x \in Changes(req[h]) : \E e \in events : e.name = x
      BY <3>1 DEF Changes, Change
    <3> QED
      BY <3>1, <3>2 DEF TypeOK, Changes, Change
  <2>6. ASSUME NEW h \in Handlers, ReadVersion(h)
        PROVE  StoredInv'
    <3>1. PICK v \in -1 .. nextId :
             req' = [req EXCEPT ![h] =
                [req[h] EXCEPT !.version = v, !.readAt = nextId - 1, !.added = 0]]
      BY <2>6 DEF ReadVersion
    <3>2. /\ req[h] \in Request /\ pc[h] = "saving"
          /\ UNCHANGED <<events, snapshot, acked>>
          /\ pc' = [pc EXCEPT ![h] = "adding"]
      BY <2>6 DEF ReadVersion, Goto, tables, TypeOK
    <3>3. /\ req'[h].agg = req[h].agg /\ req'[h].cmd = req[h].cmd
          /\ req'[h].changes = req[h].changes /\ req'[h].state = req[h].state
          /\ req'[h].added = 0
      BY <3>1, <3>2 DEF Request, TypeOK
    <3>4. \A x \in Changes(req[h]) : \E i \in 1..req[h].changes : i > 0 /\ x = Change(req[h], i)
      BY DEF Changes, Change
    <3> QED
      BY <3>1, <3>2, <3>3, <3>4 DEF TypeOK, Changes, Change
  <2>7. ASSUME NEW h \in Handlers, AddRow(h)
        PROVE  StoredInv'
    <3> DEFINE row == NextRow(req[h])
    <3>1. /\ req[h] \in Request
          /\ pc[h] = "adding" /\ pc' = pc
          /\ events' = events \cup {row}
          /\ UNCHANGED <<snapshot, acked>>
          /\ req' = [req EXCEPT ![h] = [req[h] EXCEPT !.added = req[h].added + 1]]
      BY <2>7 DEF AddRow, TypeOK
    <3>2. row.agg = req[h].agg /\ row.name = Change(req[h], req[h].added + 1)
      BY DEF NextRow, Change
    <3> HIDE DEF row
    <3>3. \A k \in Handlers :
             /\ req'[k].agg = req[k].agg /\ req'[k].cmd = req[k].cmd
             /\ req'[k].changes = req[k].changes /\ req'[k].state = req[k].state
             /\ req'[k].added = IF k = h THEN req[h].added + 1 ELSE req[k].added
             /\ k # h => req'[k] = req[k]
      BY <3>1 DEF Request, TypeOK
    <3> DEFINE StoredNext(b, x) == \E e \in events' : e.agg = b /\ e.name = x
    <3>4. \A b, x : Stored(b, x) => StoredNext(b, x)
      BY <3>1
    <3>5. StoredNext(req[h].agg, Change(req[h], req[h].added + 1))
      BY <3>1, <3>2
    <3>6. StateStoredOrPending'
      <4> SUFFICES ASSUME NEW k \in Handlers, pc'[k] # "idle", NEW x \in req'[k].state
                   PROVE  \/ StoredNext(req'[k].agg, x)
                          \/ /\ pc'[k] = "saving"
                             /\ x \in Changes(req'[k])
                          \/ /\ pc'[k] = "adding"
                             /\ \E i \in 1..req'[k].changes :
                                   i > req'[k].added /\ x = Change(req'[k], i)
        BY DEF Changes, Change
      <4>1. CASE k # h
        <5>1. pc[k] # "idle" /\ pc[k] = pc'[k] /\ req'[k] = req[k] /\ x \in req[k].state
          BY <4>1, <3>1, <3>3
        <5> QED
          BY <5>1, <3>4
      <4>2. CASE k = h
        <5>1. /\ req'[k].agg = req[h].agg /\ req'[k].changes = req[h].changes
              /\ req'[k].added = req[h].added + 1 /\ pc'[k] = "adding"
              /\ \A i : Change(req'[k], i) = Change(req[h], i)
          BY <4>2, <3>1, <3>3 DEF Change
        <5>2. \/ Stored(req[h].agg, x)
              \/ \E i \in 1..req[h].changes : i > req[h].added /\ x = Change(req[h], i)
          BY <4>2, <3>1, <3>3
        <5>3. CASE Stored(req[h].agg, x)
          BY <5>1, <5>3, <3>4
        <5>4. ASSUME NEW i \in 1..req[h].changes, i > req[h].added, x = Change(req[h], i)
              PROVE  StoredNext(req[h].agg, x) \/ i > req[h].added + 1
          <6>1. i = req[h].added + 1 \/ i > req[h].added + 1
            BY <5>4, <3>1 DEF Request
          <6> QED
            BY <5>4, <6>1, <3>5
        <5> HIDE DEF StoredNext
        <5> QED
          BY <5>1, <5>2, <5>3, <5>4
      <4> QED
        BY <4>1, <4>2
    <3>7. AddedStored'
      <4> SUFFICES ASSUME NEW k \in Handlers, pc'[k] \in {"adding", "returning"}
                   PROVE  /\ \A i \in 1..req'[k].added : StoredNext(req'[k].agg, Change(req'[k], i))
                          /\ pc'[k] = "returning" => req'[k].added = req'[k].changes
        BY DEF Change
      <4>1. CASE k # h
        <5>1. pc[k] = pc'[k] /\ req'[k] = req[k]
          BY <4>1, <3>1, <3>3
        <5> QED
          BY <5>1, <3>4
      <4>2. CASE k = h
        <5>1. /\ req'[k].agg = req[h].agg
              /\ req'[k].added = req[h].added + 1 /\ pc'[k] = "adding"
              /\ \A i : Change(req'[k], i) = Change(req[h], i)
          BY <4>2, <3>1, <3>3 DEF Change
        <5>2. \A i \in 1..(req[h].added + 1) : i \in 1..req[h].added \/ i = req[h].added + 1
          BY <3>1 DEF Request
        <5>3. \A i \in 1..req[h].added : Stored(req[h].agg, Change(req[h], i))
          BY <3>1
        <5> HIDE DEF StoredNext
        <5> QED
          BY <5>1, <5>2, <5>3, <3>4, <3>5
      <4> QED
        BY <4>1, <4>2
    <3>8. SnapshotContentsStored' /\ AckedSaveComplete'
      BY <3>1
    <3> QED
      BY <3>6, <3>7, <3>8
  <2>8. ASSUME NEW h \in Handlers, SaveSnapshot(h)
        PROVE  StoredInv'
    <3>1. /\ req[h] \in Request /\ req[h].added = req[h].changes
          /\ pc[h] = "adding" /\ pc' = [pc EXCEPT ![h] = "returning"]
          /\ UNCHANGED <<events, req, acked>>
          /\ \A b \in Aggregates : b # req[h].agg => snapshot'[b] = snapshot[b]
          /\ snapshot'[req[h].agg].content = req[h].state
      BY <2>8 DEF SaveSnapshot, Goto, TypeOK, Request
    <3>2. \A x \in req[h].state : Stored(req[h].agg, x)
      BY <3>1 DEF Request
    <3>3. SnapshotContentsStored'
      BY <3>1, <3>2 DEF TypeOK
    <3> QED
      BY <3>1, <3>2, <3>3 DEF TypeOK
  <2>9. CASE UNCHANGED vars
    BY <2>9 DEF vars, tables, Changes, Change
  <2> QED
    BY <2>1, <2>2, <2>3, <2>4, <2>5, <2>6, <2>7, <2>8, <2>9 DEF Next
<1> QED
  BY <1>1, <1>2, TypeCorrect, PTL DEF Spec

\* A snapshot never holds the effect of an event that is not stored.
THEOREM SnapshotNeverAhead == Spec => []SnapshotContentsStored
<1>1. StoredInv => SnapshotContentsStored
  BY DEF StoredInv
<1> QED
  BY <1>1, StoredInductive, PTL

\* When a handler returns, every event of its command is stored.
THEOREM AckedIsStored == Spec => []AckedSaveComplete
<1>1. StoredInv => AckedSaveComplete
  BY DEF StoredInv
<1> QED
  BY <1>1, StoredInductive, PTL

=============================================================================
