------------------------ MODULE EsAggregateStore_proofs ------------------------
(* Proofs about EsAggregateStore, for any commands, aggregates, page size and *)
(* numbers of changes: what the streams hold, and that they implement         *)
(* WriteOnce.                                                                 *)
EXTENDS EsAggregateStore, TLAPS

\* What a command loaded is the whole of stream s, or the first page of it.
FirstPage(loaded, s) == loaded = length[s] \/ (loaded = PageSize /\ length[s] > PageSize)

\* Where the server stands towards a command that is about to save: an update
\* of an aggregate that is there has what Load can read of its stream, which is
\* there for good.
Saving(c) ==
  /\ request[c].creates => request[c].stream # BlankId
  /\ request[c].changes <= MaxChanges
  /\ ~request[c].creates /\ request[c].stream # BlankId =>
        /\ writer[request[c].stream] # Nothing
        /\ FirstPage(request[c].loaded, request[c].stream)

\* A stream holds nothing, or all that its one writer raised.
Holds(s) ==
  LET w == writer[s]
  IN  IF w = Nothing THEN length[s] = 0
      ELSE /\ pc[w] \notin {"new", "saving"}
           /\ request[w] \in Request
           /\ request[w].stream = s
           /\ length[s] = request[w].changes
           /\ length[s] <= MaxChanges
           /\ s # BlankId => request[w].creates

\* A command whose append the server did is the writer of its stream.
Stored(c) ==
  pc[c] = "written" \/ (pc[c] = "returned" /\ request[c].changes > 0) =>
      writer[request[c].stream] = c

Inv ==
  /\ TypeOK
  /\ \A s \in Streams : Holds(s)
  /\ \A c \in Commands : pc[c] = "saving" => Saving(c)
  /\ \A c \in Commands : Stored(c)

\* What a step of command c does to the others: nothing.
LEMMA OnlyOne ==
  ASSUME TypeOK, NEW c \in Commands, NEW phase \in Phases, Goto(c, phase)
  PROVE  /\ pc' \in [Commands -> Phases]
         /\ pc'[c] = phase
         /\ \A d \in Commands \ {c} : pc'[d] = pc[d]
BY DEF TypeOK, Goto

\* A command that arrives at Save, with r for its local variables.
LEMMA Arrive ==
  ASSUME Inv, NEW c \in Commands, NEW r \in Request, pc[c] = "new",
         Goto(c, "saving"), request' = [request EXCEPT ![c] = r], UNCHANGED server,
         r.creates => r.stream # BlankId, r.changes <= MaxChanges,
         ~r.creates /\ r.stream # BlankId =>
            writer[r.stream] # Nothing /\ FirstPage(r.loaded, r.stream)
  PROVE  Inv'
<1>1. /\ pc' \in [Commands -> Phases] /\ pc'[c] = "saving"
      /\ \A d \in Commands \ {c} : pc'[d] = pc[d]
  BY OnlyOne DEF Inv, Phases
<1>2. /\ request'[c] = r
      /\ \A d \in Commands \ {c} : request'[d] = request[d]
      /\ request' \in [Commands -> Request \cup {Nothing}]
  BY DEF Inv, TypeOK
<1>3. writer' = writer /\ length' = length
  BY DEF server
<1>4. TypeOK'
  BY <1>1, <1>2, <1>3 DEF Inv, TypeOK
<1>5. ASSUME NEW s \in Streams PROVE Holds(s)'
  <2>1. Holds(s) /\ writer[s] \in Commands \cup {Nothing}
    BY DEF Inv, TypeOK
  <2>2. writer[s] # c
    BY <2>1, CommandsAssumption DEF Holds
  <2> QED
    BY <1>1, <1>2, <1>3, <2>1, <2>2 DEF Holds
<1>6. ASSUME NEW d \in Commands, pc'[d] = "saving" PROVE Saving(d)'
  <2>1. CASE d = c
    BY <1>2, <1>3, <2>1 DEF Saving, FirstPage
  <2>2. CASE d # c
    <3>1. Saving(d) /\ request'[d] = request[d]
      BY <1>1, <1>2, <1>6, <2>2 DEF Inv
    <3> QED
      BY <1>3, <3>1 DEF Saving, FirstPage
  <2> QED
    BY <2>1, <2>2
<1>7. ASSUME NEW d \in Commands PROVE Stored(d)'
  BY <1>1, <1>2, <1>3 DEF Inv, Stored
<1> QED
  BY <1>4, <1>5, <1>6, <1>7 DEF Inv

\* A command that ends, its locals and the server as they were.
LEMMA Leave ==
  ASSUME Inv, NEW c \in Commands, NEW phase \in {"returned", "thrown"},
         Goto(c, phase), UNCHANGED <<server, request>>,
         phase = "returned" =>
            request[c] \in Request /\ (request[c].changes > 0 => pc[c] = "written")
  PROVE  Inv'
<1>1. /\ pc' \in [Commands -> Phases] /\ pc'[c] = phase
      /\ \A d \in Commands \ {c} : pc'[d] = pc[d]
  BY OnlyOne DEF Inv, Phases
<1>2. writer' = writer /\ length' = length /\ request' = request
  BY DEF server
<1>3. TypeOK'
  BY <1>1, <1>2 DEF Inv, TypeOK
<1>4. ASSUME NEW s \in Streams PROVE Holds(s)'
  <2>1. Holds(s) /\ writer[s] \in Commands \cup {Nothing}
    BY DEF Inv, TypeOK
  <2> QED
    BY <1>1, <1>2, <2>1 DEF Holds
<1>5. ASSUME NEW d \in Commands, pc'[d] = "saving" PROVE Saving(d)'
  <2>1. Saving(d)
    BY <1>1, <1>5 DEF Inv
  <2> QED
    BY <1>2, <2>1 DEF Saving, FirstPage
<1>6. ASSUME NEW d \in Commands PROVE Stored(d)'
  <2>1. Stored(d) /\ (phase = "returned" /\ request[c].changes > 0 => Stored(c))
    BY DEF Inv
  <2> QED
    BY <1>1, <1>2, <2>1 DEF Stored
<1> QED
  BY <1>3, <1>4, <1>5, <1>6 DEF Inv

\* The server takes an append: it had no such stream.
LEMMA Appended ==
  ASSUME Inv, NEW c \in Commands, Append(c)
  PROVE  /\ Inv'
         /\ writer' = [writer EXCEPT ![request[c].stream] = c]
         /\ request[c].stream \in Streams /\ writer[request[c].stream] = Nothing
         /\ \A s \in Streams : writer[s] # c
<1> DEFINE t == request[c].stream
           n == request[c].changes
<1>1. /\ pc[c] = "saving" /\ n > 0 /\ writer[t] = Nothing
      /\ writer' = [writer EXCEPT ![t] = c] /\ length' = [length EXCEPT ![t] = length[t] + n]
      /\ Goto(c, "written") /\ request' = request
  BY DEF Append, AsExpected
<1>2. request[c] \in Request /\ t \in Streams /\ n \in Nat
  BY <1>1 DEF Inv, TypeOK, Request
<1>3. Saving(c) /\ Holds(t)
  BY <1>1, <1>2 DEF Inv
<1>4. n <= MaxChanges /\ length[t] = 0 /\ (t # BlankId => request[c].creates)
  BY <1>1, <1>2, <1>3 DEF Saving, Holds
<1>5. \A s \in Streams : writer[s] # c
  BY <1>1, CommandsAssumption DEF Inv, Holds
<1>6. /\ pc' \in [Commands -> Phases] /\ pc'[c] = "written"
      /\ \A d \in Commands \ {c} : pc'[d] = pc[d]
  BY <1>1, OnlyOne DEF Inv, Phases
<1>7. /\ writer' \in [Streams -> Commands \cup {Nothing}] /\ writer'[t] = c
      /\ length' \in [Streams -> Nat] /\ length'[t] = n
      /\ \A s \in Streams \ {t} : writer'[s] = writer[s] /\ length'[s] = length[s]
  BY <1>1, <1>2, <1>4 DEF Inv, TypeOK
<1> HIDE DEF t, n
<1>8. TypeOK'
  BY <1>1, <1>2, <1>6, <1>7 DEF Inv, TypeOK
<1>9. ASSUME NEW s \in Streams PROVE Holds(s)'
  <2>1. CASE s = t
    <3>1. c # Nothing /\ request'[c].stream = t /\ request'[c].changes = n
      BY <1>1, CommandsAssumption DEF t, n
    <3> QED
      BY <1>1, <1>2, <1>4, <1>6, <1>7, <2>1, <3>1 DEF Holds
  <2>2. CASE s # t
    <3>1. Holds(s) /\ writer'[s] = writer[s] /\ length'[s] = length[s]
          /\ writer[s] \in Commands \cup {Nothing} /\ writer[s] # c
      BY <1>5, <1>7, <2>2 DEF Inv, TypeOK
    <3> QED
      BY <1>1, <1>6, <3>1 DEF Holds
  <2> QED
    BY <2>1, <2>2
<1>10. ASSUME NEW d \in Commands, pc'[d] = "saving" PROVE Saving(d)'
  <2>1. d # c /\ Saving(d) /\ request[d] \in Request
    BY <1>6, <1>10 DEF Inv, TypeOK
  <2>2. request[d].stream \in Streams
    BY <2>1 DEF Request
  <2>3. CASE request[d].stream = t
    BY <1>1, <1>7, <2>1, <2>3, CommandsAssumption DEF Saving, FirstPage
  <2>4. CASE request[d].stream # t
    BY <1>1, <1>7, <2>1, <2>2, <2>4 DEF Saving, FirstPage
  <2> QED
    BY <2>3, <2>4
<1>11. ASSUME NEW d \in Commands PROVE Stored(d)'
  <2>1. CASE d = c
    BY <1>1, <1>7, <2>1 DEF Stored, t
  <2>2. CASE d # c
    <3>1. SUFFICES ASSUME pc[d] = "written" \/ (pc[d] = "returned" /\ request[d].changes > 0)
                   PROVE  writer'[request[d].stream] = d
      BY <1>1, <1>6, <2>2 DEF Stored
    <3>2. writer[request[d].stream] = d /\ request[d].stream \in Streams
      BY <3>1 DEF Inv, Stored, TypeOK, Request
    <3> QED
      BY <1>1, <1>7, <3>2, CommandsAssumption
  <2> QED
    BY <2>1, <2>2
<1> QED
  BY <1>1, <1>2, <1>5, <1>8, <1>9, <1>10, <1>11 DEF Inv, t

LEMMA InvInit == Init => Inv
BY CommandsAssumption DEF Init, Inv, TypeOK, Holds, Saving, FirstPage, Stored, Streams, Phases

LEMMA InvStep == Inv /\ [Next]_vars => Inv'
<1> SUFFICES ASSUME Inv, [Next]_vars
             PROVE  Inv'
  OBVIOUS
<1> USE CommandsAssumption
<1>1. ASSUME NEW c \in Commands, NEW a \in Aggregates, NEW n \in 1..MaxChanges, Create(c, a, n)
      PROVE  Inv'
  <2> DEFINE r == [stream |-> a, creates |-> TRUE, loaded |-> 0, changes |-> n]
  <2>1. r \in Request
    BY DEF Request, Streams
  <2>2. r.stream # BlankId /\ r.changes <= MaxChanges /\ r.creates
    BY DEF Streams
  <2>3. pc[c] = "new" /\ Goto(c, "saving") /\ UNCHANGED server
        /\ request' = [request EXCEPT ![c] = r]
    BY <1>1 DEF Create
  <2> HIDE DEF r
  <2> QED
    BY <2>1, <2>2, <2>3, Arrive
<1>2. ASSUME NEW c \in Commands, NEW a \in Aggregates, NEW n \in 0..MaxChanges, Update(c, a, n)
      PROVE  Inv'
  <2> DEFINE s == IF Exists(a) THEN a ELSE BlankId
             r == [stream |-> s, creates |-> FALSE, loaded |-> Replayed(a), changes |-> n]
  <2>1. a \in Streams /\ length[a] \in Nat /\ Holds(a)
    BY DEF Inv, TypeOK, Streams
  <2>2. Replayed(a) \in Nat /\ FirstPage(Replayed(a), a)
    BY <2>1 DEF Replayed, FirstPage
  <2>3. r \in Request
    BY <2>2 DEF Request, Streams
  <2>4. ~r.creates /\ r.changes <= MaxChanges /\ r.stream = s /\ r.loaded = Replayed(a)
    OBVIOUS
  <2>5. s # BlankId => s = a /\ writer[a] # Nothing
    BY DEF Exists
  <2>6. pc[c] = "new" /\ Goto(c, "saving") /\ UNCHANGED server
        /\ request' = [request EXCEPT ![c] = r]
    BY <1>2 DEF Update
  <2> HIDE DEF r
  <2>7. ~r.creates /\ r.stream # BlankId =>
          writer[r.stream] # Nothing /\ FirstPage(r.loaded, r.stream)
    BY <2>2, <2>4, <2>5
  <2> QED
    BY <2>3, <2>4, <2>6, <2>7, Arrive
<1>3. ASSUME NEW c \in Commands, SaveNothing(c)
      PROVE  Inv'
  <2>1. request[c] \in Request /\ request[c].changes = 0
    BY <1>3 DEF SaveNothing, Inv, TypeOK
  <2> QED
    BY <1>3, <2>1, Leave DEF SaveNothing
<1>4. ASSUME NEW c \in Commands, Append(c)
      PROVE  Inv'
  BY <1>4, Appended
<1>5. ASSUME NEW c \in Commands, WrongExpectedVersion(c)
      PROVE  Inv'
  BY <1>5, Leave DEF WrongExpectedVersion
<1>6. ASSUME NEW c \in Commands, Return(c)
      PROVE  Inv'
  <2>1. request[c] \in Request
    BY <1>6 DEF Return, Inv, TypeOK
  <2> QED
    BY <1>6, <2>1, Leave DEF Return
<1>7. ASSUME NEW c \in Commands, Throw(c)
      PROVE  Inv'
  BY <1>7, Leave DEF Throw
<1>8. CASE UNCHANGED vars
  BY <1>8 DEF vars, Inv, TypeOK, Holds, Saving, FirstPage, Stored
<1> QED
  BY <1>1, <1>2, <1>3, <1>4, <1>5, <1>6, <1>7, <1>8 DEF Next

THEOREM Invariance == Spec => []Inv
BY InvInit, InvStep, PTL DEF Spec

\* The server's streams and the locals of the commands keep their types.
THEOREM TypeCorrect == Spec => []TypeOK
<1>1. Inv => TypeOK
  BY DEF Inv
<1> QED
  BY <1>1, Invariance, PTL

\* The stream of an aggregate is the whole of what one create wrote: no update
\* ever reaches it.
THEOREM OnlyCreationsStored == Spec => []StreamsAreCreations
<1>1. Inv => StreamsAreCreations
  BY CommandsAssumption DEF Inv, Holds, StreamsAreCreations, Streams
<1> QED
  BY <1>1, Invariance, PTL

\* An update about to be saved holds its stream, or the first page of a longer
\* one, and one that holds less than its stream is neither stored nor answered:
\* the writer of the stream of an aggregate is a create.
THEOREM ShortLoadsStoreNothing == Spec => []ShortLoadStoresNothing
<1>1. Inv => ShortLoadStoresNothing
  <2> SUFFICES ASSUME Inv, NEW c \in Commands, request[c] # Nothing,
                      ~request[c].creates, request[c].stream # BlankId
               PROVE  /\ pc[c] = "saving" => FirstPage(request[c].loaded, request[c].stream)
                      /\ pc[c] # "written"
                      /\ pc[c] = "returned" => request[c].changes = 0
    BY DEF ShortLoadStoresNothing, FirstPage
  <2>1. request[c] \in Request /\ request[c].stream \in Streams /\ request[c].changes \in Nat
    BY DEF Inv, TypeOK, Request
  <2>2. pc[c] = "saving" => FirstPage(request[c].loaded, request[c].stream)
    BY DEF Inv, Saving
  <2>3. writer[request[c].stream] # c
    BY <2>1, CommandsAssumption DEF Inv, Holds
  <2> QED
    BY <2>1, <2>2, <2>3 DEF Inv, Stored
<1> QED
  BY <1>1, Invariance, PTL

\* A step of the store is a step of the registers or none.
LEMMA StepRefines ==
  ASSUME Inv, [Next]_vars
  PROVE  [Registers!Next]_<<writer, Answered>>
<1> USE CommandsAssumption
<1>1. ASSUME NEW c \in Commands, NEW phase \in Phases, Goto(c, phase),
             pc[c] # "returned", phase # "returned", writer' = writer,
             \A d \in Commands \ {c} : request'[d] = request[d]
      PROVE  UNCHANGED <<writer, Answered>>
  <2>1. /\ pc'[c] = phase /\ \A d \in Commands \ {c} : pc'[d] = pc[d]
    BY <1>1, OnlyOne DEF Inv
  <2>2. Answered' = Answered
    BY <1>1, <2>1 DEF Answered
  <2> QED
    BY <1>1, <2>2
<1>2. ASSUME NEW c \in Commands, NEW a \in Aggregates, NEW n \in 1..MaxChanges, Create(c, a, n)
      PROVE  UNCHANGED <<writer, Answered>>
  <2>1. pc[c] = "new" /\ Goto(c, "saving") /\ writer' = writer
        /\ \A d \in Commands \ {c} : request'[d] = request[d]
    BY <1>2 DEF Create, server, Inv, TypeOK
  <2> QED
    BY <1>1, <2>1 DEF Phases
<1>3. ASSUME NEW c \in Commands, NEW a \in Aggregates, NEW n \in 0..MaxChanges, Update(c, a, n)
      PROVE  UNCHANGED <<writer, Answered>>
  <2>1. pc[c] = "new" /\ Goto(c, "saving") /\ writer' = writer
        /\ \A d \in Commands \ {c} : request'[d] = request[d]
    BY <1>3 DEF Update, server, Inv, TypeOK
  <2> QED
    BY <1>1, <2>1 DEF Phases
<1>4. ASSUME NEW c \in Commands, SaveNothing(c)
      PROVE  UNCHANGED <<writer, Answered>>
  <2>1. /\ pc'[c] = "returned" /\ \A d \in Commands \ {c} : pc'[d] = pc[d]
        /\ request' = request /\ writer' = writer /\ request[c].changes = 0
    BY <1>4, OnlyOne DEF SaveNothing, server, Inv, Phases
  <2> QED
    BY <1>4, <2>1 DEF Answered, SaveNothing
<1>5. ASSUME NEW c \in Commands, Append(c)
      PROVE  Registers!Write(request[c].stream, c) /\ request[c].stream \in Streams
  <2>1. /\ writer' = [writer EXCEPT ![request[c].stream] = c]
        /\ request[c].stream \in Streams /\ writer[request[c].stream] = Nothing
        /\ \A s \in Streams : writer[s] # c
    BY <1>5, Appended
  <2>2. pc[c] = "saving" /\ Goto(c, "written") /\ request' = request
    BY <1>5 DEF Append
  <2>3. /\ pc'[c] = "written" /\ \A d \in Commands \ {c} : pc'[d] = pc[d]
    BY <2>2, OnlyOne DEF Inv, Phases
  <2>4. Answered' = Answered
    BY <2>2, <2>3 DEF Answered
  <2> QED
    BY <2>1, <2>4 DEF Registers!Write
<1>6. ASSUME NEW c \in Commands, WrongExpectedVersion(c)
      PROVE  UNCHANGED <<writer, Answered>>
  BY <1>1, <1>6 DEF WrongExpectedVersion, server, Phases
<1>7. ASSUME NEW c \in Commands, Return(c)
      PROVE  Registers!Answer(c) \/ UNCHANGED <<writer, Answered>>
  <2>1. /\ pc'[c] = "returned" /\ \A d \in Commands \ {c} : pc'[d] = pc[d]
        /\ request' = request /\ writer' = writer
    BY <1>7, OnlyOne DEF Return, server, Inv, Phases
  <2>2. /\ request[c] \in Request /\ request[c].stream \in Streams
        /\ writer[request[c].stream] = c
    BY <1>7 DEF Return, Inv, Stored, TypeOK, Request
  <2>3. CASE request[c].changes > 0
    <3>1. Answered' = Answered \cup {c}
      BY <2>1, <2>3 DEF Answered
    <3> QED
      BY <2>1, <2>2, <3>1 DEF Registers!Answer
  <2>4. CASE ~(request[c].changes > 0)
    BY <1>7, <2>1, <2>4 DEF Answered, Return
  <2> QED
    BY <2>3, <2>4
<1>8. ASSUME NEW c \in Commands, Throw(c)
      PROVE  UNCHANGED <<writer, Answered>>
  BY <1>1, <1>8 DEF Throw, server, Phases
<1>9. CASE UNCHANGED vars
  BY <1>9 DEF vars, Answered
<1> QED
  BY <1>2, <1>3, <1>4, <1>5, <1>6, <1>7, <1>8, <1>9 DEF Next, Registers!Next

\* The store implements registers that are written once: of the commands racing
\* for a stream at most one is answered, and what it raised is stored.
THEOREM Refinement == Spec => WrittenOnce
<1>1. Init => Registers!Init
  BY DEF Init, Registers!Init, Answered
<1>2. Inv /\ [Next]_vars => [Registers!Next]_<<writer, Answered>>
  BY StepRefines
<1> QED
  BY <1>1, <1>2, Invariance, PTL DEF Spec, WrittenOnce, Registers!Spec
=============================================================================
