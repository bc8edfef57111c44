------------------------- MODULE KafkaConsumer_proofs -------------------------
(* Proofs about KafkaConsumer, for any topics, messages and failures.         *)
EXTENDS KafkaConsumer, TLAPS

\* What a loop has at each stage: the fields are set before it starts, it waits
\* at a client, and it holds a message exactly while a handler runs.
LoopInv(l) ==
  /\ loop[l] \notin {"none", "resolved"} => consumer \in Topics
  /\ loop[l] \notin {"none", "resolved", "assigning"} => topic \in Topics
  /\ loop[l] = "waiting" => using[l] \in Topics
  /\ loop[l] = "handling" => held[l] \in Message
  /\ loop[l] # "handling" => held[l] = None

\* A message that is done with, or that a handler has.
Covered(m) == m \in settled \/ \E l \in Topics : held[l] = m

\* All a client handed out, and all the group committed, is covered.
ClientInv(k) ==
  subscribed[k] # None =>
      \A m \in Message : m.topic = subscribed[k] /\ m.offset <= position[k] => Covered(m)

GroupInv == \A m \in Message : m.offset <= committed[m.topic] => Covered(m)

Inv ==
  /\ TypeOK
  /\ \A l \in Topics : LoopInv(l)
  /\ \A k \in Topics : ClientInv(k)
  /\ GroupInv

\* No step takes a message out of its handler without settling it.
Keeps == \A m \in Message : Covered(m) => Covered(m)'

\* A loop moves to a stage, the others stay where they are.
LEMMA GotoValue ==
  ASSUME TypeOK, NEW l \in Topics, NEW stage \in Stages, Goto(l, stage)
  PROVE  /\ loop' \in [Topics -> Stages] /\ loop'[l] = stage
         /\ \A d \in Topics \ {l} : loop'[d] = loop[d]
BY DEF TypeOK, Goto

\* A step that changes no client, nor what the group committed.
LEMMA SameClients ==
  ASSUME Inv, Keeps, UNCHANGED <<subscribed, position, committed>>
  PROVE  (\A k \in Topics : ClientInv(k)') /\ GroupInv'
BY DEF Inv, Keeps, ClientInv, GroupInv

\* A step of loop l that holds nothing before and after it.
LEMMA EmptyHanded ==
  ASSUME Inv, NEW l \in Topics, NEW stage \in Stages, Goto(l, stage),
         loop[l] # "handling", stage # "handling", calls' = calls,
         settled \subseteq settled',
         consumer' = consumer \/ consumer' \in Topics, topic' = topic \/ topic' \in Topics,
         stage \notin {"none", "resolved"} => consumer' \in Topics,
         stage \notin {"none", "resolved", "assigning"} => topic' \in Topics,
         stage = "waiting" => using'[l] \in Topics,
         \A d \in Topics \ {l} : using'[d] = using[d]
  PROVE  (\A d \in Topics : LoopInv(d)') /\ Keeps
<1>1. /\ loop'[l] = stage /\ \A d \in Topics \ {l} : loop'[d] = loop[d]
  BY GotoValue DEF Inv
<1>2. ASSUME NEW d \in Topics PROVE LoopInv(d)'
  <2>1. LoopInv(d) /\ LoopInv(l)
    BY DEF Inv
  <2> QED
    BY <1>1, <2>1 DEF LoopInv, calls
<1>3. Keeps
  BY DEF Keeps, Covered, calls
<1> QED
  BY <1>2, <1>3

LEMMA InitInv == Init => Inv
<1> SUFFICES ASSUME Init PROVE Inv
  OBVIOUS
<1> USE TopicsAssumption
<1>1. TypeOK
  <2>1. 0 \in 0..Messages /\ 0 \in 0..MaxFailures
    OBVIOUS
  <2>2. /\ loop \in [Topics -> Stages] /\ using \in [Topics -> Topics \cup {None}]
        /\ held \in [Topics -> Message \cup {None}] /\ called \in [Topics -> Topics \cup {None}]
        /\ subscribed \in [Topics -> Topics \cup {None}]
    BY DEF Init, Stages
  <2>3. position \in [Topics -> 0..Messages] /\ committed \in [Topics -> 0..Messages]
    BY <2>1 DEF Init
  <2> QED
    BY <2>1, <2>2, <2>3 DEF Init, TypeOK
<1>2. \A l \in Topics : LoopInv(l)
  BY DEF Init, LoopInv
<1>3. \A k \in Topics : ClientInv(k)
  BY DEF Init, ClientInv
<1>4. GroupInv
  BY DEF Init, GroupInv, Message, Offsets
<1> QED
  BY <1>1, <1>2, <1>3, <1>4 DEF Inv

LEMMA InvStep == Inv /\ [Next]_vars => Inv'
<1> SUFFICES ASSUME Inv, [Next]_vars
             PROVE  Inv'
  OBVIOUS
<1> USE TopicsAssumption
<1>0. TypeOK /\ \A l \in Topics : LoopInv(l)
  BY DEF Inv
<1>a. ASSUME NEW l \in Topics, Resolve(l)
      PROVE  Inv'
  <2>1. /\ loop[l] = "none" /\ Goto(l, "resolved") /\ handler' = l
        /\ UNCHANGED <<consumer, topic, using, calls, clients, stopping, group, failures>>
    BY <1>a DEF Resolve
  <2>2. (\A d \in Topics : LoopInv(d)') /\ Keeps
    BY <2>1, EmptyHanded DEF Stages, group
  <2>3. TypeOK'
    BY <1>0, <2>1, GotoValue DEF TypeOK, Stages, calls, clients, group
  <2> QED
    BY <2>1, <2>2, <2>3, SameClients DEF Inv, clients, group
<1>1. ASSUME NEW l \in Topics, Build(l)
      PROVE  Inv'
  <2>1. /\ loop[l] = "resolved" /\ Goto(l, "assigning") /\ consumer' = l
        /\ UNCHANGED <<handler, topic, using, calls, clients, stopping, group, failures>>
    BY <1>1 DEF Build
  <2>2. (\A d \in Topics : LoopInv(d)') /\ Keeps
    BY <2>1, EmptyHanded DEF Stages, group
  <2>3. TypeOK'
    BY <1>0, <2>1, GotoValue DEF TypeOK, Stages, calls, clients, group
  <2> QED
    BY <2>1, <2>2, <2>3, SameClients DEF Inv, clients, group
<1>2. ASSUME NEW l \in Topics, SetTopic(l)
      PROVE  Inv'
  <2>1. /\ loop[l] = "assigning" /\ Goto(l, "queued") /\ topic' = l
        /\ UNCHANGED <<handler, consumer, using, calls, clients, stopping, group, failures>>
    BY <1>2 DEF SetTopic
  <2>2. consumer' \in Topics
    BY <1>0, <2>1 DEF LoopInv
  <2>3. (\A d \in Topics : LoopInv(d)') /\ Keeps
    BY <2>1, <2>2, EmptyHanded DEF Stages, group
  <2>4. TypeOK'
    BY <1>0, <2>1, GotoValue DEF TypeOK, Stages, calls, clients, group
  <2> QED
    BY <2>1, <2>3, <2>4, SameClients DEF Inv, clients, group
<1>3. ASSUME NEW l \in Topics, NeverStarts(l) \/ ConsumeEnds(l)
      PROVE  Inv'
  <2>1. /\ loop[l] \in {"queued", "waiting"} /\ Goto(l, "ended")
        /\ UNCHANGED <<fields, using, calls, clients, stopping, group, failures>>
    BY <1>3 DEF NeverStarts, ConsumeEnds
  <2>2. consumer' \in Topics /\ topic' \in Topics
    BY <1>0, <2>1 DEF LoopInv, fields
  <2>3. (\A d \in Topics : LoopInv(d)') /\ Keeps
    BY <2>1, <2>2, EmptyHanded DEF Stages, group
  <2>4. TypeOK'
    BY <1>0, <2>1, GotoValue DEF TypeOK, Stages, calls, fields, clients, group
  <2> QED
    BY <2>1, <2>3, <2>4, SameClients DEF Inv, clients, group
<1>4. ASSUME NEW l \in Topics, Subscribe(l)
      PROVE  Inv'
  <2>1. /\ loop[l] = "queued"
        /\ UNCHANGED <<fields, using, calls, closed, stopping, group, failures>>
    BY <1>4 DEF Subscribe
  <2>2. /\ consumer \in Topics /\ topic \in Topics
        /\ consumer' = consumer /\ topic' = topic
    BY <1>0, <2>1 DEF LoopInv, fields
  <2>3. CASE Goto(l, "ended") /\ UNCHANGED <<subscribed, position>>
    <3>1. (\A d \in Topics : LoopInv(d)') /\ Keeps
      BY <2>1, <2>2, <2>3, EmptyHanded DEF Stages, group
    <3>2. TypeOK'
      BY <1>0, <2>1, <2>3, GotoValue DEF TypeOK, Stages, calls, fields, group
    <3> QED
      BY <2>1, <2>3, <3>1, <3>2, SameClients DEF Inv, group
  <2>4. CASE /\ subscribed' = [subscribed EXCEPT ![consumer] = topic]
             /\ position' = [position EXCEPT ![consumer] = committed[topic]]
             /\ Goto(l, "turning")
    <3>1. (\A d \in Topics : LoopInv(d)') /\ Keeps
      BY <2>1, <2>2, <2>4, EmptyHanded DEF Stages, group
    <3>2. /\ subscribed' \in [Topics -> Topics \cup {None}] /\ position' \in [Topics -> 0..Messages]
      BY <1>0, <2>2, <2>4 DEF TypeOK
    <3>3. TypeOK'
      BY <1>0, <2>1, <2>4, <3>2, GotoValue DEF TypeOK, Stages, calls, fields, group
    <3>4. GroupInv'
      BY <2>1, <3>1 DEF Inv, Keeps, GroupInv, group
    <3>5. ASSUME NEW k \in Topics PROVE ClientInv(k)'
      <4>1. CASE k = consumer
        <5>1. subscribed'[k] = topic /\ position'[k] = committed[topic] /\ committed' = committed
          BY <1>0, <2>1, <2>2, <2>4, <4>1 DEF TypeOK, group
        <5> QED
          BY <3>4, <5>1 DEF ClientInv, GroupInv
      <4>2. CASE k # consumer
        <5>1. subscribed'[k] = subscribed[k] /\ position'[k] = position[k] /\ ClientInv(k)
          BY <1>0, <2>2, <2>4, <4>2 DEF TypeOK, Inv
        <5> QED
          BY <3>1, <5>1 DEF ClientInv, Keeps
      <4> QED
        BY <4>1, <4>2
    <3> QED
      BY <3>1, <3>3, <3>4, <3>5 DEF Inv
  <2> QED
    BY <1>4, <2>3, <2>4 DEF Subscribe
<1>5. ASSUME NEW l \in Topics, Turn(l)
      PROVE  Inv'
  <2>1. /\ loop[l] = "turning"
        /\ UNCHANGED <<fields, calls, clients, stopping, group, failures>>
    BY <1>5 DEF Turn
  <2>2. consumer' \in Topics /\ topic' \in Topics /\ consumer' = consumer
    BY <1>0, <2>1 DEF LoopInv, fields
  <2>3. PICK stage \in {"ended", "waiting"} :
           /\ Goto(l, stage)
           /\ stage = "ended" => using' = using
           /\ stage = "waiting" => using' = [using EXCEPT ![l] = consumer]
    BY <1>5 DEF Turn
  <2>4. /\ using' \in [Topics -> Topics \cup {None}]
        /\ stage = "waiting" => using'[l] \in Topics
        /\ \A d \in Topics \ {l} : using'[d] = using[d]
    BY <1>0, <2>2, <2>3 DEF TypeOK
  <2>5. (\A d \in Topics : LoopInv(d)') /\ Keeps
    BY <2>1, <2>2, <2>3, <2>4, EmptyHanded DEF Stages, group
  <2>6. TypeOK'
    BY <1>0, <2>1, <2>3, <2>4, GotoValue DEF TypeOK, Stages, calls, fields, clients, group
  <2> QED
    BY <2>1, <2>5, <2>6, SameClients DEF Inv, clients, group
<1>6. ASSUME NEW l \in Topics, Receive(l)
      PROVE  Inv'
  <2>0. /\ using[l] \in Topics /\ held[l] = None /\ HasNext(using[l])
        /\ Upcoming(using[l]) \in Message
    BY <1>0, <1>6 DEF Receive, LoopInv, HasNext, Upcoming, TypeOK, Message, Offsets
  <2>a. PICK k \in Topics, m \in Message : k = using[l] /\ m = Upcoming(k)
    BY <2>0
  <2>1. /\ loop[l] = "waiting" /\ Goto(l, "handling")
        /\ HasNext(k)
        /\ position' = [position EXCEPT ![k] = position[k] + 1]
        /\ held' = [held EXCEPT ![l] = m] /\ called' = [called EXCEPT ![l] = handler]
        /\ UNCHANGED <<fields, using, subscribed, closed, stopping, group, failures>>
    BY <1>6, <2>a DEF Receive
  <2>2. k \in Topics /\ held[l] = None
    BY <2>0
  <2>3. /\ m \in Message /\ m.topic = subscribed[k] /\ m.offset = position[k] + 1
        /\ position[k] + 1 \in 0..Messages
    BY <1>0, <2>1, <2>2, <2>a DEF HasNext, Upcoming, TypeOK
  <2>4. /\ held'[l] = m /\ \A d \in Topics \ {l} : held'[d] = held[d]
        /\ held' \in [Topics -> Message \cup {None}] /\ called' \in [Topics -> Topics \cup {None}]
        /\ position'[k] = position[k] + 1 /\ \A d \in Topics \ {k} : position'[d] = position[d]
        /\ position' \in [Topics -> 0..Messages]
    BY <1>0, <2>1, <2>2, <2>3 DEF TypeOK
  <2>5. /\ loop'[l] = "handling" /\ \A d \in Topics \ {l} : loop'[d] = loop[d]
        /\ loop' \in [Topics -> Stages]
    BY <1>0, <2>1, GotoValue DEF Stages
  <2>6. Keeps /\ Covered(m)'
    <3>1. \A n \in Message, d \in Topics : held[d] = n => held'[d] = n
      BY <2>2, <2>4 DEF Message
    <3>2. settled' = settled
      BY <2>1 DEF group
    <3> QED
      BY <2>4, <3>1, <3>2 DEF Keeps, Covered
  <2>7. TypeOK'
    BY <1>0, <2>1, <2>4, <2>5 DEF TypeOK, fields, group
  <2>8. ASSUME NEW d \in Topics PROVE LoopInv(d)'
    BY <1>0, <2>1, <2>3, <2>4, <2>5 DEF LoopInv, fields
  <2>9. ASSUME NEW j \in Topics PROVE ClientInv(j)'
    <3>1. ClientInv(j)
      BY DEF Inv
    <3>2. CASE j # k
      BY <2>1, <2>4, <2>6, <3>1, <3>2 DEF ClientInv, Keeps
    <3>3. CASE j = k
      <4> SUFFICES ASSUME subscribed'[k] # None, NEW n \in Message, n.topic = subscribed'[k],
                          n.offset <= position'[k]
                   PROVE  Covered(n)'
        BY <3>3 DEF ClientInv
      <4>1. n.offset \in Nat /\ position[k] \in Nat
        BY <1>0, <2>2 DEF TypeOK, Message, Offsets
      <4>2. CASE n.offset <= position[k]
        BY <2>1, <2>6, <3>1, <3>3, <4>2 DEF ClientInv, Keeps
      <4>3. CASE n.offset = position[k] + 1
        <5>1. n = m
          BY <2>1, <2>3, <4>3 DEF Message
        <5> QED
          BY <2>6, <5>1
      <4> QED
        BY <2>4, <4>1, <4>2, <4>3
    <3> QED
      BY <3>2, <3>3
  <2>10. GroupInv'
    BY <2>1, <2>6 DEF Inv, GroupInv, Keeps, group
  <2> QED
    BY <2>7, <2>8, <2>9, <2>10 DEF Inv
<1>7. ASSUME NEW l \in Topics, SkipMalformed(l)
      PROVE  Inv'
  <2>0. using[l] \in Topics /\ HasNext(using[l]) /\ Upcoming(using[l]) \in Message
    BY <1>0, <1>7 DEF SkipMalformed, LoopInv, HasNext, Upcoming, TypeOK, Message, Offsets
  <2>a. PICK k \in Topics, m \in Message : k = using[l] /\ m = Upcoming(k)
    BY <2>0
  <2>1. /\ loop[l] = "waiting" /\ Goto(l, "turning")
        /\ HasNext(k)
        /\ position' = [position EXCEPT ![k] = position[k] + 1]
        /\ settled' = settled \cup {m}
        /\ UNCHANGED <<fields, using, calls, subscribed, closed, stopping, committed, failures>>
    BY <1>7, <2>a DEF SkipMalformed
  <2>2. k \in Topics /\ consumer' \in Topics /\ topic' \in Topics
    BY <1>0, <2>1 DEF LoopInv, fields
  <2>3. /\ m \in Message /\ m.topic = subscribed[k] /\ m.offset = position[k] + 1
        /\ position[k] + 1 \in 0..Messages
    BY <1>0, <2>1, <2>2, <2>a DEF HasNext, Upcoming, TypeOK
  <2>4. /\ position'[k] = position[k] + 1 /\ \A d \in Topics \ {k} : position'[d] = position[d]
        /\ position' \in [Topics -> 0..Messages]
    BY <1>0, <2>1, <2>2, <2>3 DEF TypeOK
  <2>5. (\A d \in Topics : LoopInv(d)') /\ Keeps
    BY <2>1, <2>2, EmptyHanded DEF Stages
  <2>6. Covered(m)'
    BY <2>1 DEF Covered
  <2>7. TypeOK'
    BY <1>0, <2>1, <2>3, <2>4, GotoValue DEF TypeOK, Stages, calls, fields
  <2>9. ASSUME NEW j \in Topics PROVE ClientInv(j)'
    <3>1. ClientInv(j)
      BY DEF Inv
    <3>2. CASE j # k
      BY <2>1, <2>4, <2>5, <3>1, <3>2 DEF ClientInv, Keeps
    <3>3. CASE j = k
      <4> SUFFICES ASSUME subscribed'[k] # None, NEW n \in Message, n.topic = subscribed'[k],
                          n.offset <= position'[k]
                   PROVE  Covered(n)'
        BY <3>3 DEF ClientInv
      <4>1. n.offset \in Nat /\ position[k] \in Nat
        BY <1>0, <2>2 DEF TypeOK, Message, Offsets
      <4>2. CASE n.offset <= position[k]
        BY <2>1, <2>5, <3>1, <3>3, <4>2 DEF ClientInv, Keeps
      <4>3. CASE n.offset = position[k] + 1
        <5>1. n = m
          BY <2>1, <2>3, <4>3 DEF Message
        <5> QED
          BY <2>6, <5>1
      <4> QED
        BY <2>4, <4>1, <4>2, <4>3
    <3> QED
      BY <3>2, <3>3
  <2>10. GroupInv'
    BY <2>1, <2>5 DEF Inv, GroupInv, Keeps
  <2> QED
    BY <2>5, <2>7, <2>9, <2>10 DEF Inv
<1>8. ASSUME NEW l \in Topics, ConsumeFails(l)
      PROVE  Inv'
  <2>1. /\ loop[l] = "waiting" /\ Goto(l, "ended") /\ failures' \in 0..MaxFailures
        /\ UNCHANGED <<fields, using, calls, clients, stopping, group>>
    BY <1>0, <1>8 DEF ConsumeFails, TypeOK
  <2>2. consumer' \in Topics /\ topic' \in Topics
    BY <1>0, <2>1 DEF LoopInv, fields
  <2>3. (\A d \in Topics : LoopInv(d)') /\ Keeps
    BY <2>1, <2>2, EmptyHanded DEF Stages, group
  <2>4. TypeOK'
    BY <1>0, <2>1, GotoValue DEF TypeOK, Stages, calls, fields, clients, group
  <2> QED
    BY <2>1, <2>3, <2>4, SameClients DEF Inv, clients, group
<1>9. ASSUME NEW l \in Topics, NEW stage \in {"turning", "ended"}, Settle(l, stage),
             failures' \in 0..MaxFailures
      PROVE  Inv'
  <2>1. /\ loop[l] = "handling" /\ Goto(l, stage)
        /\ settled' = settled \cup {held[l]} /\ held' = [held EXCEPT ![l] = None]
        /\ called' = [called EXCEPT ![l] = None]
        /\ UNCHANGED <<fields, using, clients, stopping, committed>>
    BY <1>9 DEF Settle
  <2>2. held[l] \in Message
    BY <1>0, <2>1 DEF LoopInv
  <2>3. /\ held'[l] = None /\ \A d \in Topics \ {l} : held'[d] = held[d]
        /\ held' \in [Topics -> Message \cup {None}] /\ called' \in [Topics -> Topics \cup {None}]
    BY <1>0, <2>1 DEF TypeOK
  <2>4. /\ loop'[l] = stage /\ \A d \in Topics \ {l} : loop'[d] = loop[d]
        /\ loop' \in [Topics -> Stages]
    BY <1>0, <2>1, GotoValue DEF Stages
  <2>5. Keeps
    BY <2>1, <2>3 DEF Keeps, Covered
  <2>6. TypeOK'
    BY <1>0, <1>9, <2>1, <2>2, <2>3, <2>4 DEF TypeOK, fields, clients
  <2>7. ASSUME NEW d \in Topics PROVE LoopInv(d)'
    <3>1. LoopInv(d) /\ LoopInv(l) /\ consumer' = consumer /\ topic' = topic /\ using' = using
      BY <1>0, <2>1 DEF fields
    <3> QED
      BY <2>1, <2>3, <2>4, <3>1 DEF LoopInv
  <2> QED
    BY <2>1, <2>5, <2>6, <2>7, SameClients DEF Inv, clients
<1>10. ASSUME NEW l \in Topics, Handle(l) \/ HandlerThrows(l) \/ HandlerDisposed(l)
       PROVE  Inv'
  BY <1>0, <1>9, <1>10 DEF Handle, HandlerThrows, HandlerDisposed, TypeOK
<1>11. ASSUME Stop
       PROVE  Inv'
  <2>1. stopping' = TRUE /\ UNCHANGED <<fields, loop, using, calls, clients, group, failures>>
    BY <1>11 DEF Stop
  <2>2. TypeOK' /\ \A l \in Topics : LoopInv(l)'
    BY <1>0, <2>1 DEF TypeOK, LoopInv, fields, calls, clients, group
  <2>3. Keeps
    BY <2>1 DEF Keeps, Covered, calls, group
  <2> QED
    BY <2>1, <2>2, <2>3, SameClients DEF Inv, clients, group
<1>12. ASSUME NEW k \in Topics, subscribed[k] # None, Committed(k), closed' \subseteq Topics,
              UNCHANGED <<fields, loop, using, calls, subscribed, position, stopping, settled, failures>>
       PROVE  Inv'
  <2>1. subscribed[k] \in Topics /\ position[k] \in 0..Messages
    BY <1>0, <1>12 DEF TypeOK
  <2>2. /\ committed'[subscribed[k]] = position[k]
        /\ \A t \in Topics \ {subscribed[k]} : committed'[t] = committed[t]
        /\ committed' \in [Topics -> 0..Messages]
    BY <1>0, <1>12, <2>1 DEF Committed, TypeOK
  <2>3. TypeOK' /\ \A l \in Topics : LoopInv(l)'
    BY <1>0, <1>12, <2>2 DEF TypeOK, LoopInv, fields, calls
  <2>4. \A m \in Message : Covered(m)' = Covered(m)
    BY <1>12 DEF Covered, calls
  <2>5. ASSUME NEW m \in Message, m.offset <= committed'[m.topic]
        PROVE  Covered(m)'
    <3>1. m.topic \in Topics
      BY DEF Message
    <3>2. CASE m.topic = subscribed[k]
      BY <1>12, <2>2, <2>4, <2>5, <3>2 DEF Inv, ClientInv
    <3>3. CASE m.topic # subscribed[k]
      BY <2>2, <2>4, <2>5, <3>1, <3>3 DEF Inv, GroupInv
    <3> QED
      BY <3>2, <3>3
  <2>6. GroupInv'
    BY <2>5 DEF GroupInv
  <2>7. \A j \in Topics : ClientInv(j)'
    BY <1>12, <2>4 DEF Inv, ClientInv
  <2> QED
    BY <2>3, <2>6, <2>7 DEF Inv
<1>13. ASSUME NEW k \in Topics, AutoCommit(k)
       PROVE  Inv'
  BY <1>0, <1>12, <1>13 DEF AutoCommit, clients, TypeOK
<1>14. ASSUME Close
       PROVE  Inv'
  <2>1. /\ consumer \in Topics /\ closed' \subseteq Topics
        /\ UNCHANGED <<fields, loop, using, calls, subscribed, position, stopping, settled, failures>>
    BY <1>0, <1>14 DEF Close, TypeOK
  <2>2. CASE subscribed[consumer] # None
    BY <1>12, <1>14, <2>1, <2>2 DEF Close
  <2>3. CASE subscribed[consumer] = None
    <3>1. committed' = committed
      BY <1>14, <2>3 DEF Close
    <3>2. TypeOK' /\ (\A l \in Topics : LoopInv(l)') /\ Keeps
      BY <1>0, <2>1, <3>1 DEF TypeOK, LoopInv, fields, calls, Keeps, Covered
    <3> QED
      BY <2>1, <3>1, <3>2, SameClients DEF Inv
  <2> QED
    BY <2>2, <2>3
<1>15. ASSUME Crash
       PROVE  Inv'
  <2>1. /\ settled' = settled \cup {m \in Message : \E l \in Topics : held[l] = m}
        /\ failures' \in 0..MaxFailures /\ committed' = committed /\ Started
    BY <1>0, <1>15 DEF Crash, TypeOK
  <2>2. TypeOK'
    <3>1. /\ loop' \in [Topics -> Stages] /\ using' \in [Topics -> Topics \cup {None}]
          /\ held' \in [Topics -> Message \cup {None}] /\ called' \in [Topics -> Topics \cup {None}]
          /\ subscribed' \in [Topics -> Topics \cup {None}]
      BY <2>1 DEF Started, Stages
    <3>2. position' \in [Topics -> 0..Messages]
      BY <2>1 DEF Started
    <3> QED
      BY <1>0, <2>1, <3>1, <3>2 DEF TypeOK, Started
  <2>3. \A l \in Topics : LoopInv(l)' /\ ClientInv(l)'
    BY <2>1 DEF Started, LoopInv, ClientInv
  <2>4. Keeps
    BY <2>1 DEF Keeps, Covered
  <2>5. GroupInv'
    BY <2>1, <2>4 DEF Inv, GroupInv, Keeps
  <2> QED
    BY <2>2, <2>3, <2>5 DEF Inv
<1>16. CASE UNCHANGED vars
  <2>1. TypeOK' /\ (\A l \in Topics : LoopInv(l)') /\ Keeps
    BY <1>0, <1>16 DEF vars, fields, calls, clients, group, TypeOK, LoopInv, Keeps, Covered
  <2> QED
    BY <1>16, <2>1, SameClients DEF vars, clients, group, Inv
<1> QED
  BY <1>a, <1>1, <1>2, <1>3, <1>4, <1>5, <1>6, <1>7, <1>8, <1>10, <1>11, <1>13, <1>14, <1>15, <1>16
     DEF Next, LoopStep

LEMMA Invariance == Spec => []Inv
BY InitInv, InvStep, PTL DEF Spec

\* The fields, the loops, the clients and the group's offsets keep their types.
THEOREM TypeCorrect == Spec => []TypeOK
<1>1. Inv => TypeOK
  BY DEF Inv
<1> QED
  BY <1>1, Invariance, PTL

\* The group commits past no message that was not handled, failed, or being
\* handled, however loops, clients, commits and crashes interleave.
THEOREM NoneSkipped == Spec => []SkippedOnlyByFailure
<1>1. Inv => SkippedOnlyByFailure
  BY DEF Inv, GroupInv, Covered, SkippedOnlyByFailure
<1> QED
  BY <1>1, Invariance, PTL
=============================================================================
