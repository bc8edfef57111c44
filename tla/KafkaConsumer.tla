---------------------------- MODULE KafkaConsumer ----------------------------
(***************************************************************************)
(* KafkaConsumer.cs, the consumer a process shares: Consume builds a       *)
(* client and starts a loop that takes a message, awaits the handler and   *)
(* takes the next one. The handler, the client and the topic are fields of *)
(* the one object the container makes, so a second Consume overwrites what *)
(* the first one's loop reads on its next turn.                            *)
(*                                                                         *)
(* Kafka and its client are outside the repository: a topic is a log of    *)
(* one partition, the client stores the offset of a message when it hands  *)
(* the message out and commits what it stored some time later.             *)
(***************************************************************************)
EXTENDS Naturals

CONSTANTS
    Topics,       \* each consumed by a call of Consume of its own
    Messages,     \* bound: messages in each topic
    Malformed,    \* the messages the deserializer throws on
    MaxFailures,  \* bound: handlers that throw, fatal errors, crashes
    None          \* no client, no topic, no message

Offsets == 1..Messages

ASSUME TopicsAssumption ==
    /\ Messages \in Nat /\ MaxFailures \in Nat
    /\ Malformed \subseteq [topic : Topics, offset : Offsets]
    /\ None \notin Topics
    /\ None \notin [topic : Topics, offset : Offsets]

\* A call of Consume, its loop, its handler and the client it builds are named by
\* its topic.
VARIABLES
    handler,     \* the field _handler, by the call whose scope made it
    consumer,    \* the field _consumer
    topic,       \* the field _topic
    loop,        \* where each call is
    using,       \* the client a loop called Consume on
    held,        \* the message a loop has given to a handler
    called,      \* the handler it has given it to
    subscribed,  \* the topic each client is subscribed to
    position,    \* the last offset each client handed out
    closed,      \* the clients that were closed
    stopping,    \* the stopping token is cancelled
    committed,   \* the offset of the group in each topic
    settled,     \* history: the messages that are done with, for better or worse
    failures     \* the failures so far

fields == <<handler, consumer, topic>>
calls == <<held, called>>
clients == <<subscribed, position, closed>>
group == <<committed, settled>>
vars == <<fields, loop, using, calls, clients, stopping, group, failures>>

Stages == {"none", "resolved", "assigning", "queued", "turning", "waiting", "handling", "ended"}
Message == [topic : Topics, offset : Offsets]

TypeOK ==
    /\ \A field \in {handler, consumer, topic} : field \in Topics \cup {None}
    /\ loop \in [Topics -> Stages]
    /\ using \in [Topics -> Topics \cup {None}]
    /\ held \in [Topics -> Message \cup {None}]
    /\ called \in [Topics -> Topics \cup {None}]
    /\ subscribed \in [Topics -> Topics \cup {None}]
    /\ position \in [Topics -> 0..Messages]
    /\ closed \subseteq Topics
    /\ stopping \in BOOLEAN
    /\ committed \in [Topics -> 0..Messages]
    /\ settled \subseteq Message
    /\ failures \in 0..MaxFailures

\* A process that starts, whatever the group has committed.
Started ==
    /\ handler' = None /\ consumer' = None /\ topic' = None
    /\ loop' = [t \in Topics |-> "none"]
    /\ using' = [t \in Topics |-> None]
    /\ held' = [t \in Topics |-> None]
    /\ called' = [t \in Topics |-> None]
    /\ subscribed' = [t \in Topics |-> None]
    /\ position' = [t \in Topics |-> 0]
    /\ closed' = {}
    /\ stopping' = FALSE

Init ==
    /\ handler = None /\ consumer = None /\ topic = None
    /\ loop = [t \in Topics |-> "none"]
    /\ using = [t \in Topics |-> None]
    /\ held = [t \in Topics |-> None]
    /\ called = [t \in Topics |-> None]
    /\ subscribed = [t \in Topics |-> None]
    /\ position = [t \in Topics |-> 0]
    /\ closed = {}
    /\ stopping = FALSE
    /\ committed = [t \in Topics |-> 0]
    /\ settled = {}
    /\ failures = 0

------------------------------------------------------------------------------
(* Consume *)

Goto(l, stage) == loop' = [loop EXCEPT ![l] = stage]

\* The handler is made by the scope of the call, the client by the call itself;
\* both are put in their fields, then the topic.
Resolve(l) ==
    /\ loop[l] = "none"
    /\ handler' = l
    /\ Goto(l, "resolved")
    /\ UNCHANGED <<consumer, topic, using, calls, clients, stopping, group, failures>>

Build(l) ==
    /\ loop[l] = "resolved"
    /\ consumer' = l
    /\ Goto(l, "assigning")
    /\ UNCHANGED <<handler, topic, using, calls, clients, stopping, group, failures>>

SetTopic(l) ==
    /\ loop[l] = "assigning"
    /\ topic' = l
    /\ Goto(l, "queued")
    /\ UNCHANGED <<handler, consumer, using, calls, clients, stopping, group, failures>>

\* Task.Run starts nothing when the token is cancelled already.
NeverStarts(l) ==
    /\ loop[l] = "queued"
    /\ stopping
    /\ Goto(l, "ended")
    /\ UNCHANGED <<fields, using, calls, clients, stopping, group, failures>>

\* Mutant: the client takes up one offset too late.
SubscribeBehind(l) ==
    /\ loop[l] = "queued"
    /\ subscribed' = [subscribed EXCEPT ![consumer] = topic]
    /\ position' = [position EXCEPT ![consumer] = committed[topic] + 1]
    /\ Goto(l, "turning")
    /\ UNCHANGED <<fields, using, calls, closed, stopping, group, failures>>

\* StartConsumerLoop subscribes the client it finds to the topic it finds; a
\* client takes up the offset the group committed, or the earliest. Subscribe
\* of a closed client throws.
Subscribe(l) ==
    /\ loop[l] = "queued"
    /\ IF consumer \in closed
       THEN Goto(l, "ended") /\ UNCHANGED <<subscribed, position>>
       ELSE /\ subscribed' = [subscribed EXCEPT ![consumer] = topic]
            /\ position' = [position EXCEPT ![consumer] = committed[topic]]
            /\ Goto(l, "turning")
    /\ UNCHANGED <<fields, using, calls, closed, stopping, group, failures>>

------------------------------------------------------------------------------
(* The loop *)

\* The loop's condition, and the call of Consume on the client of the field.
Turn(l) ==
    /\ loop[l] = "turning"
    /\ IF stopping
       THEN Goto(l, "ended") /\ UNCHANGED using
       ELSE Goto(l, "waiting") /\ using' = [using EXCEPT ![l] = consumer]
    /\ UNCHANGED <<fields, calls, clients, stopping, group, failures>>

\* The message the client hands out next.
Upcoming(k) == [topic |-> subscribed[k], offset |-> position[k] + 1]

HasNext(k) ==
    /\ k \notin closed
    /\ subscribed[k] # None
    /\ position[k] < Messages

\* Mutant: the token is looked at again before the handler is called.
ReceiveUnlessStopping(l) ==
    /\ loop[l] = "waiting"
    /\ HasNext(using[l])
    /\ Upcoming(using[l]) \notin Malformed
    /\ position' = [position EXCEPT ![using[l]] = @ + 1]
    /\ IF stopping
       THEN Goto(l, "ended") /\ UNCHANGED calls
       ELSE /\ Goto(l, "handling")
            /\ held' = [held EXCEPT ![l] = Upcoming(using[l])]
            /\ called' = [called EXCEPT ![l] = handler]
    /\ UNCHANGED <<fields, using, subscribed, closed, stopping, group, failures>>

\* Consume returns a message and the handler of the field is called.
Receive(l) ==
    /\ loop[l] = "waiting"
    /\ HasNext(using[l])
    /\ Upcoming(using[l]) \notin Malformed
    /\ position' = [position EXCEPT ![using[l]] = @ + 1]
    /\ held' = [held EXCEPT ![l] = Upcoming(using[l])]
    /\ called' = [called EXCEPT ![l] = handler]
    /\ Goto(l, "handling")
    /\ UNCHANGED <<fields, using, subscribed, closed, stopping, group, failures>>

\* Mutant: a message that cannot be read ends the loop.
SkipMalformedEnds(l) ==
    /\ loop[l] = "waiting"
    /\ HasNext(using[l])
    /\ Upcoming(using[l]) \in Malformed
    /\ position' = [position EXCEPT ![using[l]] = @ + 1]
    /\ settled' = settled \cup {Upcoming(using[l])}
    /\ Goto(l, "ended")
    /\ UNCHANGED <<fields, using, calls, subscribed, closed, stopping, committed, failures>>

\* A ConsumeException that is not fatal: the loop goes on behind the message.
SkipMalformed(l) ==
    /\ loop[l] = "waiting"
    /\ HasNext(using[l])
    /\ Upcoming(using[l]) \in Malformed
    /\ position' = [position EXCEPT ![using[l]] = @ + 1]
    /\ settled' = settled \cup {Upcoming(using[l])}
    /\ Goto(l, "turning")
    /\ UNCHANGED <<fields, using, calls, subscribed, closed, stopping, committed, failures>>

\* Consume throws for good: the token is cancelled or the client is closed.
ConsumeEnds(l) ==
    /\ loop[l] = "waiting"
    /\ stopping \/ using[l] \in closed
    /\ Goto(l, "ended")
    /\ UNCHANGED <<fields, using, calls, clients, stopping, group, failures>>

ConsumeFails(l) ==
    /\ loop[l] = "waiting"
    /\ failures < MaxFailures
    /\ failures' = failures + 1
    /\ Goto(l, "ended")
    /\ UNCHANGED <<fields, using, calls, clients, stopping, group>>

\* The handler is done with its message, one way or the other.
Settle(l, stage) ==
    /\ loop[l] = "handling"
    /\ settled' = settled \cup {held[l]}
    /\ held' = [held EXCEPT ![l] = None]
    /\ called' = [called EXCEPT ![l] = None]
    /\ Goto(l, stage)
    /\ UNCHANGED <<fields, using, clients, stopping, committed>>

Handle(l) ==
    /\ Settle(l, "turning")
    /\ UNCHANGED failures

\* Any exception of the handler ends the loop, a cancellation without a word.
HandlerThrows(l) ==
    /\ failures < MaxFailures
    /\ failures' = failures + 1
    /\ Settle(l, "ended")

\* A call that has ended disposes its scope and the handler it made, which may
\* throw when a loop that found it in the field calls it.
HandlerDisposed(l) ==
    /\ loop[l] = "handling"
    /\ loop[called[l]] = "ended"
    /\ Settle(l, "ended")
    /\ UNCHANGED failures

------------------------------------------------------------------------------
(* The process, the client and the group *)

Stop ==
    /\ ~stopping
    /\ stopping' = TRUE
    /\ UNCHANGED <<fields, loop, using, calls, clients, group, failures>>

\* The client commits the offset it stored, with EnableAutoCommit.
Committed(k) ==
    committed' = [committed EXCEPT ![subscribed[k]] = position[k]]

AutoCommit(k) ==
    /\ k \notin closed
    /\ subscribed[k] # None
    /\ Committed(k)
    /\ UNCHANGED <<fields, loop, using, calls, clients, stopping, settled, failures>>

\* KafkaClient.Dispose closes the client of the field, whichever that is.
Close ==
    /\ consumer # None
    /\ consumer \notin closed
    /\ closed' = closed \cup {consumer}
    /\ IF subscribed[consumer] = None THEN UNCHANGED committed ELSE Committed(consumer)
    /\ UNCHANGED <<fields, loop, using, calls, subscribed, position, stopping, settled, failures>>

\* The process dies with what its handlers have, and starts again.
Crash ==
    /\ failures < MaxFailures
    /\ failures' = failures + 1
    /\ settled' = settled \cup {m \in Message : \E l \in Topics : held[l] = m}
    /\ Started
    /\ UNCHANGED committed

LoopStep(l) ==
    \/ SetTopic(l)
    \/ NeverStarts(l)
    \/ Subscribe(l)
    \/ Turn(l)
    \/ Receive(l)
    \/ SkipMalformed(l)
    \/ ConsumeEnds(l)
    \/ Handle(l)

Next ==
    \/ \E l \in Topics :
          \/ Resolve(l)
          \/ Build(l)
          \/ LoopStep(l)
          \/ ConsumeFails(l)
          \/ HandlerThrows(l)
          \/ HandlerDisposed(l)
          \/ AutoCommit(l)
    \/ Stop
    \/ Close
    \/ Crash

\* The thread of a loop goes on running, and handlers return.
Spec == Init /\ [][Next]_vars /\ \A l \in Topics : WF_vars(LoopStep(l))

------------------------------------------------------------------------------
(* Properties *)

\* No message the group has committed past was left out for nothing: it was
\* handled, its handler threw, it could not be read, its handler has it still,
\* or had it when the process died. A cancelled loop leaves none behind.
SkippedOnlyByFailure ==
    \A m \in Message :
        m.offset <= committed[m.topic] /\ m \notin settled =>
            \E l \in Topics : held[l] = m

\* Client k takes the messages of topic t for some loop.
Serves(k, t) ==
    /\ consumer = k
    /\ subscribed[k] = t
    /\ k \notin closed
    /\ \E l \in Topics : loop[l] \in {"waiting", "handling"} /\ using[l] = k

Drained(t) == \A m \in Message : m.topic = t => m \in settled

\* A loop has called, or will call, a handler made by another call of Consume
\* than the one of client k, which has ended and disposed it.
OutlivesItsScope(k) ==
    \E h \in Topics \ {k} :
        /\ loop[h] = "ended"
        /\ handler = h \/ \E l \in Topics : called[l] = h

\* The topic the shared client is subscribed to is read to its end, malformed
\* messages or not, unless something failed, the process stops or closes the
\* client, or another Consume overwrites the fields: the client or the topic, or
\* the handler, whose scope then ends before the loop does.
ServedTopicDrains ==
    \A k, t \in Topics :
        Serves(k, t) ~>
            \/ Drained(t)
            \/ failures > 0 \/ stopping \/ k \in closed
            \/ consumer # k \/ subscribed[k] # t \/ OutlivesItsScope(k)
=============================================================================
