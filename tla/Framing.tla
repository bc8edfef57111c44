-------------------------------- MODULE Framing --------------------------------
(***************************************************************************)
(* The framers of Framers.cs over TCP sockets: a stream that may hand the  *)
(* reader any part of what was written, cut anywhere, and may break.       *)
(*                                                                         *)
(* One framer object serves all the sockets of a server.  Only the         *)
(* DelimiterFramer keeps bytes in it between calls.                        *)
(***************************************************************************)
EXTENDS Naturals, SequencesExt

CONSTANTS
    Sockets,
    Framers,          \* the framers to consider
    Messages,         \* sequences of bytes a program may write
    Base,             \* the values of a byte are 0 .. Base - 1
    HeaderLength,     \* the 4 bytes of an int
    MaxLength,        \* the 10_000_000 of LengthPrefixedFramer
    FixedLength,      \* FixedLengthFramer's _fixedLength
    Delimiter,        \* DelimiterFramer's _delimiter
    BufferSize,       \* bytes asked for by DelimiterFramer and NoFraming
    MaxSends,         \* bound: messages written on a socket
    MaxDisconnects    \* bound: connections that break

Byte == 0 .. Base - 1

\* What is left of n without its first i digits.
Shifted(n) ==
    LET rest[i \in 0..HeaderLength] == IF i = 0 THEN n ELSE rest[i - 1] \div Base
    IN  rest

\* An array's length fits an int, and the constructors refuse an empty
\* delimiter and a length of 0.
ASSUME FramingAssumption ==
    /\ Framers \subseteq {"LengthPrefixed", "Delimiter", "FixedLength", "NoFraming"}
    /\ {Base, FixedLength} \subseteq Nat \ {0}
    /\ {HeaderLength, MaxLength, BufferSize, MaxSends, MaxDisconnects} \subseteq Nat
    /\ Messages \subseteq Seq(Byte)
    /\ \A m \in Messages : Shifted(Len(m))[HeaderLength] = 0
    /\ Delimiter \in Seq(Byte) /\ Delimiter # <<>>

VARIABLES
    framer,    \* the framer in use
    sent,      \* history: messages given to WriteMessageAsync
    received,  \* history: messages ReadMessageAsync returned
    unsent,    \* the bytes of WriteMessageAsync's second SendAsync
    wire,      \* the bytes in the stream
    buffer,    \* what the reader of a socket has of the current message
    shared,    \* DelimiterFramer's _buffer
    reader,    \* what the reader of a socket is doing
    open       \* the peer has not gone

history == <<framer, sent, received>>
vars == <<history, unsent, wire, buffer, shared, reader, open>>

------------------------------------------------------------------------------

\* BitConverter.GetBytes and ToInt32: little-endian digits.
HeaderOf(n) == [i \in 1..HeaderLength |-> Shifted(n)[i - 1] % Base]
LengthIn(header) ==
    LET last[i \in 0..HeaderLength] ==
            IF i = 0 THEN 0 ELSE header[HeaderLength + 1 - i] + Base * last[i - 1]
    IN  last[HeaderLength]

\* The two parts in which a message is written.
FirstPart(m) == IF framer = "LengthPrefixed" THEN HeaderOf(Len(m)) ELSE m
SecondPart(m) ==
    CASE framer = "LengthPrefixed" -> m
      [] framer = "Delimiter" -> Delimiter
      [] OTHER -> <<>>
Frame(m) == FirstPart(m) \o SecondPart(m)
Frames(q) == FlattenSeq([i \in DOMAIN q |-> Frame(q[i])])

\* IndexOf(_buffer, _delimiter).
IsDelimiterAt(b, i) == SubSeq(b, i, i + Len(Delimiter) - 1) = Delimiter
DelimiterPlaces(b) == {i \in 1 .. Len(b) + 1 - Len(Delimiter) : IsDelimiterAt(b, i)}

\* The bytes held for the next message of s, and their replacement.
Held(s) == IF framer = "Delimiter" THEN shared ELSE buffer[s]
HoldInFramer(s, bytes) == shared' = bytes /\ UNCHANGED buffer       \* mutant
Hold(s, bytes) ==
    IF framer = "Delimiter"
    THEN shared' = bytes /\ UNCHANGED buffer
    ELSE buffer' = [buffer EXCEPT ![s] = bytes] /\ UNCHANGED shared

\* The length of the message whose header b starts with.
PrefixedLength(b) == LengthIn(SubSeq(b, 1, HeaderLength))

HasHeader(b) == Len(b) >= HeaderLength

Invalid(b) ==
    /\ framer = "LengthPrefixed"
    /\ HasHeader(b)
    /\ PrefixedLength(b) \notin 1..MaxLength

\* The bytes held make up a message.
CompleteAtHeader(b) ==                                             \* mutant
    \/ framer = "LengthPrefixed" /\ HasHeader(b) /\ Len(b) > HeaderLength
    \/ framer = "FixedLength" /\ Len(b) = FixedLength
    \/ framer = "Delimiter" /\ DelimiterPlaces(b) # {}
    \/ framer = "NoFraming" /\ b # <<>>
Complete(b) ==
    \/ framer = "LengthPrefixed" /\ HasHeader(b) /\ Len(b) = HeaderLength + PrefixedLength(b)
    \/ framer = "FixedLength" /\ Len(b) = FixedLength
    \/ framer = "Delimiter" /\ DelimiterPlaces(b) # {}
    \/ framer = "NoFraming" /\ b # <<>>

\* How many bytes the reader asks the socket for.
WantedGreedy(b) ==                                                 \* mutant
    IF framer = "FixedLength" THEN FixedLength - Len(b) ELSE BufferSize
Wanted(b) ==
    CASE framer = "FixedLength" -> FixedLength - Len(b)
      [] framer = "LengthPrefixed" /\ ~HasHeader(b) -> HeaderLength - Len(b)
      [] framer = "LengthPrefixed" /\ HasHeader(b) ->
            HeaderLength + PrefixedLength(b) - Len(b)
      [] OTHER -> BufferSize

\* The message in a complete b, and what stays behind it.
Message(b) ==
    CASE framer = "LengthPrefixed" -> SubSeq(b, HeaderLength + 1, Len(b))
      [] framer = "Delimiter" -> SubSeq(b, 1, Min(DelimiterPlaces(b)) - 1)
      [] OTHER -> b
RestDropped(b) == <<>>                                             \* mutant
Rest(b) ==
    IF framer = "Delimiter"
    THEN SubSeq(b, Min(DelimiterPlaces(b)) + Len(Delimiter), Len(b))
    ELSE <<>>

------------------------------------------------------------------------------

Init ==
    /\ framer \in Framers
    /\ sent = [s \in Sockets |-> <<>>]
    /\ received = [s \in Sockets |-> <<>>]
    /\ unsent = [s \in Sockets |-> <<>>]
    /\ wire = [s \in Sockets |-> <<>>]
    /\ buffer = [s \in Sockets |-> <<>>]
    /\ shared = <<>>
    /\ reader = [s \in Sockets |-> "checking"]
    /\ open = [s \in Sockets |-> TRUE]

\* The connection can still carry messages.
Up(s) == open[s] /\ reader[s] # "failed"

\* WriteMessageAsync up to its first SendAsync.  FixedLengthFramer throws for a
\* message of another length.
Write(s, m) ==
    /\ Up(s)
    /\ unsent[s] = <<>>
    /\ Len(sent[s]) < MaxSends
    /\ framer = "FixedLength" => Len(m) = FixedLength
    /\ sent' = [sent EXCEPT ![s] = Append(@, m)]
    /\ wire' = [wire EXCEPT ![s] = @ \o FirstPart(m)]
    /\ unsent' = [unsent EXCEPT ![s] = SecondPart(m)]
    /\ UNCHANGED <<framer, received, buffer, shared, reader, open>>

\* The second SendAsync.
WriteRest(s) ==
    /\ unsent[s] # <<>>
    /\ wire' = [wire EXCEPT ![s] = @ \o unsent[s]]
    /\ unsent' = [unsent EXCEPT ![s] = <<>>]
    /\ UNCHANGED <<history, buffer, shared, reader, open>>

\* The reader looks at what it holds: it returns a message and is called again,
\* throws, or goes on to the socket.
Return(s) ==
    /\ reader[s] = "checking"
    /\ ~Invalid(Held(s))
    /\ Complete(Held(s))
    /\ received' = [received EXCEPT ![s] = Append(@, Message(Held(s)))]
    /\ Hold(s, Rest(Held(s)))
    /\ UNCHANGED <<framer, sent, unsent, wire, reader, open>>

Throw(s) ==
    /\ reader[s] = "checking"
    /\ Invalid(Held(s))
    /\ reader' = [reader EXCEPT ![s] = "failed"]
    /\ UNCHANGED <<history, unsent, wire, buffer, shared, open>>

Ask(s) ==
    /\ reader[s] = "checking"
    /\ ~Invalid(Held(s))
    /\ ~Complete(Held(s))
    /\ reader' = [reader EXCEPT ![s] = "receiving"]
    /\ UNCHANGED <<history, unsent, wire, buffer, shared, open>>

\* ReceiveAsync returns some of the bytes that have arrived.
Receive(s) ==
    /\ reader[s] = "receiving"
    /\ \E n \in 1 .. Min({Len(wire[s]), Wanted(Held(s))}) :
          /\ Hold(s, Held(s) \o SubSeq(wire[s], 1, n))
          /\ wire' = [wire EXCEPT ![s] = SubSeq(@, n + 1, Len(@))]
    /\ reader' = [reader EXCEPT ![s] = "checking"]
    /\ UNCHANGED <<history, unsent, open>>

\* The peer goes, with the bytes that are on their way.
Disconnect(s) ==
    /\ Up(s)
    /\ Cardinality({t \in Sockets : ~open[t]}) < MaxDisconnects
    /\ open' = [open EXCEPT ![s] = FALSE]
    /\ wire' = [wire EXCEPT ![s] = <<>>]
    /\ unsent' = [unsent EXCEPT ![s] = <<>>]
    /\ UNCHANGED <<history, buffer, shared, reader>>

\* ReceiveAsync returns 0: the reader throws.  Its locals are gone; the
\* DelimiterFramer keeps its _buffer.
ReceiveNothing(s) ==
    /\ reader[s] = "receiving"
    /\ ~open[s]
    /\ wire[s] = <<>>
    /\ reader' = [reader EXCEPT ![s] = "failed"]
    /\ buffer' = [buffer EXCEPT ![s] = <<>>]
    /\ UNCHANGED <<history, unsent, wire, shared, open>>

Read(s) == Return(s) \/ Throw(s) \/ Ask(s) \/ Receive(s) \/ ReceiveNothing(s)

Next ==
    \E s \in Sockets :
        \/ \E m \in Messages : Write(s, m)
        \/ WriteRest(s)
        \/ Read(s)
        \/ Disconnect(s)

\* A write that was begun goes on, and the loop of the handler keeps reading.
Fairness ==
    \A s \in Sockets : WF_vars(WriteRest(s)) /\ WF_vars(Read(s))

Spec == Init /\ [][Next]_vars

FairSpec == Spec /\ Fairness

------------------------------------------------------------------------------

\* The streams hold bytes, and only a DelimiterFramer keeps any in the framer.
TypeOK ==
    /\ framer \in Framers
    /\ sent \in [Sockets -> Seq(Messages)]
    /\ received \in [Sockets -> Seq(Seq(Byte))]
    /\ {unsent, wire, buffer} \subseteq [Sockets -> Seq(Byte)]
    /\ shared \in Seq(Byte)
    /\ shared # <<>> => framer = "Delimiter"
    /\ reader \in [Sockets -> {"checking", "receiving", "failed"}]
    /\ open \in [Sockets -> BOOLEAN]

\* The framer serves one socket.  It is not enough that the others carry
\* nothing: a reader of theirs returns what a DelimiterFramer holds of s.
Alone(s) == Sockets = {s}

\* No byte of a connection is lost, repeated or moved: what was returned, what
\* the reader holds and what is on its way are, in this order, the frames that
\* were written, however the stream was cut (for a DelimiterFramer, as long as
\* it serves one socket).
StreamConserved ==
    \A s \in Sockets :
        Up(s) /\ (framer = "Delimiter" => Alone(s)) =>
            Frames(sent[s]) = Frames(received[s]) \o Held(s) \o wire[s] \o unsent[s]

\* A message in which the delimiter is first found behind its last byte.
Delimitable(m) == DelimiterPlaces(m \o Delimiter) = {Len(m) + 1}

\* The framer can tell the messages apart.
KeepsMessages ==
    \/ framer \in {"LengthPrefixed", "FixedLength"}
    \/ /\ framer = "Delimiter"
       /\ \A s \in Sockets : Alone(s) /\ \A m \in Range(sent[s]) : Delimitable(m)

\* The framers implement the channel: each read returns the next message that
\* was written, whole, wherever the stream was cut or broke.  NoFraming does
\* not, and a DelimiterFramer does when it serves one socket and no message
\* contains the delimiter or runs into it.
Channel == INSTANCE MessageChannel WITH up <- [s \in Sockets |-> Up(s)]
ImplementsChannel ==
    Channel!Init /\ [][KeepsMessages => [Channel!Next]_(Channel!vars)]_vars

\* A message that is written is read in the end, unless the connection breaks.
DeliveredUnlessBroken ==
    \A s \in Sockets, k \in 1..MaxSends :
        framer # "NoFraming" /\ Len(sent[s]) >= k ~> Len(received[s]) >= k \/ ~Up(s)

\* "Reads a complete message from the socket": what is read from a socket was
\* written on that socket.
OwnMessagesOnly ==
    \A s \in Sockets : Range(received[s]) \subseteq Range(sent[s])

=============================================================================
