---------------------------- MODULE MessageChannel ----------------------------
(***************************************************************************)
(* What IProtocolFramer promises for a connection ("reads a complete       *)
(* message", "writes a complete framed message"): one end's writes are the *)
(* other end's reads, message by message and in order, until the           *)
(* connection breaks.                                                      *)
(***************************************************************************)
EXTENDS Naturals, Sequences

CONSTANTS Sockets, Messages

VARIABLES
    sent,      \* the messages written on each connection
    received,  \* the messages read from it
    up         \* the connection still carries messages

vars == <<sent, received, up>>

Init ==
    /\ sent = [s \in Sockets |-> <<>>]
    /\ received = [s \in Sockets |-> <<>>]
    /\ up = [s \in Sockets |-> TRUE]

Send(s, m) ==
    /\ up[s]
    /\ sent' = [sent EXCEPT ![s] = Append(@, m)]
    /\ UNCHANGED <<received, up>>

\* A message can still be read after the connection broke.
Deliver(s) ==
    /\ Len(received[s]) < Len(sent[s])
    /\ received' = [received EXCEPT ![s] = Append(@, sent[s][Len(@) + 1])]
    /\ UNCHANGED <<sent, up>>

Break(s) ==
    /\ up[s]
    /\ up' = [up EXCEPT ![s] = FALSE]
    /\ UNCHANGED <<sent, received>>

Next ==
    \E s \in Sockets :
        (\E m \in Messages : Send(s, m)) \/ Deliver(s) \/ Break(s)

Spec == Init /\ [][Next]_vars

=============================================================================
