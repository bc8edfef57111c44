------------------------------ MODULE WriteOnce ------------------------------
(***************************************************************************)
(* What the streams of an aggregate store promise when every append         *)
(* expects that there is no stream: each is written at most once, by one   *)
(* writer, and a writer is answered only after what it wrote is stored.    *)
(***************************************************************************)
CONSTANTS Keys, Writers, Nothing

VARIABLES
    value,     \* the writer of each key, or Nothing
    answered   \* the writers that were told of their success

Init ==
    /\ value = [k \in Keys |-> Nothing]
    /\ answered = {}

Write(k, w) ==
    /\ value[k] = Nothing
    /\ \A other \in Keys : value[other] # w
    /\ value' = [value EXCEPT ![k] = w]
    /\ UNCHANGED answered

Answer(w) ==
    /\ \E k \in Keys : value[k] = w
    /\ answered' = answered \cup {w}
    /\ UNCHANGED value

Next == \E w \in Writers : Answer(w) \/ \E k \in Keys : Write(k, w)

Spec == Init /\ [][Next]_<<value, answered>>
=============================================================================
