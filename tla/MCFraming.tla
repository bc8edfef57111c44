------------------------------- MODULE MCFraming -------------------------------
(* Bytes are bits and a header has two of them, so that a payload can look    *)
(* like a header, and messages of every length 0 .. 3 occur: MaxLength 2      *)
(* makes the first and the last invalid for LengthPrefixedFramer.             *)
EXTENDS Framing

MCMessages == {<<>>, <<1>>, <<1, 0>>, <<0, 1>>, <<0, 0, 1>>}

\* Messages that the delimiter separates.
MCDelimitable == {<<1>>, <<0, 1>>}

\* Two bytes that share a byte with the payloads: messages that end in 0 run
\* into it.
MCDelimiter == <<0, 0>>

=============================================================================
