--------------------------- MODULE MCKafkaConsumer ---------------------------
EXTENDS KafkaConsumer

CONSTANTS t1, t2

\* The first message of one topic is of another format.
MCMalformed == {[topic |-> t1, offset |-> 1]}
=============================================================================
