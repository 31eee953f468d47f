--------------------------- MODULE MCEventConsumer ---------------------------
(* A group of processes over a log that holds every kind of message.        *)
EXTENDS EventConsumerProperties

CONSTANTS m1, m2, p1

MCLog == [p \in Partitions |-> << "invalid", "event", "undecodable" >>]
=============================================================================
