----------------------- MODULE MCGatewayConversation -----------------------
(* Instances of GatewayConversation for TLC. *)
EXTENDS GatewayConversation

CONSTANTS c1, c2, c3, d1, d2, r1, r2

MCCalls == {c1, c2}
MCCalls3 == {c1, c2, c3}
MCReads == {d1, d2}
MCNoReads == {}
MCRequests == {r1, r2}

AllFaults == {"redis", "expiry", "kafka", "ack"}
KafkaFaults == {"kafka", "ack"}
============================================================================
