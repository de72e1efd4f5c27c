---------------------------- MODULE MCKafkaChannel ----------------------------
(***************************************************************************)
(* The channel of one replica, for TLC.                                    *)
(***************************************************************************)
EXTENDS KafkaChannel
=============================================================================
