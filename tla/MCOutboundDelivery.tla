-------------------------- MODULE MCOutboundDelivery --------------------------
(***************************************************************************)
(* Two gateway processes and a short topic for TLC.                        *)
(***************************************************************************)
EXTENDS OutboundDelivery, TLC

CONSTANTS r1, r2, none, bad

\* A reply, an event without content, a record that is no envelope.
AnyRecords == r1 :> "reply" @@ none :> "empty" @@ bad :> "invalid"

=============================================================================

