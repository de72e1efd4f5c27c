---------------------------- MODULE ReplyDelivery ----------------------------
(***************************************************************************)
(* What the gateway promises of the agent's replies, without processes,    *)
(* deliveries and claims: a reply is settled when somebody has taken it in *)
(* hand to store it; it is stored at most once, the browser is told of it  *)
(* at most once and only when it is stored, and the gateway passes it over *)
(* for good only when it is settled.                                       *)
(***************************************************************************)
EXTENDS Naturals

CONSTANT Replies

VARIABLES
  settled,   \* the replies that are stored, in hand, or given up
  stored,    \* how often each is stored
  told,      \* how often the browser was told of it
  passed     \* the replies that are not read again

delivery == <<settled, stored, told, passed>>

Init ==
  /\ settled = {} /\ passed = {}
  /\ stored = [m \in Replies |-> 0] /\ told = [m \in Replies |-> 0]

Settle(m) ==
  /\ settled' = settled \cup {m}
  /\ UNCHANGED <<stored, told, passed>>

Store(m) ==
  /\ m \in settled /\ stored[m] = 0
  /\ stored' = [stored EXCEPT ![m] = 1]
  /\ UNCHANGED <<settled, told, passed>>

Tell(m) ==
  /\ stored[m] = 1 /\ told[m] = 0
  /\ told' = [told EXCEPT ![m] = 1]
  /\ UNCHANGED <<settled, stored, passed>>

Pass(S) ==
  /\ passed' = passed \cup S
  /\ UNCHANGED <<settled, stored, told>>

Next ==
  \/ \E m \in Replies : Settle(m) \/ Store(m) \/ Tell(m)
  \/ \E S \in SUBSET settled : Pass(S)

Spec == Init /\ [][Next]_delivery
=============================================================================
