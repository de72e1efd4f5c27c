---------------------------- MODULE KafkaChannel ----------------------------
(***************************************************************************)
(* The icatmsg channel of one replica (channels/icatmsg.py): the receiver  *)
(* loop polls the inbound topic, sends a "processing" receipt and puts the *)
(* message on the bus; the outbound dispatcher (channels/manager.py) sends *)
(* the replies.  Both are coroutines of one event loop, share the consumer *)
(* and the producer of the channel, and each connects and closes both.     *)
(*                                                                         *)
(* A coroutine runs alone from one await to the next: it steps only while  *)
(* the other one awaits something (Runs).  The broker may fail a start, a  *)
(* poll or a send a bounded number of times; a client that another         *)
(* coroutine stopped fails for free.                                       *)
(***************************************************************************)
EXTENDS Naturals, Sequences, FiniteSets

CONSTANTS
    Producers,     \* producer objects; a name nobody refers to is used again
    None,
    Records,       \* bound: how many records the inbound topic gets
    MaxAttempts,   \* kafka_reconnect_max_attempts; the code makes 1 of anything less
    MaxFaults      \* bound: failures of the broker

ASSUME ChannelAssumption ==
    /\ None \notin Producers /\ IsFiniteSet(Producers) /\ Cardinality(Producers) >= 3
    /\ {Records, MaxFaults} \subseteq Nat /\ MaxAttempts \in Nat \ {0}

VARIABLES
    consumer,   \* self.consumer: "none", "starting", "up" or "dead"
    producer,   \* self.producer
    state,      \* of the producer objects: "starting", "up" or "stopped"
    co,         \* the two coroutines
    batch,      \* what getmany returned and the receiver has still to handle
    position,   \* records polled
    published,  \* records put on the bus
    answered,   \* messages the agent has answered
    outbound,   \* bus.outbound
    topic,      \* the outbound topic
    lost,       \* history: the replies that were given up
    faults

vars == <<consumer, producer, state, co, batch, position, published, answered,
          outbound, topic, lost, faults>>

Coroutines == {"receiver", "sender"}

\* Where a coroutine awaits something, and where it goes on without.
Awaits == {"off", "backoff", "sleep", "start_p", "start_c", "stop_c", "stop_p",
           "sending", "poll", "wait"}
Running == {"loop", "connect", "connect_c", "close", "close_p", "send", "publish"}

\* then: what called _connect_kafka_clients; after: what called _close_kafka_clients.
Coroutine(pc, then) ==
    [pc |-> pc, then |-> then, after |-> "none", handle |-> None, msg |-> 0,
     attempt |-> 1, tries |-> 1]

Runs(c, pc) == co[c].pc = pc /\ \A d \in Coroutines \ {c} : co[d].pc \in Awaits

\* start() connects, then the receiver runs; the dispatcher is there from the start.
Init ==
    /\ consumer = "none" /\ producer = None
    /\ state = [p \in Producers |-> "stopped"]
    /\ co = [receiver |-> Coroutine("backoff", "start"), sender |-> Coroutine("wait", "none")]
    /\ batch = <<>> /\ position = 0 /\ published = 0 /\ answered = 0
    /\ outbound = <<>> /\ topic = <<>> /\ lost = {} /\ faults = 0

Fault == faults < MaxFaults /\ faults' = faults + 1

-----------------------------------------------------------------------------
(* Where a coroutine goes on: each operator takes its record and returns   *)
(* the next one.                                                           *)

Goto(r, pc) == [r EXCEPT !.pc = pc, !.handle = None, !.after = "none"]

\* send and _send_processing_receipt.
Begin(m) ==
    [Coroutine(IF producer = None THEN "connect" ELSE "send", "send") EXCEPT !.msg = m]

\* The receipt is sent or given up, the reply is sent or given up.
Over(c, r) == Coroutine(IF c = "receiver" THEN "publish" ELSE "wait", "none")

Connected(c, r, ok) ==
    CASE r.then = "start"  -> Coroutine(IF ok THEN "loop" ELSE "off", "none")
      [] r.then = "loop"   -> Coroutine(IF ok THEN "poll" ELSE "sleep", "none")
      [] r.then = "send"   -> IF ok THEN Goto(r, "send") ELSE Over(c, r)
      [] r.then = "resend" -> Goto(r, "send")

\* Mutant: the dispatcher does not survive a reply that cannot be sent.
Closed_Stops(c, r) ==
    CASE r.after = "loop"  -> Coroutine("sleep", "none")
      [] r.after = "retry" -> IF r.tries < MaxAttempts
                              THEN Goto([r EXCEPT !.tries = @ + 1], "backoff")
                              ELSE Connected(c, r, FALSE)
      [] r.after = "send"  -> IF r.attempt = 1
                              THEN Goto([r EXCEPT !.attempt = 2, !.tries = 1,
                                                  !.then = "resend"], "connect")
                              ELSE Coroutine("off", "none")

Closed(c, r) ==
    CASE r.after = "loop"  -> Coroutine("sleep", "none")
      [] r.after = "retry" -> IF r.tries < MaxAttempts
                              THEN Goto([r EXCEPT !.tries = @ + 1], "backoff")
                              ELSE Connected(c, r, FALSE)
      [] r.after = "send"  -> IF r.attempt = 1
                              THEN Goto([r EXCEPT !.attempt = 2, !.tries = 1,
                                                  !.then = "resend"], "connect")
                              ELSE Over(c, r)

Close(r, after) == [r EXCEPT !.pc = "close", !.after = after, !.handle = None]

Become(c, r) == co' = [co EXCEPT ![c] = r]

\* A reply the sender is through with without success.
GivenUp(c, r) == lost' = IF r.pc = "wait" THEN lost \cup {co[c].msg} ELSE lost

-----------------------------------------------------------------------------
(* _connect_kafka_clients.                                                 *)

Referred == {producer} \cup {co[c].handle : c \in Coroutines}

Backoff(c) ==
    /\ Runs(c, "backoff")
    /\ Become(c, Goto(co[c], "connect"))
    /\ UNCHANGED <<consumer, producer, state, batch, position, published, answered,
                   outbound, topic, lost, faults>>

\* self.producer is set before the new producer is started.
ConnectProducer(c) ==
    /\ Runs(c, "connect")
    /\ IF producer = None
       THEN LET p == CHOOSE q \in Producers : q \notin Referred
            IN  /\ producer' = p
                /\ state' = [state EXCEPT ![p] = "starting"]
                /\ Become(c, [co[c] EXCEPT !.pc = "start_p", !.handle = p])
       ELSE Become(c, Goto(co[c], "connect_c")) /\ UNCHANGED <<producer, state>>
    /\ UNCHANGED <<consumer, batch, position, published, answered, outbound, topic, lost,
                   faults>>

ProducerStarted(c) ==
    /\ Runs(c, "start_p")
    /\ state' = [state EXCEPT ![co[c].handle] = IF @ = "starting" THEN "up" ELSE @]
    /\ Become(c, Goto(co[c], "connect_c"))
    /\ UNCHANGED <<consumer, producer, batch, position, published, answered, outbound, topic,
                   lost, faults>>

ProducerFails(c) ==
    /\ Runs(c, "start_p")
    /\ IF state[co[c].handle] = "starting" THEN Fault ELSE UNCHANGED faults
    /\ state' = [state EXCEPT ![co[c].handle] = "stopped"]
    /\ Become(c, Close(co[c], "retry"))
    /\ UNCHANGED <<consumer, producer, batch, position, published, answered, outbound, topic,
                   lost>>

\* A consumer is made only if there is none; one that was stopped is there.
ConnectConsumer(c) ==
    /\ Runs(c, "connect_c")
    /\ IF consumer = "none"
       THEN consumer' = "starting" /\ Become(c, Goto(co[c], "start_c"))
       ELSE Become(c, Connected(c, co[c], TRUE)) /\ UNCHANGED consumer
    /\ UNCHANGED <<producer, state, batch, position, published, answered, outbound, topic,
                   lost, faults>>

ConsumerStarted(c) ==
    /\ Runs(c, "start_c")
    /\ consumer' = IF consumer = "starting" THEN "up" ELSE consumer
    /\ Become(c, Connected(c, co[c], TRUE))
    /\ UNCHANGED <<producer, state, batch, position, published, answered, outbound, topic,
                   lost, faults>>

ConsumerFails(c) ==
    /\ Runs(c, "start_c")
    /\ IF consumer = "starting" THEN Fault ELSE UNCHANGED faults
    /\ consumer' = "dead"
    /\ Become(c, Close(co[c], "retry"))
    /\ UNCHANGED <<producer, state, batch, position, published, answered, outbound, topic,
                   lost>>

-----------------------------------------------------------------------------
(* _close_kafka_clients.                                                   *)

CloseConsumer(c) ==
    /\ Runs(c, "close")
    /\ IF consumer # "none"
       THEN consumer' = "dead" /\ Become(c, [co[c] EXCEPT !.pc = "stop_c"])
       ELSE Become(c, [co[c] EXCEPT !.pc = "close_p"]) /\ UNCHANGED consumer
    /\ UNCHANGED <<producer, state, batch, position, published, answered, outbound, topic,
                   lost, faults>>

ConsumerStopped(c) ==
    /\ Runs(c, "stop_c")
    /\ Become(c, [co[c] EXCEPT !.pc = "close_p"])
    /\ UNCHANGED <<consumer, producer, state, batch, position, published, answered,
                   outbound, topic, lost, faults>>

CloseProducer(c) ==
    /\ Runs(c, "close_p")
    /\ IF producer # None
       THEN /\ state' = [state EXCEPT ![producer] = "stopped"]
            /\ Become(c, [co[c] EXCEPT !.pc = "stop_p", !.handle = producer])
            /\ UNCHANGED lost
       ELSE /\ Become(c, Closed(c, co[c])) /\ GivenUp(c, Closed(c, co[c]))
            /\ UNCHANGED state
    /\ UNCHANGED <<consumer, producer, batch, position, published, answered, outbound, topic,
                   faults>>

\* self.producer is cleared after the await, whatever it has become; a producer
\* nobody refers to any more (it may still run) does not matter.
ProducerStopped(c) ==
    /\ Runs(c, "stop_p")
    /\ producer' = None
    /\ state' = [p \in Producers |->
                    IF \E d \in Coroutines \ {c} : co[d].handle = p THEN state[p] ELSE "stopped"]
    /\ Become(c, Closed(c, co[c])) /\ GivenUp(c, Closed(c, co[c]))
    /\ UNCHANGED <<consumer, batch, position, published, answered, outbound, topic,
                   faults>>

-----------------------------------------------------------------------------
(* One attempt of send_and_wait.                                           *)

Send(c) ==
    /\ Runs(c, "send")
    /\ IF producer = None \/ (producer # None /\ state[producer] = "stopped")
       THEN Become(c, Close(co[c], "send"))
       ELSE Become(c, [co[c] EXCEPT !.pc = "sending", !.handle = producer])
    /\ UNCHANGED <<consumer, producer, state, batch, position, published, answered,
                   outbound, topic, lost, faults>>

Record(c) == [kind |-> IF c = "receiver" THEN "receipt" ELSE "reply", msg |-> co[c].msg]

\* A producer that is stopped flushes what it has.
Sent(c) ==
    /\ Runs(c, "sending") /\ state[co[c].handle] # "starting"
    /\ topic' = Append(topic, Record(c))
    /\ Become(c, Over(c, co[c]))
    /\ UNCHANGED <<consumer, producer, state, batch, position, published, answered,
                   outbound, lost, faults>>

\* The record may be in the topic although the producer raised.
SendFails(c) ==
    /\ Runs(c, "sending")
    /\ IF state[co[c].handle] = "stopped" THEN UNCHANGED faults ELSE Fault
    /\ topic' \in {topic, Append(topic, Record(c))}
    /\ Become(c, Close(co[c], "send"))
    /\ UNCHANGED <<consumer, producer, state, batch, position, published, answered,
                   outbound, lost>>

-----------------------------------------------------------------------------
(* _kafka_receiver_loop.                                                   *)

Wake ==
    /\ Runs("receiver", "sleep")
    /\ Become("receiver", Coroutine("loop", "none"))
    /\ UNCHANGED <<consumer, producer, state, batch, position, published, answered,
                   outbound, topic, lost, faults>>

Loop ==
    /\ Runs("receiver", "loop")
    /\ Become("receiver",
              IF consumer = "none" \/ producer = None
              THEN Coroutine("connect", "loop")
              ELSE Coroutine("poll", "none"))
    /\ UNCHANGED <<consumer, producer, state, batch, position, published, answered,
                   outbound, topic, lost, faults>>

\* Mutant: the messages go to the bus before their receipts are sent.
Poll_Forwards ==
    /\ Runs("receiver", "poll") /\ consumer = "up"
    /\ \E n \in 1 .. Records - position :
        /\ batch' = [i \in 1..n |-> position + i]
        /\ position' = position + n /\ published' = position + n
    /\ Become("receiver", Begin(position + 1))
    /\ UNCHANGED <<consumer, producer, state, answered, outbound, topic, lost, faults>>

Poll ==
    /\ Runs("receiver", "poll") /\ consumer = "up"
    /\ \E n \in 1 .. Records - position :
        /\ batch' = [i \in 1..n |-> position + i]
        /\ position' = position + n
    /\ Become("receiver", Begin(position + 1))
    /\ UNCHANGED <<consumer, producer, state, published, answered, outbound, topic, lost,
                   faults>>

\* A rebalance or another error; a consumer that is not up raises every time.
PollFails ==
    /\ Runs("receiver", "poll")
    /\ IF consumer = "up" THEN Fault ELSE UNCHANGED faults
    /\ Become("receiver", Close(co["receiver"], "loop"))
    /\ UNCHANGED <<consumer, producer, state, batch, position, published, answered,
                   outbound, topic, lost>>

\* Mutant: the clients are made anew after every batch.
Publish_Reconnects ==
    /\ Runs("receiver", "publish")
    /\ published' = Head(batch)
    /\ batch' = Tail(batch)
    /\ Become("receiver", IF Len(batch) = 1 THEN Close(co["receiver"], "loop")
                          ELSE Begin(batch[2]))
    /\ UNCHANGED <<consumer, producer, state, position, answered, outbound, topic, lost,
                   faults>>

\* The message goes to the bus, with or without its receipt.
Publish ==
    /\ Runs("receiver", "publish")
    /\ published' = Head(batch)
    /\ batch' = Tail(batch)
    /\ Become("receiver", IF Len(batch) = 1 THEN Coroutine("poll", "none")
                          ELSE Begin(batch[2]))
    /\ UNCHANGED <<consumer, producer, state, position, answered, outbound, topic, lost,
                   faults>>

-----------------------------------------------------------------------------
(* The agent answers in order; _dispatch_outbound sends one reply after    *)
(* the other.                                                              *)

Answer ==
    /\ answered < published
    /\ answered' = answered + 1
    /\ outbound' = Append(outbound, answered')
    /\ UNCHANGED <<consumer, producer, state, co, batch, position, published, topic, lost,
                   faults>>

TakeReply ==
    /\ Runs("sender", "wait") /\ outbound # <<>>
    /\ outbound' = Tail(outbound)
    /\ Become("sender", Begin(Head(outbound)))
    /\ UNCHANGED <<consumer, producer, state, batch, position, published, answered, topic,
                   lost, faults>>

-----------------------------------------------------------------------------
ClientStep(c) ==
    \/ Backoff(c) \/ ConnectProducer(c) \/ ProducerStarted(c) \/ ProducerFails(c)
    \/ ConnectConsumer(c) \/ ConsumerStarted(c) \/ ConsumerFails(c)
    \/ CloseConsumer(c) \/ ConsumerStopped(c) \/ CloseProducer(c) \/ ProducerStopped(c)
    \/ Send(c) \/ Sent(c) \/ SendFails(c)

ReceiverStep == ClientStep("receiver") \/ Wake \/ Loop \/ Poll \/ PollFails \/ Publish
SenderStep == ClientStep("sender") \/ TakeReply

Next == ReceiverStep \/ SenderStep \/ Answer

Spec == Init /\ [][Next]_vars

\* What a coroutine awaits comes, or fails; the event loop runs what is ready in
\* its order, so that a coroutine gets its turn although the other one never ends.
FairSpec == Spec /\ SF_vars(ReceiverStep) /\ SF_vars(SenderStep)

-----------------------------------------------------------------------------
(* Properties.                                                             *)

Sends == [kind : {"receipt", "reply"}, msg : 1..Records]

CoroutineStates ==
    [pc : Awaits \cup Running, then : {"none", "start", "loop", "send", "resend"},
     after : {"none", "loop", "retry", "send"}, handle : Producers \cup {None},
     msg : 0..Records, attempt : 1..2, tries : 1..MaxAttempts]

TypeOK ==
    /\ consumer \in {"none", "starting", "up", "dead"}
    /\ producer \in Producers \cup {None}
    /\ state \in [Producers -> {"starting", "up", "stopped"}]
    /\ co \in [Coroutines -> CoroutineStates]
    /\ batch \in Seq(1..Records) /\ outbound \in Seq(1..Records) /\ topic \in Seq(Sends)
    /\ {position, published, answered} \subseteq 0..Records
    /\ lost \subseteq 1..Records /\ faults \in 0..MaxFaults

\* The gateway never hears that a message is being processed after it got the
\* reply (the status would stay), and gets the replies in the order of the bus,
\* each at most twice, whichever coroutine replaces the producer in between.
TopicInOrder ==
    /\ \A i, j \in DOMAIN topic :
        i < j /\ topic[i].kind = "reply" =>
            /\ topic[j].kind = "receipt" => topic[i].msg # topic[j].msg
            /\ topic[j].kind = "reply" => topic[i].msg <= topic[j].msg
    /\ \A i, j, k \in DOMAIN topic :
        i < j /\ j < k /\ topic[i].kind = "reply" => ~(topic[i] = topic[j] /\ topic[j] = topic[k])

\* However the two coroutines interleave, a reply is given up only after the
\* broker has failed.
LostOnlyAfterFault == lost # {} => faults > 0

\* The dispatcher gets through with every reply: it reaches the topic or is given up.
RepliesSettle ==
    \A m \in 1..Records :
        answered >= m ~> m \in lost \/ \E i \in DOMAIN topic :
                                            topic[i] = [kind |-> "reply", msg |-> m]

-----------------------------------------------------------------------------
(* The inductive invariant of TopicInOrder and LostOnlyAfterFault.         *)

Busy(r) == r.then \in {"send", "resend"}

\* Where a coroutine is tells what called the operation it is in.
PathFits(c, r) ==
    /\ r.pc \in {"close", "stop_c", "close_p", "stop_p"} <=> r.after # "none"
    /\ r.pc \in {"off", "sleep", "loop", "poll", "wait", "publish"} => r.then = "none"
    /\ r.pc \in {"backoff", "connect", "start_p", "connect_c", "start_c"} => r.then # "none"
    /\ r.pc \in {"send", "sending"} => Busy(r)
    /\ r.after = "loop" => r.then = "none"
    /\ r.after = "retry" => r.then # "none"
    /\ r.after = "send" => Busy(r)
    /\ r.then = "send" => r.attempt = 1
    /\ r.then = "resend" => r.attempt = 2
    /\ c = "receiver" => r.pc # "wait"
    /\ c = "sender" => Busy(r) \/ (r.then = "none" /\ r.pc = "wait")

PathsFit == \A c \in Coroutines : PathFits(c, co[c])

\* The receiver publishes what it polled, in order, and the receipt it sends is
\* that of the next message.
Handling(r) == Busy(r) \/ r.pc = "publish"

BatchIsNext ==
    /\ position = published + Len(batch)
    /\ \A i \in DOMAIN batch : batch[i] = published + i
    /\ Handling(co["receiver"]) <=> batch # <<>>
    /\ Busy(co["receiver"]) => co["receiver"].msg = published + 1

\* The last reply the dispatcher took from the bus.
Taken == answered - Len(outbound)

RepliesAreNext ==
    /\ Len(outbound) <= answered /\ answered <= published
    /\ \A i \in DOMAIN outbound : outbound[i] = Taken + i
    /\ Busy(co["sender"]) => Taken > 0 /\ co["sender"].msg = Taken

\* How often the reply the dispatcher is at may be in the topic by now: not at
\* all before its first attempt is over, once before its second is.
Untried(r) == r.then = "send" /\ r.after # "send"
TriedOnce(r) == r.then = "send" \/ (r.then = "resend" /\ r.after # "send")
ReplyTo(m, s) == s.kind = "reply" /\ s.msg = m

RepliesCounted ==
    /\ \A i \in DOMAIN topic : topic[i].kind = "reply" => topic[i].msg <= Taken
    /\ Untried(co["sender"]) => \A i \in DOMAIN topic : ~ReplyTo(Taken, topic[i])
    /\ TriedOnce(co["sender"]) =>
        \A i, j \in DOMAIN topic :
            ReplyTo(Taken, topic[i]) /\ ReplyTo(Taken, topic[j]) => i = j

OrderInv ==
    TypeOK /\ PathsFit /\ BatchIsNext /\ RepliesAreNext /\ RepliesCounted /\ TopicInOrder

\* While the broker has not failed nobody closes a client: start() makes both,
\* and the dispatcher has nothing to send before.
Smooth ==
    LET r == co["receiver"]
    IN  /\ lost = {}
        /\ \A c \in Coroutines :
            /\ co[c].after = "none" /\ co[c].then \in {"none", "start", "send"}
            /\ co[c].pc \notin {"off", "sleep"}
            /\ Busy(co[c]) => co[c].pc \in {"send", "sending"}
            /\ co[c].pc = "sending" => co[c].handle = producer
        /\ r.then = "start" =>
            /\ r.pc \in {"backoff", "connect", "start_p", "connect_c", "start_c"}
            /\ position = 0
            /\ consumer = IF r.pc = "start_c" THEN "starting" ELSE "none"
            /\ r.pc \in {"backoff", "connect"} <=> producer = None
            /\ r.pc = "start_p" => r.handle = producer /\ state[producer] = "starting"
        /\ r.then # "start" => consumer = "up"
        /\ r.pc \notin {"backoff", "connect", "start_p"} =>
            producer # None /\ state[producer] = "up"

CalmInv == faults = 0 => Smooth

KafkaInv == OrderInv /\ CalmInv
=============================================================================
