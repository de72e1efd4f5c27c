------------------------ MODULE GatewayConversation ------------------------
(***************************************************************************)
(* One conversation of the gateway: the calls of send_user_message that    *)
(* the user's requests make, the handler of outbound events, the calls of  *)
(* mark_read, and what they share: the rows of the conversation in the     *)
(* database, its unread_count and the status cached in Redis.              *)
(*                                                                         *)
(* Every await of the code is a place where the others run.  A progress    *)
(* event is known by its request and its number, <<req, n>>, so that a     *)
(* status is the set of the events merged into it.  Exactly-once handling  *)
(* of outbound events is the subject of OutboundDelivery; here they arrive *)
(* once and in order.                                                      *)
(***************************************************************************)
EXTENDS Integers, Sequences, FiniteSets

CONSTANTS
    Requests,     \* values of client_msg_id
    NoRequest,    \* no request
    Calls,        \* calls of send_user_message
    Reads,        \* calls of mark_read
    MaxProgress,  \* progress events of one round (bound)
    Patient,      \* TRUE: the user sends only when nothing is under way
    Faults        \* which of "redis", "expiry", "kafka", "ack" may happen

ASSUME ConversationAssumption ==
    /\ NoRequest \notin Requests
    /\ MaxProgress \in Nat
    /\ Patient \in BOOLEAN
    /\ Faults \subseteq {"redis", "expiry", "kafka", "ack"}

VARIABLES
    messages,   \* rows of the conversation, by seq
    unread,     \* conversations.unread_count
    cache,      \* the cached status: the progress events it has; {} is no key
    inbound,    \* requests in the inbound topic, not yet taken by the agent
    agent,      \* the agent: its round and the events sent in it
    outbound,   \* events in the outbound topic, not yet taken by the consumer
    send,       \* per call of send_user_message, how far it is
    consumer,   \* the handler of outbound events
    read        \* per call of mark_read, how far it is

vars == <<messages, unread, cache, inbound, agent, outbound, send, consumer, read>>

-----------------------------------------------------------------------------
(* The data.                                                               *)

Progress == Requests \X (1..MaxProgress)

Message == [kind : {"user", "reply", "failed"}, req : Requests,
            progress : SUBSET Progress]

NoEvent == [type |-> "none", req |-> NoRequest, n |-> 0]

StatusEvent == [type : {"status"}, req : Requests, n : 1..MaxProgress]
ReplyEvent == [type : {"reply"}, req : Requests, n : 0..MaxProgress]
Event == StatusEvent \cup ReplyEvent

IdleConsumer == [pc |-> "idle", event |-> NoEvent, status |-> {}, loaded |-> 0]

Row(kind, r, progress) == [kind |-> kind, req |-> r, progress |-> progress]

\* The rows of a kind.
Rows(kind) == {i \in DOMAIN messages : messages[i].kind = kind}

\* How many replies the conversation has.
Replies == Cardinality(Rows("reply"))

\* external_id = "inbound:" + request id is taken.
Stored(r) == \E i \in Rows("user") : messages[i].req = r

\* A round is under way somewhere between the request and its reply.
RoundOpen ==
    \/ \E c \in Calls : send[c].pc \in {"stored", "cleared"}
    \/ inbound # <<>> \/ agent.req # NoRequest \/ outbound # <<>>
    \/ consumer.pc # "idle"

Init ==
    /\ messages = <<>>
    /\ unread = 0
    /\ cache = {}
    /\ inbound = <<>>
    /\ agent = [req |-> NoRequest, sent |-> 0]
    /\ outbound = <<>>
    /\ send = [c \in Calls |-> [pc |-> "idle", req |-> NoRequest]]
    /\ consumer = IdleConsumer
    /\ read = [d \in Reads |-> [pc |-> "idle", loaded |-> 0, cleared |-> 0]]

-----------------------------------------------------------------------------
(* send_user_message.                                                      *)

\* Mutant: the insert is not committed.
StoreRequest_NoCommit(c, r) ==
    /\ send[c].pc = "idle"
    /\ Patient => ~RoundOpen
    /\ send' = [send EXCEPT ![c] = [pc |-> "stored", req |-> r]]
    /\ UNCHANGED <<messages, unread, cache, inbound, agent, outbound, consumer, read>>

\* The row is inserted and committed; a taken external_id inserts nothing,
\* and the call goes on all the same.
StoreRequest(c, r) ==
    /\ send[c].pc = "idle"
    /\ Patient => ~RoundOpen
    /\ messages' = IF Stored(r) THEN messages ELSE Append(messages, Row("user", r, {}))
    /\ send' = [send EXCEPT ![c] = [pc |-> "stored", req |-> r]]
    /\ UNCHANGED <<unread, cache, inbound, agent, outbound, consumer, read>>

\* A new round begins: the status of the last one is deleted.
ClearStatus(c) ==
    /\ send[c].pc = "stored"
    /\ \/ cache' = {}
       \/ "redis" \in Faults /\ UNCHANGED cache
    /\ send' = [send EXCEPT ![c].pc = "cleared"]
    /\ UNCHANGED <<messages, unread, inbound, agent, outbound, consumer, read>>

PublishInbound(c) ==
    /\ send[c].pc = "cleared"
    /\ inbound' = Append(inbound, send[c].req)
    /\ send' = [send EXCEPT ![c].pc = "done"]
    /\ UNCHANGED <<messages, unread, cache, agent, outbound, consumer, read>>

\* The producer raises: a failed bot row says so.  With "ack", the broker has
\* the record and only the acknowledgement was lost.
PublishFails(c) ==
    /\ send[c].pc = "cleared"
    /\ \/ "kafka" \in Faults /\ UNCHANGED inbound
       \/ "ack" \in Faults /\ inbound' = Append(inbound, send[c].req)
    /\ messages' = Append(messages, Row("failed", send[c].req, {}))
    /\ send' = [send EXCEPT ![c].pc = "done"]
    /\ UNCHANGED <<unread, cache, agent, outbound, consumer, read>>

-----------------------------------------------------------------------------
(* The agent, as the gateway sees it: it takes the requests of a           *)
(* conversation one by one, sends progress events and then the reply.  It  *)
(* does not know a request again: what was sent twice is answered twice.   *)

AgentTakes ==
    /\ agent.req = NoRequest /\ inbound # <<>>
    /\ agent' = [req |-> Head(inbound), sent |-> 0]
    /\ inbound' = Tail(inbound)
    /\ UNCHANGED <<messages, unread, cache, outbound, send, consumer, read>>

AgentReports ==
    /\ agent.req # NoRequest /\ agent.sent < MaxProgress
    /\ agent' = [agent EXCEPT !.sent = @ + 1]
    /\ outbound' = Append(outbound, [type |-> "status", req |-> agent.req,
                                     n |-> agent.sent + 1])
    /\ UNCHANGED <<messages, unread, cache, inbound, send, consumer, read>>

AgentReplies ==
    /\ agent.req # NoRequest
    /\ agent' = [agent EXCEPT !.req = NoRequest]
    /\ outbound' = Append(outbound, [type |-> "reply", req |-> agent.req, n |-> agent.sent])
    /\ UNCHANGED <<messages, unread, cache, inbound, send, consumer, read>>

-----------------------------------------------------------------------------
(* handle_outbound_event.                                                  *)

\* status.processing: the cached status is read ...
TakeStatus ==
    /\ consumer.pc = "idle" /\ outbound # <<>> /\ Head(outbound).type = "status"
    /\ \E status \in {cache} \cup (IF "redis" \in Faults THEN {{}} ELSE {}) :
         consumer' = [pc |-> "merging", event |-> Head(outbound),
                      status |-> status, loaded |-> 0]
    /\ outbound' = Tail(outbound)
    /\ UNCHANGED <<messages, unread, cache, inbound, agent, send, read>>

\* Mutant: the event replaces the status instead of being merged into it.
MergeStatus_Replaces ==
    /\ consumer.pc = "merging"
    /\ \/ cache' = {<<consumer.event.req, consumer.event.n>>}
       \/ "redis" \in Faults /\ UNCHANGED cache
    /\ consumer' = IdleConsumer
    /\ UNCHANGED <<messages, unread, inbound, agent, outbound, send, read>>

\* ... and, an await later, written back with the event merged into it.
MergeStatus ==
    /\ consumer.pc = "merging"
    /\ \/ cache' = consumer.status \cup {<<consumer.event.req, consumer.event.n>>}
       \/ "redis" \in Faults /\ UNCHANGED cache
    /\ consumer' = IdleConsumer
    /\ UNCHANGED <<messages, unread, inbound, agent, outbound, send, read>>

\* A reply: the conversation is loaded, with its unread_count ...
TakeReply ==
    /\ consumer.pc = "idle" /\ outbound # <<>> /\ Head(outbound).type = "reply"
    /\ consumer' = [pc |-> "loaded", event |-> Head(outbound),
                    status |-> {}, loaded |-> unread]
    /\ outbound' = Tail(outbound)
    /\ UNCHANGED <<messages, unread, cache, inbound, agent, send, read>>

\* ... the cached status is read ...
ReadStatus ==
    /\ consumer.pc = "loaded"
    /\ \E status \in {cache} \cup (IF "redis" \in Faults THEN {{}} ELSE {}) :
         consumer' = [consumer EXCEPT !.pc = "read", !.status = status]
    /\ UNCHANGED <<messages, unread, cache, inbound, agent, outbound, send, read>>

\* Mutant: the reply is stored without being counted.
StoreReply_NotCounted ==
    /\ consumer.pc = "read"
    /\ messages' = Append(messages, Row("reply", consumer.event.req, consumer.status))
    /\ consumer' = IdleConsumer
    /\ UNCHANGED <<unread, cache, inbound, agent, outbound, send, read>>

\* Mutant: a reply without progress is taken for an empty one and dropped.
StoreReply_NeedsProgress ==
    /\ consumer.pc = "read"
    /\ IF consumer.status = {} THEN UNCHANGED <<messages, unread>>
       ELSE /\ messages' = Append(messages, Row("reply", consumer.event.req, consumer.status))
            /\ unread' = consumer.loaded + 1
    /\ consumer' = IdleConsumer
    /\ UNCHANGED <<cache, inbound, agent, outbound, send, read>>

\* ... and the row and the count loaded before, plus one, are committed.
StoreReply ==
    /\ consumer.pc = "read"
    /\ messages' = Append(messages, Row("reply", consumer.event.req, consumer.status))
    /\ unread' = consumer.loaded + 1
    /\ consumer' = IdleConsumer
    /\ UNCHANGED <<cache, inbound, agent, outbound, send, read>>

StatusExpires ==
    /\ "expiry" \in Faults /\ cache # {}
    /\ cache' = {}
    /\ UNCHANGED <<messages, unread, inbound, agent, outbound, send, consumer, read>>

-----------------------------------------------------------------------------
(* mark_read, in a thread of its own.  "cleared" remembers how many        *)
(* replies there were when it committed.                                   *)

LoadForRead(d) ==
    /\ read[d].pc = "idle"
    /\ read' = [read EXCEPT ![d].pc = "loaded", ![d].loaded = unread]
    /\ UNCHANGED <<messages, unread, cache, inbound, agent, outbound, send, consumer>>

\* The session writes the column only when the value it loaded changes.
CommitRead(d) ==
    /\ read[d].pc = "loaded"
    /\ unread' = IF read[d].loaded = 0 THEN unread ELSE 0
    /\ read' = [read EXCEPT ![d].pc = "done", ![d].cleared = Replies]
    /\ UNCHANGED <<messages, cache, inbound, agent, outbound, send, consumer>>

-----------------------------------------------------------------------------
SendStep(c) == ClearStatus(c) \/ PublishInbound(c) \/ PublishFails(c)

AgentStep == AgentTakes \/ AgentReports \/ AgentReplies

ConsumerStep == TakeStatus \/ MergeStatus \/ TakeReply \/ ReadStatus \/ StoreReply

Next ==
    \/ \E c \in Calls, r \in Requests : StoreRequest(c, r)
    \/ \E c \in Calls : SendStep(c)
    \/ AgentStep
    \/ ConsumerStep
    \/ StatusExpires
    \/ \E d \in Reads : LoadForRead(d) \/ CommitRead(d)

Spec == Init /\ [][Next]_vars

\* The event loop steps every coroutine, and the agent answers what it takes.
Fairness ==
    /\ \A c \in Calls : WF_vars(SendStep(c))
    /\ WF_vars(AgentTakes) /\ WF_vars(AgentReplies)
    /\ WF_vars(ConsumerStep)

FairSpec == Spec /\ Fairness

-----------------------------------------------------------------------------
(* Properties.                                                             *)

TypeOK ==
    /\ messages \in Seq(Message)
    /\ unread \in Nat
    /\ cache \subseteq Progress
    /\ inbound \in Seq(Requests)
    /\ agent \in [req : Requests \cup {NoRequest}, sent : 0..MaxProgress]
    /\ outbound \in Seq(Event)
    /\ send \in [Calls -> [pc : {"idle", "stored", "cleared", "done"},
                           req : Requests \cup {NoRequest}]]
    /\ \A c \in Calls : send[c].pc # "idle" => send[c].req \in Requests
    /\ consumer \in [pc : {"idle", "merging", "loaded", "read"},
                     event : Event \cup {NoEvent},
                     status : SUBSET Progress, loaded : Nat]
    /\ consumer.pc = "merging" => consumer.event \in StatusEvent
    /\ consumer.pc \in {"loaded", "read"} => consumer.event \in ReplyEvent
    /\ read \in [Reads -> [pc : {"idle", "loaded", "done"}, loaded : Nat,
                           cleared : Nat]]

\* What is on its way has its row.
EventsAreStored ==
    /\ \A c \in Calls : send[c].pc # "idle" => Stored(send[c].req)
    /\ \A i \in DOMAIN inbound : Stored(inbound[i])
    /\ agent.req # NoRequest => Stored(agent.req)
    /\ \A i \in DOMAIN outbound : Stored(outbound[i].req)
    /\ consumer.pc # "idle" => Stored(consumer.event.req)

\* A reply or a failure notice comes after the row of its request: what the
\* user reads by seq, and the latency taken from that row, make sense.
AnswersFollowRequest ==
    \A i \in Rows("reply") \cup Rows("failed") :
        \E j \in Rows("user") : j < i /\ messages[j].req = messages[i].req

\* The sum of what was counted: a reply stored since the last mark_read is in
\* the count, whichever way the two interleaved.
NoReplyUncounted ==
    \A d \in Reads :
        (\A e \in Reads : read[d].cleared >= read[e].cleared)
        => unread >= Replies - read[d].cleared

\* unread_count never exceeds the replies there are: failure notices and the
\* user's own rows are not counted.
UnreadWithinReplies == unread <= Replies

\* The same of the count that the handler of a reply has loaded.
LoadedIsCurrent ==
    consumer.pc \in {"loaded", "read"} =>
        /\ consumer.loaded <= Replies
        /\ \A d \in Reads :
            (\A e \in Reads : read[d].cleared >= read[e].cleared)
            => consumer.loaded >= Replies - read[d].cleared

\* The inductive invariant.
IInv ==
    /\ TypeOK
    /\ EventsAreStored /\ AnswersFollowRequest
    /\ NoReplyUncounted /\ UnreadWithinReplies /\ LoadedIsCurrent
    /\ \A d \in Reads : read[d].cleared <= Replies

\* The status a reply is about to be stored with has every progress event of
\* its round, also those that a later event did not repeat, and no other.
ProgressExact ==
    consumer.pc = "read" =>
        consumer.status = {consumer.event.req} \X (1..consumer.event.n)

\* The inductive invariant of ProgressExact: of a user who waits for the answer, one
\* thing is under way at a time.  In a round of request r that has sent n progress
\* events, of which the handler has taken k, the others are in the topic, in order,
\* followed by the reply when the agent is done; what was taken is in the cache.
Sending == {c \in Calls : send[c].pc \in {"stored", "cleared"}}
Answering == agent.req # NoRequest \/ outbound # <<>> \/ consumer.pc # "idle"

EventOf(type, r, n) == [type |-> type, req |-> r, n |-> n]
Reported(r, k) == {r} \X (1..k)

RoundAt(r, n, k) ==
    /\ consumer.pc \in {"idle", "merging"} =>
        /\ \/ agent = [req |-> r, sent |-> n] /\ Len(outbound) = n - k
           \/ /\ agent.req = NoRequest /\ Len(outbound) = n - k + 1
              /\ outbound[n - k + 1] = EventOf("reply", r, n)
        /\ \A i \in 1..(n - k) : outbound[i] = EventOf("status", r, k + i)
    /\ consumer.pc = "idle" => cache = Reported(r, k)
    /\ consumer.pc = "merging" =>
        /\ k > 0 /\ consumer.event = EventOf("status", r, k)
        /\ cache = Reported(r, k - 1) /\ consumer.status = cache
    /\ consumer.pc \in {"loaded", "read"} =>
        /\ k = n /\ consumer.event = EventOf("reply", r, n)
        /\ agent.req = NoRequest /\ outbound = <<>>
        /\ cache = Reported(r, n) /\ (consumer.pc = "read" => consumer.status = cache)

RoundInv ==
    /\ \A c, d \in Sending : c = d
    /\ Sending # {} => inbound = <<>> /\ ~Answering
    /\ \A c \in Sending : send[c].pc = "cleared" => cache = {}
    /\ inbound # <<>> => Len(inbound) = 1 /\ cache = {} /\ ~Answering
    /\ Answering => \E r \in Requests, n \in 0..MaxProgress :
                        \E k \in 0..n : RoundAt(r, n, k)

\* Every request of the user is answered: by a reply or by the notice that it
\* could not be delivered.
EveryRequestAnswered ==
    \A r \in Requests :
        Stored(r) ~> \E i \in Rows("reply") \cup Rows("failed") : messages[i].req = r
=============================================================================
