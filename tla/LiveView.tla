------------------------------ MODULE LiveView ------------------------------
(***************************************************************************)
(* What a browser shows of a user's conversations: the rows the gateway    *)
(* commits and publishes, the event stream with its bounded queue, and the *)
(* list of messages that the page keeps for the open conversation, which   *)
(* is filled by the history request, by the events of the stream and by    *)
(* the page's own optimistic message.                                      *)
(*                                                                         *)
(* A message is known by its seq, its place in db.  Of the list on the     *)
(* page only how often it shows each message is kept, not the order: what  *)
(* is looked up, replaced or filtered in it is found by the message.       *)
(*                                                                         *)
(* The reader of the Redis subscription is faster than anything else in    *)
(* the model: an event that is published to a subscribed stream is in its  *)
(* queue at once.                                                          *)
(***************************************************************************)
EXTENDS Naturals, Sequences, FiniteSets

CONSTANTS
    Convs,        \* conversations of the user
    First,        \* the one that is open at first
    QueueSize,    \* sse_queue_size
    MaxMessages,  \* rows (bound)
    MaxOpens,     \* times the user opens a conversation (bound)
    Faults        \* which of "disconnect", "post", "redis" may happen

ASSUME LiveViewAssumption ==
    /\ First \in Convs
    /\ QueueSize \in Nat \ {0} /\ MaxMessages \in Nat /\ MaxOpens \in Nat
    /\ Faults \subseteq {"disconnect", "post", "redis"}

VARIABLES
    db,        \* committed rows: conversation and sender
    unsent,    \* rows whose event is not yet published
    stream,    \* the event stream of the browser
    queue,     \* its queue in the gateway
    active,    \* the conversation the page shows
    view,      \* how often it shows each message, Local is the optimistic one
    gets,      \* history requests under way
    opens,     \* how many were made
    posting,   \* the call that sends a message
    lost       \* history: rows whose event the page never had, or whose message
               \* an answer of the history request took away

lvVars == <<db, unsent, stream, queue, active, view, gets, opens, posting, lost>>

Local == 0

Ids == DOMAIN db

Shown == {i \in DOMAIN view : view[i] > 0}

InQueue == {queue[k] : k \in DOMAIN queue}

EmptyPage == [i \in 0..MaxMessages |-> 0]

NotPosting == [phase |-> "none", conv |-> First, id |-> 0]

LVInit ==
    /\ db = <<>> /\ unsent = {}
    /\ stream = "subscribed" /\ queue = <<>>
    /\ active = First /\ view = EmptyPage
    /\ gets = {} /\ opens = 0
    /\ posting = NotPosting /\ lost = {}

-----------------------------------------------------------------------------
(* The gateway.                                                            *)

\* A row is committed; its event is published an await later.
Insert(c, sender) ==
    /\ Len(db) < MaxMessages
    /\ db' = Append(db, [conv |-> c, sender |-> sender])
    /\ unsent' = unsent \cup {Len(db) + 1}

\* The one consumer of outbound events stores a reply.
StoreReply(c) ==
    /\ \A i \in unsent : db[i].sender # "bot"
    /\ Insert(c, "bot")
    /\ UNCHANGED <<stream, queue, active, view, gets, opens, posting, lost>>

\* send_user_message stores the user's message.
StoreRequest ==
    /\ posting.phase = "sent"
    /\ Insert(posting.conv, "user")
    /\ posting' = [posting EXCEPT !.phase = "stored", !.id = Len(db) + 1]
    /\ UNCHANGED <<stream, queue, active, view, gets, opens, lost>>

\* Mutant: a full queue loses the new event.
Enqueue_Newest(i) == IF Len(queue) < QueueSize THEN Append(queue, i) ELSE queue

\* Mutant: the queue has no bound.
Enqueue_Unbounded(i) == Append(queue, i)

\* Into the queue; a full queue loses its oldest event.
Enqueue(i) == IF Len(queue) < QueueSize THEN Append(queue, i) ELSE Append(Tail(queue), i)

\* Pub/Sub: who is not subscribed misses the event, and so does everybody when
\* Redis fails.
Publish(i) ==
    /\ i \in unsent
    /\ unsent' = unsent \ {i}
    /\ \/ /\ stream = "subscribed" /\ queue' = Enqueue(i)
          /\ lost' = IF Len(queue) = QueueSize THEN lost \cup {Head(queue)} ELSE lost
       \/ /\ stream # "subscribed" \/ "redis" \in Faults
          /\ UNCHANGED queue /\ lost' = lost \cup {i}
    /\ UNCHANGED <<db, stream, active, view, gets, opens, posting>>

\* An error of the subscription ends its task: the connection stays, with
\* heartbeats and what is queued, and gets no event any more.
PumpEnds ==
    /\ "redis" \in Faults /\ stream \in {"ready", "subscribed"}
    /\ stream' = "deaf"
    /\ UNCHANGED <<db, unsent, queue, active, view, gets, opens, posting, lost>>

Disconnect ==
    /\ "disconnect" \in Faults /\ stream # "closed"
    /\ stream' = "closed" /\ queue' = <<>>
    /\ lost' = lost \cup InQueue
    /\ UNCHANGED <<db, unsent, active, view, gets, opens, posting>>

\* EventSource connects again: the ready frame is sent, and the subscription
\* is made by a task of its own.
Connect ==
    /\ stream = "closed"
    /\ stream' = "ready"
    /\ UNCHANGED <<db, unsent, queue, active, view, gets, opens, posting, lost>>

Subscribe ==
    /\ stream = "ready"
    /\ stream' = "subscribed"
    /\ UNCHANGED <<db, unsent, queue, active, view, gets, opens, posting, lost>>

-----------------------------------------------------------------------------
(* The page.                                                               *)

\* The page with message i at its end; a message of the user's own takes the place
\* of the optimistic one.
Added(i) ==
    LET kept == IF db[i].sender = "user" THEN [view EXCEPT ![Local] = 0] ELSE view
    IN  [kept EXCEPT ![i] = @ + 1]

\* Mutant: the event is appended without looking for its message.
Receive_Twice ==
    /\ queue # <<>>
    /\ queue' = Tail(queue)
    /\ LET i == Head(queue) IN view' = IF db[i].conv # active THEN view ELSE Added(i)
    /\ UNCHANGED <<db, unsent, stream, active, gets, opens, posting, lost>>

\* A message event: a message that is shown already is left alone.
Receive ==
    /\ queue # <<>>
    /\ queue' = Tail(queue)
    /\ LET i == Head(queue) IN
         view' = IF db[i].conv # active \/ i \in Shown THEN view ELSE Added(i)
    /\ UNCHANGED <<db, unsent, stream, active, gets, opens, posting, lost>>

\* The page is emptied and the history asked for ...
OpenConversation(c) ==
    /\ opens < MaxOpens
    /\ opens' = opens + 1
    /\ active' = c /\ view' = EmptyPage
    /\ gets' = gets \cup {[n |-> opens', conv |-> c, page |-> {}, served |-> FALSE]}
    /\ UNCHANGED <<db, unsent, stream, queue, posting, lost>>

\* ... the gateway reads it (the newest page) ...
ServeMessages(g) ==
    /\ g \in gets /\ ~g.served
    /\ LET page == {i \in Ids : db[i].conv = g.conv}
       IN  gets' = (gets \ {g}) \cup {[g EXCEPT !.page = page, !.served = TRUE]}
    /\ UNCHANGED <<db, unsent, stream, queue, active, view, opens, posting, lost>>

\* ... and the answer takes the place of whatever the page shows by then.
LoadMessages(g) ==
    /\ g \in gets /\ g.served
    /\ view' = [i \in DOMAIN view |-> IF i \in g.page THEN 1 ELSE 0]
    /\ lost' = (lost \cup Shown) \ (g.page \cup {Local})
    /\ gets' = gets \ {g}
    /\ UNCHANGED <<db, unsent, stream, queue, active, opens, posting>>

\* The user sends a message: it is shown before the gateway has it.
Submit ==
    /\ posting.phase = "none"
    /\ view' = [view EXCEPT ![Local] = @ + 1]
    /\ posting' = [phase |-> "sent", conv |-> active, id |-> 0]
    /\ UNCHANGED <<db, unsent, stream, queue, active, gets, opens, lost>>

\* The answer: the optimistic message, if it is still shown, becomes the row.
MessageSent ==
    /\ posting.phase = "stored" /\ posting.id \notin unsent
    /\ view' = [view EXCEPT ![posting.id] = @ + view[Local], ![Local] = 0]
    /\ posting' = NotPosting
    /\ UNCHANGED <<db, unsent, stream, queue, active, gets, opens, lost>>

\* The call fails, or its answer is lost: the optimistic message goes.
SendFails ==
    /\ "post" \in Faults /\ posting.phase # "none"
    /\ view' = [view EXCEPT ![Local] = 0]
    /\ posting' = NotPosting
    /\ UNCHANGED <<db, unsent, stream, queue, active, gets, opens, lost>>

-----------------------------------------------------------------------------
LVNext ==
    \/ \E c \in Convs : StoreReply(c) \/ OpenConversation(c)
    \/ StoreRequest
    \/ \E i \in Ids : Publish(i)
    \/ PumpEnds \/ Disconnect \/ Connect \/ Subscribe
    \/ Receive
    \/ \E g \in gets : ServeMessages(g) \/ LoadMessages(g)
    \/ Submit \/ MessageSent \/ SendFails

LVSpec == LVInit /\ [][LVNext]_lvVars

-----------------------------------------------------------------------------
(* Properties.                                                             *)

\* Types and bounds; a stream that is closed or not yet subscribed has no events.
LVTypeOK ==
    /\ db \in Seq([conv : Convs, sender : {"user", "bot"}]) /\ Len(db) <= MaxMessages
    /\ unsent \subseteq Ids
    /\ stream \in {"closed", "ready", "subscribed", "deaf"}
    /\ queue \in Seq(Ids) /\ Len(queue) <= QueueSize
    /\ stream \in {"closed", "ready"} => queue = <<>>
    /\ active \in Convs /\ view \in [0..MaxMessages -> Nat] /\ Shown \subseteq Ids \cup {Local}
    /\ opens \in 0..MaxOpens
    /\ gets \subseteq [n : 1..opens, conv : Convs, page : SUBSET Ids, served : BOOLEAN]
    /\ posting \in [phase : {"none", "sent", "stored"}, conv : Convs, id : Ids \cup {0}]
    /\ posting.phase = "stored" => posting.id # 0
    /\ lost \subseteq Ids

\* No message is shown twice, although a row reaches the page as an event, in a
\* page of the history and as the answer of the call that sent it, in any order; and
\* the optimistic message is shown only where it was sent, and is gone when its call has
\* ended, whatever overtook it.
ShownOnce ==
    /\ \A i \in DOMAIN view : view[i] <= 1
    /\ Local \in Shown => posting.phase # "none" /\ posting.conv = active

Quiet ==
    /\ stream = "subscribed" /\ queue = <<>> /\ unsent = {}
    /\ gets = {} /\ posting.phase = "none"

\* When nothing is under way any more the page misses only messages whose event
\* was lost on its way or that a late answer of the history request took away:
\* none is lost by the order of events, history and answers alone.
OnlyLostIsMissing ==
    Quiet => \A i \in Ids : db[i].conv = active => i \in Shown \cup lost

-----------------------------------------------------------------------------
(* The invariant that every step keeps (see DeliveryProofs).                *)

\* The optimistic message is not shown beside the row that was stored for it.
LocalIsPosting ==
    posting.phase = "stored" =>
        /\ db[posting.id].sender = "user"
        /\ Local \in Shown => posting.id \notin Shown

\* A message of the open conversation that is not shown is on its way as an event, has
\* been lost, or will come with the answer of a history request.
MissingIsExpected ==
    \A i \in Ids : db[i].conv = active =>
        \/ i \in Shown \cup lost \cup unsent \cup InQueue
        \/ \E g \in gets : g.conv = active /\ (g.served => i \in g.page)

LVInv == LVTypeOK /\ ShownOnce /\ LocalIsPosting /\ MissingIsExpected

=============================================================================
