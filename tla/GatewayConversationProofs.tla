---------------------- MODULE GatewayConversationProofs ----------------------
(***************************************************************************)
(* For any number of requests, of calls that send them, and of calls of    *)
(* mark_read: the row of a request comes before its answers; a reply       *)
(* stored since the last mark_read is counted, and nothing else is.        *)
(*                                                                         *)
(* The argument for the count: only the one handler of outbound events     *)
(* adds replies, so that the count it loaded, which a mark_read can make   *)
(* too high but not too low (LoadedIsCurrent), is still good when it       *)
(* commits; a mark_read that commits writes 0 and makes every reply there  *)
(* is a cleared one.                                                       *)
(*                                                                         *)
(* The argument for the status: a user who waits has one round under way,  *)
(* which began with an empty cache, so that what the handler finds there   *)
(* are the events of this round that it took before (RoundInv).            *)
(***************************************************************************)
EXTENDS GatewayConversation, FiniteSetTheorems, TLAPS

\* What a call of mark_read knows.
ReadState == [pc : {"idle", "loaded", "done"}, loaded : Nat, cleared : Nat]

\* What a new row changes, and what it leaves.
LEMMA AppendFacts ==
  ASSUME messages \in Seq(Message), NEW m \in Message, messages' = Append(messages, m)
  PROVE  /\ messages' \in Seq(Message)
         /\ DOMAIN messages = 1..Len(messages) /\ Len(messages) \in Nat
         /\ DOMAIN messages' = 1..(Len(messages) + 1)
         /\ messages'[Len(messages) + 1] = m
         /\ \A i \in DOMAIN messages : messages'[i] = messages[i]
  OBVIOUS

LEMMA RowsAppended ==
  ASSUME messages \in Seq(Message), NEW m \in Message, messages' = Append(messages, m),
         NEW kind
  PROVE  Rows(kind)' = IF m.kind = kind THEN Rows(kind) \cup {Len(messages) + 1} ELSE Rows(kind)
<1>1. DOMAIN messages' = DOMAIN messages \cup {Len(messages) + 1}
  BY AppendFacts
<1>2. \A i \in DOMAIN messages : messages'[i] = messages[i]
  BY AppendFacts
<1>3. messages'[Len(messages) + 1] = m
  BY AppendFacts
<1>4. QED
  BY <1>1, <1>2, <1>3 DEF Rows

LEMMA RowsAreFinite ==
  ASSUME messages \in Seq(Message), NEW kind
  PROVE  /\ IsFiniteSet(Rows(kind)) /\ Cardinality(Rows(kind)) \in Nat
         /\ Len(messages) + 1 \notin Rows(kind)
<1>1. Len(messages) \in Nat /\ DOMAIN messages = 1..Len(messages)
  OBVIOUS
<1>2. IsFiniteSet(1..Len(messages))
  BY <1>1, FS_Interval
<1>3. Rows(kind) \subseteq 1..Len(messages)
  BY <1>1 DEF Rows
<1>4. IsFiniteSet(Rows(kind))
  BY <1>2, <1>3, FS_Subset
<1>5. QED
  BY <1>1, <1>3, <1>4, FS_CardinalityType

LEMMA RepliesAppended ==
  ASSUME messages \in Seq(Message), NEW m \in Message, messages' = Append(messages, m)
  PROVE  /\ Replies \in Nat
         /\ Replies' = IF m.kind = "reply" THEN Replies + 1 ELSE Replies
<1>1. Replies \in Nat
  BY RowsAreFinite DEF Replies
<1>2. CASE m.kind = "reply"
  <2>1. Rows("reply")' = Rows("reply") \cup {Len(messages) + 1}
    BY <1>2, RowsAppended
  <2>2. Cardinality(Rows("reply") \cup {Len(messages) + 1}) = Cardinality(Rows("reply")) + 1
    BY RowsAreFinite, FS_AddElement
  <2>3. QED
    BY <1>1, <1>2, <2>1, <2>2 DEF Replies
<1>3. CASE m.kind # "reply"
  BY <1>1, <1>3, RowsAppended DEF Replies
<1>4. QED
  BY <1>2, <1>3

\* A row once stored stays.
LEMMA StoredAppended ==
  ASSUME messages \in Seq(Message), NEW m \in Message, messages' = Append(messages, m)
  PROVE  \A r : Stored(r)' <=> Stored(r) \/ (m.kind = "user" /\ m.req = r)
<1>1. Rows("user") \subseteq DOMAIN messages
  BY DEF Rows
<1>2. /\ \A i \in DOMAIN messages : messages'[i] = messages[i]
      /\ messages'[Len(messages) + 1] = m
  BY AppendFacts
<1>3. Rows("user")' = IF m.kind = "user" THEN Rows("user") \cup {Len(messages) + 1} ELSE Rows("user")
  BY RowsAppended
<1>4. QED
  BY <1>1, <1>2, <1>3 DEF Stored

LEMMA TypeInit == Init => TypeOK
<1>. SUFFICES ASSUME Init PROVE TypeOK
  OBVIOUS
<1>1. messages \in Seq(Message) /\ inbound \in Seq(Requests) /\ outbound \in Seq(Event)
  BY DEF Init
<1>2. agent \in [req : Requests \cup {NoRequest}, sent : 0..MaxProgress]
  BY ConversationAssumption DEF Init
<1>3. consumer \in [pc : {"idle", "merging", "loaded", "read"}, event : Event \cup {NoEvent},
                    status : SUBSET Progress, loaded : Nat] /\ consumer.pc = "idle"
  BY DEF Init, IdleConsumer
<1>4. QED
  BY <1>1, <1>2, <1>3 DEF Init, TypeOK

LEMMA TypeStep == TypeOK /\ [Next]_vars => TypeOK'
<1>. SUFFICES ASSUME TypeOK, [Next]_vars PROVE TypeOK'
  OBVIOUS
<1>1. ASSUME NEW c \in Calls, NEW r \in Requests, StoreRequest(c, r) PROVE TypeOK'
  <2>1. Row("user", r, {}) \in Message
    BY DEF Row, Message
  <2>2. messages' \in Seq(Message)
    BY <1>1, <2>1 DEF StoreRequest, TypeOK
  <2>3. QED
    BY <1>1, <2>2 DEF StoreRequest, TypeOK
<1>2. ASSUME NEW c \in Calls, ClearStatus(c) PROVE TypeOK'
  BY <1>2 DEF ClearStatus, TypeOK
<1>3. ASSUME NEW c \in Calls, PublishInbound(c) PROVE TypeOK'
  <2>1. inbound' \in Seq(Requests)
    BY <1>3 DEF PublishInbound, TypeOK
  <2>2. QED
    BY <1>3, <2>1 DEF PublishInbound, TypeOK
<1>4. ASSUME NEW c \in Calls, PublishFails(c) PROVE TypeOK'
  <2>1. send[c].req \in Requests
    BY <1>4 DEF PublishFails, TypeOK
  <2>2. inbound' \in Seq(Requests)
    <3>1. Append(inbound, send[c].req) \in Seq(Requests) /\ inbound \in Seq(Requests)
      BY <2>1 DEF TypeOK
    <3>2. QED
      BY <1>4, <3>1 DEF PublishFails
  <2>3. Row("failed", send[c].req, {}) \in Message
    BY <2>1 DEF Row, Message
  <2>4. messages' \in Seq(Message)
    BY <1>4, <2>3 DEF PublishFails, TypeOK
  <2>5. QED
    BY <1>4, <2>2, <2>4 DEF PublishFails, TypeOK
<1>5. CASE AgentTakes
  <2>1. Head(inbound) \in Requests /\ inbound' \in Seq(Requests)
    BY <1>5 DEF AgentTakes, TypeOK
  <2>2. agent' \in [req : Requests \cup {NoRequest}, sent : 0..MaxProgress]
    BY <1>5, <2>1, ConversationAssumption DEF AgentTakes, TypeOK
  <2>3. QED
    BY <1>5, <2>1, <2>2 DEF AgentTakes, TypeOK
<1>6. CASE AgentReports
  <2>1. agent.sent + 1 \in 1..MaxProgress /\ agent.req \in Requests
    BY <1>6, ConversationAssumption DEF AgentReports, TypeOK
  <2>2. [type |-> "status", req |-> agent.req, n |-> agent.sent + 1] \in Event
    BY <2>1 DEF Event, StatusEvent
  <2>3. outbound' \in Seq(Event)
    BY <1>6, <2>2 DEF AgentReports, TypeOK
  <2>4. agent' \in [req : Requests \cup {NoRequest}, sent : 0..MaxProgress]
    <3>1. agent.sent + 1 \in 0..MaxProgress
      BY <2>1
    <3>2. QED
      BY <1>6, <3>1 DEF AgentReports, TypeOK
  <2>5. QED
    BY <1>6, <2>3, <2>4 DEF AgentReports, TypeOK
<1>7. CASE AgentReplies
  <2>1. [type |-> "reply", req |-> agent.req, n |-> agent.sent] \in Event
    BY <1>7 DEF AgentReplies, TypeOK, Event, ReplyEvent
  <2>2. outbound' \in Seq(Event)
    BY <1>7, <2>1 DEF AgentReplies, TypeOK
  <2>3. QED
    BY <1>7, <2>2 DEF AgentReplies, TypeOK
<1>8. CASE TakeStatus
  <2>1. outbound' \in Seq(Event) /\ Head(outbound) \in Event
    BY <1>8 DEF TakeStatus, TypeOK
  <2>2. Head(outbound) \in StatusEvent
    BY <1>8, <2>1 DEF TakeStatus, Event, ReplyEvent
  <2>3. PICK status \in {cache} \cup (IF "redis" \in Faults THEN {{}} ELSE {}) :
           consumer' = [pc |-> "merging", event |-> Head(outbound), status |-> status, loaded |-> 0]
    BY <1>8 DEF TakeStatus
  <2>4. status \subseteq Progress
    BY DEF TypeOK
  <2>5. QED
    BY <1>8, <2>1, <2>2, <2>3, <2>4 DEF TakeStatus, TypeOK
<1>9. CASE MergeStatus
  <2>1. <<consumer.event.req, consumer.event.n>> \in Progress
    BY <1>9 DEF MergeStatus, TypeOK, StatusEvent, Progress
  <2>2. cache' \subseteq Progress
    BY <1>9, <2>1 DEF MergeStatus, TypeOK
  <2>3. QED
    BY <1>9, <2>2 DEF MergeStatus, TypeOK, IdleConsumer
<1>10. CASE TakeReply
  <2>1. outbound' \in Seq(Event) /\ Head(outbound) \in Event
    BY <1>10 DEF TakeReply, TypeOK
  <2>2. Head(outbound) \in ReplyEvent
    BY <1>10, <2>1 DEF TakeReply, Event, StatusEvent
  <2>3. QED
    BY <1>10, <2>1, <2>2 DEF TakeReply, TypeOK
<1>11. CASE ReadStatus
  <2>1. PICK status \in {cache} \cup (IF "redis" \in Faults THEN {{}} ELSE {}) :
           consumer' = [consumer EXCEPT !.pc = "read", !.status = status]
    BY <1>11 DEF ReadStatus
  <2>2. status \subseteq Progress
    BY DEF TypeOK
  <2>3. /\ consumer' \in [pc : {"idle", "merging", "loaded", "read"}, event : Event \cup {NoEvent},
                         status : SUBSET Progress, loaded : Nat]
        /\ consumer'.pc = "read" /\ consumer'.event = consumer.event
    BY <2>1, <2>2 DEF TypeOK
  <2>4. QED
    BY <1>11, <2>3 DEF ReadStatus, TypeOK
<1>12. CASE StoreReply
  <2>1. Row("reply", consumer.event.req, consumer.status) \in Message
    BY <1>12 DEF StoreReply, TypeOK, ReplyEvent, Row, Message
  <2>2. messages' \in Seq(Message)
    BY <1>12, <2>1 DEF StoreReply, TypeOK
  <2>3. QED
    BY <1>12, <2>2 DEF StoreReply, TypeOK, IdleConsumer
<1>13. CASE StatusExpires
  BY <1>13 DEF StatusExpires, TypeOK
<1>14. ASSUME NEW d \in Reads, LoadForRead(d) PROVE TypeOK'
  <2>1. read[d] \in ReadState /\ unread \in Nat
    BY DEF TypeOK, ReadState
  <2>2. [read[d] EXCEPT !.pc = "loaded", !.loaded = unread] \in ReadState
    BY <2>1 DEF ReadState
  <2>3. read' \in [Reads -> ReadState]
    BY <1>14, <2>2 DEF LoadForRead, TypeOK, ReadState
  <2>4. QED
    BY <1>14, <2>3 DEF LoadForRead, TypeOK, ReadState
<1>15. ASSUME NEW d \in Reads, CommitRead(d) PROVE TypeOK'
  <2>1. Replies \in Nat
    BY RowsAreFinite DEF Replies, TypeOK
  <2>2. read[d] \in ReadState
    BY DEF TypeOK, ReadState
  <2>3. [read[d] EXCEPT !.pc = "done", !.cleared = Replies] \in ReadState
    BY <2>1, <2>2 DEF ReadState
  <2>4. read' \in [Reads -> ReadState]
    BY <1>15, <2>3 DEF CommitRead, TypeOK, ReadState
  <2>5. unread' \in Nat
    BY <1>15 DEF CommitRead, TypeOK
  <2>6. QED
    BY <1>15, <2>4, <2>5 DEF CommitRead, TypeOK, ReadState
<1>16. CASE UNCHANGED vars
  BY <1>16 DEF vars, TypeOK
<1>17. QED
  BY <1>1, <1>2, <1>3, <1>4, <1>5, <1>6, <1>7, <1>8, <1>9, <1>10, <1>11, <1>12, <1>13,
     <1>14, <1>15, <1>16 DEF Next, SendStep, AgentStep, ConsumerStep

-----------------------------------------------------------------------------
\* The rows a step can add, and why.
NewRow(m) ==
  /\ m \in Message /\ messages' = Append(messages, m)
  /\ \/ m.kind = "user" /\ ~Stored(m.req)
     \/ m.kind = "failed" /\ \E c \in Calls : send[c].pc = "cleared" /\ m.req = send[c].req
     \/ m.kind = "reply" /\ consumer.pc = "read" /\ m.req = consumer.event.req

LEMMA MessagesStep ==
  ASSUME TypeOK, [Next]_vars
  PROVE  UNCHANGED messages \/ \E m : NewRow(m)
<1>1. ASSUME NEW c \in Calls, NEW r \in Requests, StoreRequest(c, r)
      PROVE  UNCHANGED messages \/ \E m : NewRow(m)
  <2>1. CASE Stored(r)
    BY <1>1, <2>1 DEF StoreRequest
  <2>2. CASE ~Stored(r)
    <3>1. NewRow(Row("user", r, {}))
      BY <1>1, <2>2 DEF StoreRequest, NewRow, Row, Message
    <3>2. QED
      BY <3>1
  <2>3. QED
    BY <2>1, <2>2
<1>2. ASSUME NEW c \in Calls, PublishFails(c) PROVE \E m : NewRow(m)
  <2>1. send[c].pc = "cleared" /\ messages' = Append(messages, Row("failed", send[c].req, {}))
    BY <1>2 DEF PublishFails
  <2>2. send[c].req \in Requests
    BY <2>1 DEF TypeOK
  <2>3. NewRow(Row("failed", send[c].req, {}))
    BY <2>1, <2>2 DEF NewRow, Row, Message
  <2>4. QED
    BY <2>3
<1>3. ASSUME StoreReply PROVE \E m : NewRow(m)
  <2>1. NewRow(Row("reply", consumer.event.req, consumer.status))
    BY <1>3 DEF StoreReply, TypeOK, ReplyEvent, NewRow, Row, Message
  <2>2. QED
    BY <2>1
<1>4. CASE UNCHANGED messages
  BY <1>4
<1>5. QED
  BY <1>1, <1>2, <1>3, <1>4 DEF Next, SendStep, AgentStep, ConsumerStep, ClearStatus,
     PublishInbound, AgentTakes, AgentReports, AgentReplies, TakeStatus, MergeStatus,
     TakeReply, ReadStatus, StatusExpires, LoadForRead, CommitRead, vars

LEMMA StoredStays ==
  ASSUME TypeOK, [Next]_vars, NEW r, Stored(r)
  PROVE  Stored(r)'
<1>1. CASE UNCHANGED messages
  BY <1>1 DEF Stored, Rows
<1>2. ASSUME NEW m, NewRow(m) PROVE Stored(r)'
  BY <1>2, StoredAppended DEF NewRow, TypeOK
<1>3. QED
  BY <1>1, <1>2, MessagesStep

LEMMA EventsStep == TypeOK /\ EventsAreStored /\ [Next]_vars => EventsAreStored'
<1>. SUFFICES ASSUME TypeOK, EventsAreStored, [Next]_vars PROVE EventsAreStored'
  OBVIOUS
<1>0. \A r : Stored(r) => Stored(r)'
  BY StoredStays
<1>. DEFINE Sent == \A c \in Calls : send[c].pc # "idle" => Stored(send[c].req)
            Queued == \A i \in DOMAIN inbound : Stored(inbound[i])
            Working == agent.req # NoRequest => Stored(agent.req)
            Answered == \A i \in DOMAIN outbound : Stored(outbound[i].req)
            Handled == consumer.pc # "idle" => Stored(consumer.event.req)
<1>1. Sent /\ Queued /\ Working /\ Answered /\ Handled
  BY DEF EventsAreStored
<1>2. Sent' /\ Queued' /\ Working' /\ Answered' /\ Handled' => EventsAreStored'
  BY DEF EventsAreStored
<1>3. /\ UNCHANGED send => Sent'
      /\ UNCHANGED inbound => Queued'
      /\ UNCHANGED agent => Working'
      /\ UNCHANGED outbound => Answered'
      /\ UNCHANGED consumer => Handled'
  BY <1>0, <1>1
<1>4. ASSUME NEW c \in Calls, NEW r \in Requests, StoreRequest(c, r) PROVE EventsAreStored'
  <2>1. Stored(r)'
    <3>1. CASE Stored(r)
      BY <1>0, <3>1
    <3>2. CASE ~Stored(r)
      <4>1. Row("user", r, {}) \in Message /\ messages' = Append(messages, Row("user", r, {}))
        BY <1>4, <3>2 DEF StoreRequest, Row, Message
      <4>2. Row("user", r, {}).kind = "user" /\ Row("user", r, {}).req = r
        BY DEF Row
      <4>3. QED
        BY <4>1, <4>2, StoredAppended DEF TypeOK
    <3>3. QED
      BY <3>1, <3>2
  <2>2. Sent'
    BY <1>0, <1>1, <1>4, <2>1 DEF StoreRequest, TypeOK
  <2>3. QED
    BY <1>2, <1>3, <1>4, <2>2 DEF StoreRequest
<1>5. ASSUME NEW c \in Calls, ClearStatus(c) PROVE EventsAreStored'
  <2>1. Sent'
    BY <1>0, <1>1, <1>5 DEF ClearStatus, TypeOK
  <2>2. QED
    BY <1>2, <1>3, <1>5, <2>1 DEF ClearStatus
<1>6. ASSUME NEW c \in Calls, PublishInbound(c) \/ PublishFails(c) PROVE EventsAreStored'
  <2>1. send[c].pc = "cleared" /\ send' = [send EXCEPT ![c].pc = "done"]
        /\ UNCHANGED <<agent, outbound, consumer>>
    BY <1>6 DEF PublishInbound, PublishFails
  <2>2. UNCHANGED inbound \/ inbound' = Append(inbound, send[c].req)
    BY <1>6 DEF PublishInbound, PublishFails
  <2>3. Stored(send[c].req) /\ send[c].req \in Requests
    BY <1>1, <2>1 DEF TypeOK
  <2>4. Queued'
    <3>1. CASE UNCHANGED inbound
      BY <1>3, <3>1
    <3>2. CASE inbound' = Append(inbound, send[c].req)
      <4>1. \A i \in DOMAIN inbound' : inbound'[i] = send[c].req \/ (i \in DOMAIN inbound /\ inbound'[i] = inbound[i])
        BY <2>3, <3>2 DEF TypeOK
      <4>2. QED
        BY <1>0, <1>1, <2>3, <4>1
    <3>3. QED
      BY <2>2, <3>1, <3>2
  <2>5. Sent'
    BY <1>0, <1>1, <2>1 DEF TypeOK
  <2>6. QED
    BY <1>2, <1>3, <2>1, <2>4, <2>5
<1>7. CASE AgentTakes
  <2>1. inbound # <<>> /\ inbound' = Tail(inbound)
    BY <1>7 DEF AgentTakes
  <2>2. Head(inbound) = inbound[1] /\ 1 \in DOMAIN inbound
    BY <2>1 DEF TypeOK
  <2>3. \A i \in DOMAIN inbound' : i + 1 \in DOMAIN inbound /\ inbound'[i] = inbound[i + 1]
    BY <2>1 DEF TypeOK
  <2>4. Queued'
    BY <1>0, <1>1, <2>3
  <2>5. Working'
    BY <1>0, <1>1, <1>7, <2>2 DEF AgentTakes
  <2>6. QED
    BY <1>2, <1>3, <1>7, <2>4, <2>5 DEF AgentTakes
<1>8. ASSUME AgentReports \/ AgentReplies PROVE EventsAreStored'
  <2>1. agent.req # NoRequest /\ agent'.req \in {agent.req, NoRequest}
        /\ UNCHANGED <<inbound, send, consumer>>
    BY <1>8 DEF AgentReports, AgentReplies, TypeOK
  <2>2. PICK e : e.req = agent.req /\ outbound' = Append(outbound, e)
    BY <1>8 DEF AgentReports, AgentReplies
  <2>3. \A i \in DOMAIN outbound' : outbound'[i] = e \/ (i \in DOMAIN outbound /\ outbound'[i] = outbound[i])
    BY <2>2 DEF TypeOK
  <2>4. Answered'
    BY <1>0, <1>1, <2>1, <2>2, <2>3
  <2>5. Working'
    BY <1>0, <1>1, <2>1
  <2>6. QED
    BY <1>2, <1>3, <2>1, <2>4, <2>5
<1>9. ASSUME TakeStatus \/ TakeReply PROVE EventsAreStored'
  <2>1. /\ outbound # <<>> /\ outbound' = Tail(outbound) /\ UNCHANGED <<inbound, send, agent>>
        /\ consumer'.event = Head(outbound)
    BY <1>9 DEF TakeStatus, TakeReply
  <2>2. Head(outbound) = outbound[1] /\ 1 \in DOMAIN outbound
    BY <2>1 DEF TypeOK
  <2>3. \A i \in DOMAIN outbound' : i + 1 \in DOMAIN outbound /\ outbound'[i] = outbound[i + 1]
    BY <2>1 DEF TypeOK
  <2>4. Answered' /\ Handled'
    BY <1>0, <1>1, <2>1, <2>2, <2>3
  <2>5. QED
    BY <1>2, <1>3, <2>1, <2>4
<1>10. ASSUME MergeStatus \/ StoreReply PROVE EventsAreStored'
  <2>1. Handled'
    BY <1>10 DEF MergeStatus, StoreReply, IdleConsumer
  <2>2. QED
    BY <1>2, <1>3, <1>10, <2>1 DEF MergeStatus, StoreReply
<1>11. CASE ReadStatus
  <2>1. consumer.pc # "idle" /\ consumer'.event = consumer.event
    BY <1>11 DEF ReadStatus, TypeOK
  <2>2. QED
    BY <1>0, <1>1, <1>2, <1>3, <1>11, <2>1 DEF ReadStatus
<1>12. CASE UNCHANGED <<inbound, agent, outbound, send, consumer>>
  BY <1>2, <1>3, <1>12
<1>13. QED
  BY <1>4, <1>5, <1>6, <1>7, <1>8, <1>9, <1>10, <1>11, <1>12 DEF Next, SendStep, AgentStep,
     ConsumerStep, StatusExpires, LoadForRead, CommitRead, vars

LEMMA AnswersStep ==
  TypeOK /\ EventsAreStored /\ AnswersFollowRequest /\ [Next]_vars => AnswersFollowRequest'
<1>. SUFFICES ASSUME TypeOK, EventsAreStored, AnswersFollowRequest, [Next]_vars
              PROVE  AnswersFollowRequest'
  OBVIOUS
<1>1. CASE UNCHANGED messages
  BY <1>1 DEF AnswersFollowRequest, Rows
<1>2. ASSUME NEW m, NewRow(m) PROVE AnswersFollowRequest'
  <2>1. /\ DOMAIN messages = 1..Len(messages) /\ Len(messages) \in Nat
        /\ \A i \in DOMAIN messages : messages'[i] = messages[i]
        /\ messages'[Len(messages) + 1] = m
    BY <1>2, AppendFacts DEF NewRow, TypeOK
  <2>2. \A kind : Rows(kind)' = IF m.kind = kind THEN Rows(kind) \cup {Len(messages) + 1} ELSE Rows(kind)
    BY <1>2, RowsAppended DEF NewRow, TypeOK
  <2>3. \A kind : Rows(kind) \subseteq 1..Len(messages)
    BY <2>1 DEF Rows
  <2>4. m.kind # "user" => Stored(m.req)
    BY <1>2 DEF NewRow, EventsAreStored
  <2>. SUFFICES ASSUME NEW i \in (Rows("reply") \cup Rows("failed"))'
                PROVE  \E j \in Rows("user")' : j < i /\ messages'[j].req = messages'[i].req
    BY DEF AnswersFollowRequest
  <2>5. CASE i \in 1..Len(messages)
    <3>1. i \in Rows("reply") \cup Rows("failed")
      BY <2>1, <2>2, <2>5
    <3>2. PICK j \in Rows("user") : j < i /\ messages[j].req = messages[i].req
      BY <3>1 DEF AnswersFollowRequest
    <3>3. QED
      BY <2>1, <2>2, <2>3, <2>5, <3>2
  <2>6. CASE i \notin 1..Len(messages)
    <3>1. i = Len(messages) + 1 /\ m.kind # "user"
      BY <2>2, <2>3, <2>6
    <3>2. PICK j \in Rows("user") : messages[j].req = m.req
      BY <2>4, <3>1 DEF Stored
    <3>3. j \in 1..Len(messages) /\ j \in Rows("user")'
      BY <2>2, <2>3, <3>2
    <3>4. QED
      BY <2>1, <3>1, <3>2, <3>3
  <2>7. QED
    BY <2>5, <2>6
<1>3. QED
  BY <1>1, <1>2, MessagesStep

-----------------------------------------------------------------------------
\* What concerns the count: no step but StoreReply adds a reply, and no step but
\* CommitRead clears.
Latest(d) == \A e \in Reads : read[d].cleared >= read[e].cleared

Counted ==
  /\ NoReplyUncounted /\ UnreadWithinReplies /\ LoadedIsCurrent
  /\ \A d \in Reads : read[d].cleared <= Replies

LEMMA CountStep == TypeOK /\ Counted /\ [Next]_vars => Counted'
<1>. SUFFICES ASSUME TypeOK, Counted, [Next]_vars PROVE Counted'
  OBVIOUS
<1>0. /\ Replies \in Nat /\ unread \in Nat /\ unread <= Replies
      /\ \A d \in Reads : read[d].cleared \in Nat /\ read[d].cleared <= Replies
      /\ \A d \in Reads : Latest(d) => unread >= Replies - read[d].cleared
      /\ consumer.pc \in {"loaded", "read"} =>
           /\ consumer.loaded \in Nat /\ consumer.loaded <= Replies
           /\ \A d \in Reads : Latest(d) => consumer.loaded >= Replies - read[d].cleared
  <2>1. Replies \in Nat
    BY RowsAreFinite DEF Replies, TypeOK
  <2>2. QED
    BY <2>1 DEF TypeOK, Counted, NoReplyUncounted, UnreadWithinReplies, LoadedIsCurrent, Latest
<1>1. ASSUME UNCHANGED <<Replies, unread, consumer, read>> PROVE Counted'
  BY <1>1 DEF Counted, NoReplyUncounted, UnreadWithinReplies, LoadedIsCurrent
<1>2. ASSUME UNCHANGED messages PROVE UNCHANGED Replies
  BY <1>2 DEF Replies, Rows
<1>3. ASSUME NEW c \in Calls, NEW r \in Requests, StoreRequest(c, r) PROVE Counted'
  <2>1. UNCHANGED Replies
    <3>1. CASE Stored(r)
      BY <1>2, <1>3, <3>1 DEF StoreRequest
    <3>2. CASE ~Stored(r)
      <4>1. messages' = Append(messages, Row("user", r, {})) /\ Row("user", r, {}) \in Message
            /\ Row("user", r, {}).kind # "reply"
        BY <1>3, <3>2 DEF StoreRequest, Row, Message
      <4>2. QED
        BY <4>1, RepliesAppended DEF TypeOK
    <3>3. QED
      BY <3>1, <3>2
  <2>2. QED
    BY <1>1, <1>3, <2>1 DEF StoreRequest
<1>4. ASSUME NEW c \in Calls, PublishFails(c) PROVE Counted'
  <2>1. messages' = Append(messages, Row("failed", send[c].req, {}))
        /\ Row("failed", send[c].req, {}) \in Message /\ Row("failed", send[c].req, {}).kind # "reply"
    BY <1>4 DEF PublishFails, TypeOK, Row, Message
  <2>2. UNCHANGED Replies
    BY <2>1, RepliesAppended DEF TypeOK
  <2>3. QED
    BY <1>1, <1>4, <2>2 DEF PublishFails
<1>5. CASE StoreReply
  <2>1. messages' = Append(messages, Row("reply", consumer.event.req, consumer.status))
        /\ Row("reply", consumer.event.req, consumer.status) \in Message
        /\ Row("reply", consumer.event.req, consumer.status).kind = "reply"
    BY <1>5 DEF StoreReply, TypeOK, ReplyEvent, Row, Message
  <2>2. Replies' = Replies + 1
    BY <2>1, RepliesAppended DEF TypeOK
  <2>3. unread' = consumer.loaded + 1 /\ consumer.pc = "read" /\ consumer'.pc = "idle" /\ read' = read
    BY <1>5 DEF StoreReply, IdleConsumer
  <2>4. UnreadWithinReplies'
    BY <1>0, <2>2, <2>3 DEF UnreadWithinReplies
  <2>5. NoReplyUncounted'
    <3>. SUFFICES ASSUME NEW d \in Reads, Latest(d) PROVE unread' >= Replies' - read[d].cleared
      BY <2>3 DEF NoReplyUncounted, Latest
    <3>1. consumer.loaded >= Replies - read[d].cleared
      BY <1>0, <2>3
    <3>2. QED
      BY <1>0, <2>2, <2>3, <3>1
  <2>6. LoadedIsCurrent'
    BY <2>3 DEF LoadedIsCurrent
  <2>7. \A d \in Reads : read'[d].cleared <= Replies'
    BY <1>0, <2>2, <2>3
  <2>8. QED
    BY <2>4, <2>5, <2>6, <2>7 DEF Counted
<1>6. ASSUME TakeStatus \/ MergeStatus PROVE Counted'
  <2>1. UNCHANGED <<messages, unread, read>> /\ consumer'.pc \in {"merging", "idle"}
    BY <1>6 DEF TakeStatus, MergeStatus, IdleConsumer
  <2>2. QED
    BY <1>2, <2>1 DEF Counted, NoReplyUncounted, UnreadWithinReplies, LoadedIsCurrent
<1>7. CASE TakeReply
  <2>1. UNCHANGED <<messages, unread, read>> /\ consumer'.loaded = unread
    BY <1>7 DEF TakeReply
  <2>2. QED
    BY <1>0, <1>2, <2>1 DEF Counted, NoReplyUncounted, UnreadWithinReplies, LoadedIsCurrent, Latest
<1>8. CASE ReadStatus
  <2>1. UNCHANGED <<messages, unread, read>> /\ consumer.pc = "loaded"
        /\ consumer'.loaded = consumer.loaded
    BY <1>8 DEF ReadStatus, TypeOK
  <2>2. QED
    BY <1>0, <1>2, <2>1 DEF Counted, NoReplyUncounted, UnreadWithinReplies, LoadedIsCurrent, Latest
<1>9. ASSUME NEW d \in Reads, LoadForRead(d) PROVE Counted'
  <2>1. UNCHANGED <<messages, unread, consumer>> /\ \A e \in Reads : read'[e].cleared = read[e].cleared
    BY <1>9 DEF LoadForRead, TypeOK
  <2>2. QED
    BY <1>2, <2>1 DEF Counted, NoReplyUncounted, UnreadWithinReplies, LoadedIsCurrent
<1>10. ASSUME NEW d \in Reads, CommitRead(d) PROVE Counted'
  <2>1. /\ UNCHANGED <<messages, consumer>> /\ unread' \in {unread, 0}
        /\ \A e \in Reads : read'[e].cleared = IF e = d THEN Replies ELSE read[e].cleared
    BY <1>10 DEF CommitRead, TypeOK
  <2>2. UNCHANGED Replies
    BY <1>2, <2>1
  <2>3. UnreadWithinReplies'
    BY <1>0, <2>1, <2>2 DEF UnreadWithinReplies
  <2>4. \A e \in Reads : read'[e].cleared <= Replies'
    BY <1>0, <2>1, <2>2
  <2>5. ASSUME NEW x \in Reads, \A e \in Reads : read'[x].cleared >= read'[e].cleared
        PROVE  Replies' - read'[x].cleared = 0
    <3>1. read'[x].cleared >= Replies /\ read'[x].cleared <= Replies /\ read'[x].cleared \in Nat
      BY <1>0, <2>1, <2>5
    <3>2. QED
      BY <1>0, <2>2, <3>1
  <2>6. NoReplyUncounted'
    BY <1>0, <2>1, <2>5 DEF NoReplyUncounted
  <2>7. LoadedIsCurrent'
    BY <1>0, <2>1, <2>2, <2>5 DEF LoadedIsCurrent
  <2>8. QED
    BY <2>3, <2>4, <2>6, <2>7 DEF Counted
<1>11. CASE UNCHANGED <<messages, unread, consumer, read>>
  BY <1>1, <1>2, <1>11
<1>12. QED
  BY <1>3, <1>4, <1>5, <1>6, <1>7, <1>8, <1>9, <1>10, <1>11 DEF Next, SendStep, AgentStep,
     ConsumerStep, ClearStatus, PublishInbound, AgentTakes, AgentReports, AgentReplies,
     StatusExpires, vars

-----------------------------------------------------------------------------
LEMMA InvInit == Init => IInv
<1>. SUFFICES ASSUME Init PROVE IInv
  OBVIOUS
<1>1. TypeOK
  BY TypeInit
<1>2. \A kind : Rows(kind) = {}
  BY DEF Init, Rows
<1>3. Replies = 0
  BY <1>2, FS_EmptySet DEF Replies
<1>4. AnswersFollowRequest
  BY <1>2 DEF AnswersFollowRequest
<1>5. EventsAreStored
  BY DEF Init, EventsAreStored, IdleConsumer
<1>6. NoReplyUncounted /\ UnreadWithinReplies /\ LoadedIsCurrent
      /\ \A d \in Reads : read[d].cleared <= Replies
  BY <1>3 DEF Init, NoReplyUncounted, UnreadWithinReplies, LoadedIsCurrent, IdleConsumer
<1>7. QED
  BY <1>1, <1>4, <1>5, <1>6 DEF IInv

LEMMA InvStep == IInv /\ [Next]_vars => IInv'
  BY TypeStep, EventsStep, AnswersStep, CountStep DEF IInv, Counted

\* The parts of IInv hold together in every state.
THEOREM Invariant == Spec => []IInv
<1>1. QED
  BY InvInit, InvStep, PTL DEF Spec

\* Every variable holds a value the program can give it.
THEOREM TypeCorrect == Spec => []TypeOK
<1>1. IInv => TypeOK
  BY DEF IInv
<1>2. QED
  BY <1>1, Invariant, PTL

\* Whatever is lost, repeated or late: no answer precedes its request.
THEOREM RequestsComeFirst == Spec => []AnswersFollowRequest
<1>1. IInv => AnswersFollowRequest
  BY DEF IInv
<1>2. QED
  BY <1>1, Invariant, PTL

\* However the handler of replies and any number of mark_reads interleave, a reply
\* stored after the last of them is in the count.
THEOREM NewRepliesCount == Spec => []NoReplyUncounted
<1>1. IInv => NoReplyUncounted
  BY DEF IInv
<1>2. QED
  BY <1>1, Invariant, PTL

\* The count never exceeds the replies there are.
THEOREM OnlyRepliesCount == Spec => []UnreadWithinReplies
<1>1. IInv => UnreadWithinReplies
  BY DEF IInv
<1>2. QED
  BY <1>1, Invariant, PTL

-----------------------------------------------------------------------------
(* The status of a reply, for a user who waits for the answer and a cache  *)
(* that neither fails nor expires.                                         *)

Reliable == Patient /\ "redis" \notin Faults /\ "expiry" \notin Faults

LEMMA ReportedNext ==
  ASSUME NEW r, NEW k \in Nat, k > 0
  PROVE  Reported(r, k - 1) \cup {<<r, k>>} = Reported(r, k)
<1>1. 1..k = 1..(k - 1) \cup {k}
  OBVIOUS
<1>2. QED
  BY <1>1 DEF Reported

\* What is under way needs no other than the round itself.
LEMMA RoundFacts ==
  ASSUME TypeOK, RoundInv, Answering
  PROVE  /\ Sending = {} /\ inbound = <<>>
         /\ \E r \in Requests, n \in 0..MaxProgress :
                \E k \in 0..n : RoundAt(r, n, k)
BY DEF RoundInv

\* A step of the round, or of what precedes it, that leaves the calls alone.
LEMMA RoundGoesOn ==
  ASSUME TypeOK, RoundInv, Answering, UNCHANGED <<send, inbound>>,
         NEW r \in Requests, NEW n \in 0..MaxProgress, NEW k \in 0..n,
         Answering' => RoundAt(r, n, k)'
  PROVE  RoundInv'
BY RoundFacts DEF RoundInv, Sending

LEMMA SendRound ==
  ASSUME Reliable, TypeOK, RoundInv,
         NEW c \in Calls, SendStep(c) \/ \E r \in Requests : StoreRequest(c, r)
  PROVE  RoundInv'
<1>1. UNCHANGED <<agent, outbound, consumer>> /\ (Answering' <=> Answering)
  BY DEF SendStep, StoreRequest, ClearStatus, PublishInbound, PublishFails, Answering
<1>2. CASE \E r \in Requests : StoreRequest(c, r)
  <2>1. PICK r \in Requests : StoreRequest(c, r)
    BY <1>2
  <2>2. Sending = {} /\ inbound = <<>> /\ ~Answering
    BY <2>1 DEF Reliable, StoreRequest, RoundOpen, Sending, Answering
  <2>3. send' = [send EXCEPT ![c] = [pc |-> "stored", req |-> r]] /\ UNCHANGED inbound
    BY <2>1 DEF StoreRequest
  <2>4. Sending' \subseteq {c} /\ \A d \in Sending' : send'[d].pc # "cleared"
    BY <2>2, <2>3 DEF Sending, TypeOK
  <2>5. QED
    BY <1>1, <2>2, <2>3, <2>4 DEF RoundInv
<1>3. CASE SendStep(c)
  <2>1. c \in Sending
    BY <1>3 DEF SendStep, ClearStatus, PublishInbound, PublishFails, Sending
  <2>2. Sending = {c} /\ inbound = <<>> /\ ~Answering
    BY <2>1 DEF RoundInv
  <2>3. CASE ClearStatus(c)
    <3>1. cache' = {} /\ send' = [send EXCEPT ![c].pc = "cleared"] /\ UNCHANGED inbound
      BY <2>3 DEF ClearStatus, Reliable
    <3>2. Sending' \subseteq {c}
      BY <2>2, <3>1 DEF Sending, TypeOK
    <3>3. QED
      BY <1>1, <2>2, <3>1, <3>2 DEF RoundInv
  <2>4. CASE PublishInbound(c) \/ PublishFails(c)
    <3>1. /\ send[c].pc = "cleared" /\ send' = [send EXCEPT ![c].pc = "done"]
          /\ UNCHANGED cache /\ inbound' \in {inbound, Append(inbound, send[c].req)}
      BY <2>4 DEF PublishInbound, PublishFails
    <3>2. Sending' = {}
      BY <2>2, <3>1 DEF Sending, TypeOK
    <3>3. cache' = {}
      BY <2>1, <3>1 DEF RoundInv
    <3>4. inbound' # <<>> => Len(inbound') = 1
      BY <2>2, <3>1
    <3>5. QED
      BY <1>1, <2>2, <3>2, <3>3, <3>4 DEF RoundInv
  <2>5. QED
    BY <1>3, <2>3, <2>4 DEF SendStep
<1>4. QED
  BY <1>2, <1>3

LEMMA AgentRound ==
  ASSUME Reliable, TypeOK, RoundInv, AgentStep
  PROVE  RoundInv'
<1>1. CASE AgentTakes
  <2>1. /\ inbound # <<>> /\ Len(inbound) = 1 /\ cache = {} /\ ~Answering /\ Sending = {}
    BY <1>1 DEF AgentTakes, RoundInv
  <2>2. PICK r \in Requests : r = Head(inbound)
    BY <2>1 DEF TypeOK
  <2>3. inbound' = <<>>
    BY <1>1, <2>1 DEF AgentTakes, TypeOK
  <2>4. /\ agent' = [req |-> r, sent |-> 0]
        /\ UNCHANGED <<cache, outbound, send, consumer>>
        /\ outbound' = <<>> /\ consumer'.pc = "idle" /\ cache' = {}
    BY <1>1, <2>1, <2>2 DEF AgentTakes, Answering
  <2>5. Reported(r, 0) = {} /\ 0 - 0 = 0 /\ 1..0 = {} /\ Len(<<>>) = 0
    BY DEF Reported
  <2>6. RoundAt(r, 0, 0)'
    BY <2>4, <2>5 DEF RoundAt
  <2>7. 0 \in 0..MaxProgress /\ 0 \in 0..0
    BY ConversationAssumption
  <2>8. Sending' = {}
    BY <2>1, <2>4 DEF Sending
  <2>9. \E q \in Requests, n \in 0..MaxProgress : \E k \in 0..n : RoundAt(q, n, k)'
    BY <2>6, <2>7
  <2>10. QED
    BY <2>3, <2>8, <2>9 DEF RoundInv
<1>2. CASE AgentReports \/ AgentReplies
  <2>1. /\ agent.req # NoRequest /\ Answering /\ UNCHANGED <<cache, inbound, send, consumer>>
    BY <1>2 DEF AgentReports, AgentReplies, Answering
  <2>2. PICK r \in Requests, n \in 0..MaxProgress : \E k \in 0..n : RoundAt(r, n, k)
    BY <2>1, RoundFacts
  <2>3. PICK k \in 0..n : RoundAt(r, n, k)
    BY <2>2
  <2>4. /\ consumer.pc \in {"idle", "merging"} /\ agent = [req |-> r, sent |-> n]
        /\ Len(outbound) = n - k
        /\ \A i \in 1..(n - k) : outbound[i] = EventOf("status", r, k + i)
    BY <2>1, <2>3 DEF RoundAt, TypeOK
  <2>5. n \in Nat /\ k \in Nat /\ k <= n /\ outbound \in Seq(Event)
    BY ConversationAssumption DEF TypeOK
  <2>6. CASE AgentReports
    <3>1. /\ agent' = [req |-> r, sent |-> n + 1] /\ n + 1 \in 0..MaxProgress /\ k \in 0..(n + 1)
          /\ outbound' = Append(outbound, EventOf("status", r, n + 1))
      BY <2>4, <2>5, <2>6, ConversationAssumption DEF AgentReports, EventOf
    <3>2. EventOf("status", r, n + 1) \in Event
      BY <2>5, <3>1, ConversationAssumption DEF EventOf, Event, StatusEvent
    <3>3. /\ Len(outbound') = (n + 1) - k
          /\ \A i \in 1..((n + 1) - k) : outbound'[i] = EventOf("status", r, k + i)
      <4>1. Len(outbound') = (n + 1) - k /\ outbound'[(n + 1) - k] = EventOf("status", r, n + 1)
        BY <2>4, <2>5, <3>1, <3>2
      <4>2. \A i \in 1..(n - k) : outbound'[i] = outbound[i]
        BY <2>4, <2>5, <3>1, <3>2
      <4>3. k + ((n + 1) - k) = n + 1
        BY <2>5
      <4>4. \A i \in 1..((n + 1) - k) : i \in 1..(n - k) \/ i = (n + 1) - k
        BY <2>5
      <4>5. QED
        BY <2>4, <4>1, <4>2, <4>3, <4>4
    <3>4. RoundAt(r, n + 1, k)'
      BY <2>1, <2>3, <2>4, <3>1, <3>3 DEF RoundAt
    <3>5. QED
      BY <2>1, <3>1, <3>4, RoundGoesOn
  <2>7. CASE AgentReplies
    <3>1. /\ agent'.req = NoRequest /\ outbound' = Append(outbound, EventOf("reply", r, n))
      BY <2>4, <2>7 DEF AgentReplies, EventOf, TypeOK
    <3>2. EventOf("reply", r, n) \in Event
      BY DEF EventOf, Event, ReplyEvent
    <3>3. /\ Len(outbound') = n - k + 1 /\ outbound'[n - k + 1] = EventOf("reply", r, n)
          /\ \A i \in 1..(n - k) : outbound'[i] = outbound[i]
      BY <2>4, <2>5, <3>1, <3>2
    <3>4. RoundAt(r, n, k)'
      BY <2>1, <2>3, <2>4, <3>1, <3>3 DEF RoundAt
    <3>5. QED
      BY <2>1, <3>4, RoundGoesOn
  <2>8. QED
    BY <1>2, <2>6, <2>7
<1>3. QED
  BY <1>1, <1>2 DEF AgentStep

\* The handler takes the next event of the round.
LEMMA TakeRound ==
  ASSUME Reliable, TypeOK, RoundInv, TakeStatus \/ TakeReply
  PROVE  RoundInv'
<1>1. /\ consumer.pc = "idle" /\ outbound # <<>> /\ outbound' = Tail(outbound) /\ Answering
      /\ UNCHANGED <<cache, inbound, agent, send>>
  BY DEF TakeStatus, TakeReply, Answering
<1>2. PICK r \in Requests, n \in 0..MaxProgress : \E k \in 0..n : RoundAt(r, n, k)
  BY <1>1, RoundFacts
<1>3. PICK k \in 0..n : RoundAt(r, n, k)
  BY <1>2
<1>4. n \in Nat /\ k \in Nat /\ k <= n /\ outbound \in Seq(Event)
  BY ConversationAssumption DEF TypeOK
<1>5. /\ \A i \in 1..(n - k) : outbound[i] = EventOf("status", r, k + i)
      /\ \/ agent = [req |-> r, sent |-> n] /\ Len(outbound) = n - k
         \/ /\ agent.req = NoRequest /\ Len(outbound) = n - k + 1
            /\ outbound[n - k + 1] = EventOf("reply", r, n)
      /\ cache = Reported(r, k)
  BY <1>1, <1>3 DEF RoundAt
<1>6. /\ Head(outbound) = outbound[1] /\ Len(outbound') = Len(outbound) - 1
      /\ \A i \in 1..(Len(outbound) - 1) : outbound'[i] = outbound[i + 1]
      /\ Len(outbound) \in Nat
  BY <1>1, <1>4
<1>7. CASE k < n
  <2>1. outbound[1] = EventOf("status", r, k + 1)
    BY <1>4, <1>5, <1>7
  <2>2. TakeStatus
    BY <1>6, <2>1 DEF TakeReply, EventOf
  <2>3. consumer' = [pc |-> "merging", event |-> EventOf("status", r, k + 1),
                     status |-> cache, loaded |-> 0]
    BY <1>6, <2>1, <2>2 DEF TakeStatus, Reliable
  <2>4. k + 1 \in 0..n /\ (k + 1) - 1 = k
    BY <1>4, <1>7
  <2>5. \A i \in 1..(n - (k + 1)) : /\ i + 1 \in 1..(n - k) /\ k + (i + 1) = (k + 1) + i
                                    /\ i \in 1..(Len(outbound) - 1)
    BY <1>4, <1>5, <1>7
  <2>6. \A i \in 1..(n - (k + 1)) : outbound'[i] = EventOf("status", r, (k + 1) + i)
    BY <1>5, <1>6, <2>5
  <2>7. \/ agent' = [req |-> r, sent |-> n] /\ Len(outbound') = n - (k + 1)
        \/ /\ agent'.req = NoRequest /\ Len(outbound') = n - (k + 1) + 1
           /\ outbound'[n - (k + 1) + 1] = EventOf("reply", r, n)
    <3>1. CASE agent = [req |-> r, sent |-> n] /\ Len(outbound) = n - k
      BY <1>1, <1>4, <1>6, <3>1
    <3>2. CASE /\ agent.req = NoRequest /\ Len(outbound) = n - k + 1
               /\ outbound[n - k + 1] = EventOf("reply", r, n)
      <4>1. n - k \in 1..(Len(outbound) - 1) /\ n - (k + 1) + 1 = n - k
        BY <1>4, <1>7, <3>2
      <4>2. QED
        BY <1>1, <1>4, <1>6, <3>2, <4>1
    <3>3. QED
      BY <1>5, <3>1, <3>2
  <2>8. RoundAt(r, n, k + 1)'
    BY <1>1, <1>4, <1>5, <2>3, <2>4, <2>6, <2>7 DEF RoundAt
  <2>9. QED
    BY <1>1, <2>4, <2>8, RoundGoesOn
<1>8. CASE ~(k < n)
  <2>1. k = n
    BY <1>4, <1>8
  <2>2. /\ agent.req = NoRequest /\ Len(outbound) = 1 /\ outbound[1] = EventOf("reply", r, n)
    BY <1>1, <1>4, <1>5, <2>1
  <2>3. TakeReply
    BY <1>6, <2>2 DEF TakeStatus, EventOf
  <2>4. consumer' = [pc |-> "loaded", event |-> EventOf("reply", r, n),
                     status |-> {}, loaded |-> unread]
    BY <1>6, <2>2, <2>3 DEF TakeReply
  <2>5. outbound' = <<>>
    BY <1>1, <1>4, <2>2
  <2>6. RoundAt(r, n, k)'
    BY <1>1, <1>5, <2>1, <2>2, <2>4, <2>5 DEF RoundAt
  <2>7. QED
    BY <1>1, <2>6, RoundGoesOn
<1>9. QED
  BY <1>7, <1>8

\* The handler goes on with the event it has.
LEMMA HandleRound ==
  ASSUME Reliable, TypeOK, RoundInv, MergeStatus \/ ReadStatus \/ StoreReply
  PROVE  RoundInv'
<1>1. /\ consumer.pc # "idle" /\ Answering /\ UNCHANGED <<inbound, agent, outbound, send>>
  BY DEF MergeStatus, ReadStatus, StoreReply, Answering
<1>2. PICK r \in Requests, n \in 0..MaxProgress : \E k \in 0..n : RoundAt(r, n, k)
  BY <1>1, RoundFacts
<1>3. PICK k \in 0..n : RoundAt(r, n, k)
  BY <1>2
<1>4. n \in Nat /\ k \in Nat
  BY ConversationAssumption
<1>5. CASE MergeStatus
  <2>1. /\ consumer.pc = "merging" /\ k > 0 /\ consumer.event = EventOf("status", r, k)
        /\ consumer.status = Reported(r, k - 1)
    BY <1>3, <1>5 DEF MergeStatus, RoundAt
  <2>2. cache' = consumer.status \cup {<<r, k>>} /\ consumer'.pc = "idle"
    BY <1>5, <2>1 DEF MergeStatus, Reliable, EventOf, IdleConsumer
  <2>3. cache' = Reported(r, k)
    BY <1>4, <2>1, <2>2, ReportedNext
  <2>4. RoundAt(r, n, k)'
    BY <1>1, <1>3, <2>1, <2>2, <2>3 DEF RoundAt
  <2>5. QED
    BY <1>1, <2>4, RoundGoesOn
<1>6. CASE ReadStatus
  <2>1. consumer.pc = "loaded" /\ UNCHANGED cache
        /\ consumer' = [consumer EXCEPT !.pc = "read", !.status = cache]
    BY <1>6 DEF ReadStatus, Reliable
  <2>2. consumer'.pc = "read" /\ consumer'.status = cache /\ consumer'.event = consumer.event
    BY <2>1 DEF TypeOK
  <2>3. RoundAt(r, n, k)'
    BY <1>1, <1>3, <2>1, <2>2 DEF RoundAt
  <2>4. QED
    BY <1>1, <2>3, RoundGoesOn
<1>7. CASE StoreReply
  <2>1. agent.req = NoRequest /\ outbound = <<>> /\ consumer'.pc = "idle"
    BY <1>3, <1>7 DEF StoreReply, RoundAt, IdleConsumer
  <2>2. ~Answering'
    BY <1>1, <2>1 DEF Answering
  <2>3. QED
    BY <1>1, <2>2, RoundGoesOn
<1>8. QED
  BY <1>5, <1>6, <1>7

LEMMA RoundStep == Reliable /\ TypeOK /\ RoundInv /\ [Next]_vars => RoundInv'
<1>. SUFFICES ASSUME Reliable, TypeOK, RoundInv, [Next]_vars PROVE RoundInv'
  OBVIOUS
<1>1. CASE UNCHANGED <<cache, inbound, agent, outbound, send, consumer>>
  BY <1>1 DEF RoundInv, Sending, Answering, RoundAt
<1>2. (\E d \in Reads : LoadForRead(d) \/ CommitRead(d)) \/ UNCHANGED vars
        => UNCHANGED <<cache, inbound, agent, outbound, send, consumer>>
  BY DEF LoadForRead, CommitRead, vars
<1>3. ~StatusExpires
  BY DEF StatusExpires, Reliable
<1>4. QED
  BY <1>1, <1>2, <1>3, SendRound, AgentRound, TakeRound, HandleRound DEF Next, ConsumerStep

\* Of a user who waits for the answer, whatever the inbound topic loses or doubles, a
\* reply is stored with every progress event of its round, and no other, as long as
\* the cache neither fails nor expires.
THEOREM StatusIsExact ==
  ASSUME Patient, "redis" \notin Faults, "expiry" \notin Faults
  PROVE  Spec => []ProgressExact
<1>1. Reliable
  BY DEF Reliable
<1>2. Init => RoundInv
  BY DEF Init, RoundInv, Sending, Answering, IdleConsumer
<1>3. TypeOK /\ RoundInv => ProgressExact
  <2>. SUFFICES ASSUME RoundInv, consumer.pc = "read"
                PROVE  consumer.status = {consumer.event.req} \X (1..consumer.event.n)
    BY DEF ProgressExact
  <2>1. PICK r \in Requests, n \in 0..MaxProgress : \E k \in 0..n : RoundAt(r, n, k)
    BY DEF RoundInv, Answering
  <2>2. consumer.event = EventOf("reply", r, n) /\ consumer.status = Reported(r, n)
    BY <2>1 DEF RoundAt
  <2>3. QED
    BY <2>2 DEF EventOf, Reported
<1>4. TypeOK /\ RoundInv /\ [Next]_vars => RoundInv'
  BY <1>1, RoundStep
<1>5. QED
  BY <1>2, <1>3, <1>4, TypeCorrect, PTL DEF Spec
=============================================================================
