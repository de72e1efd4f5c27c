------------------------- MODULE KafkaChannelProofs -------------------------
(***************************************************************************)
(* Proofs about KafkaChannel, for any number of records, faults and        *)
(* attempts: the types, the order of the outbound topic, and that no reply *)
(* is given up unless the broker fails.                                    *)
(***************************************************************************)
EXTENDS KafkaChannel, FiniteSetTheorems, TLAPS

-----------------------------------------------------------------------------
(* What the operators that send a coroutine on do to its record.           *)

\* A step inside an operation: the coroutine stays with its message, or is
\* through with it, and is never less far than it was.
Follows(c, r, n) ==
    /\ n \in CoroutineStates /\ PathFits(c, n)
    /\ Busy(n) => Busy(r) /\ n.msg = r.msg
    /\ Untried(n) => Untried(r)
    /\ TriedOnce(n) => TriedOnce(r)
    /\ c = "receiver" => (Handling(n) <=> Handling(r))

\* A new operation's record.
LEMMA CoroutineFits ==
    ASSUME NEW pc \in Awaits \cup Running, NEW then \in {"none", "start", "loop", "send", "resend"}
    PROVE  Coroutine(pc, then) \in CoroutineStates
BY ChannelAssumption DEF Coroutine, CoroutineStates

LEMMA GotoFits ==
    ASSUME NEW r \in CoroutineStates, NEW pc \in Awaits \cup Running
    PROVE  Goto(r, pc) \in CoroutineStates
BY DEF Goto, CoroutineStates

\* Going on with the clients' start.
LEMMA StartGoesOn ==
    ASSUME NEW c \in Coroutines, NEW r \in CoroutineStates, NEW n \in CoroutineStates,
           PathFits(c, r), r.pc \in {"backoff", "connect", "start_p", "connect_c"},
           n.pc \in {"connect", "start_p", "connect_c", "start_c"}, n.after = "none",
           n.then = r.then, n.msg = r.msg, n.attempt = r.attempt, n.tries = r.tries
    PROVE  Follows(c, r, n)
<1>1. r.then # "none"
  BY DEF PathFits
<1>2. PathFits(c, n)
  <2>1. /\ r.then = "send" => r.attempt = 1
        /\ r.then = "resend" => r.attempt = 2
        /\ c = "sender" => Busy(n)
    BY DEF PathFits, Busy
  <2>2. n.pc \notin {"close", "stop_c", "close_p", "stop_p", "off", "sleep", "loop", "poll",
                    "wait", "publish", "send", "sending"}
    OBVIOUS
  <2> QED
    BY <1>1, <2>1, <2>2 DEF PathFits
<1>3. (Busy(n) <=> Busy(r)) /\ (Handling(n) <=> Handling(r))
  <2>1. Busy(n) <=> Busy(r)
    BY DEF Busy
  <2>2. n.pc # "publish" /\ r.pc # "publish"
    OBVIOUS
  <2> QED
    BY <2>1, <2>2 DEF Handling
<1>4. r.after = "none"
  BY DEF PathFits
<1>5. (Untried(n) => Untried(r)) /\ (TriedOnce(n) => TriedOnce(r))
  BY <1>4 DEF Untried, TriedOnce
<1> QED
  BY <1>2, <1>3, <1>5 DEF Follows

LEMMA GotoFollows ==
    ASSUME NEW c \in Coroutines, NEW r \in CoroutineStates, PathFits(c, r),
           r.pc \in {"backoff", "connect", "start_p", "connect_c"},
           NEW pc \in {"connect", "connect_c", "start_c"}
    PROVE  Follows(c, r, Goto(r, pc))
<1> PICK n : n = Goto(r, pc)
  OBVIOUS
<1>1. n \in CoroutineStates
  BY GotoFits DEF Awaits, Running
<1>2. /\ n.pc = pc /\ n.after = "none" /\ n.then = r.then
      /\ n.msg = r.msg /\ n.attempt = r.attempt /\ n.tries = r.tries
  BY DEF Goto, CoroutineStates
<1> QED
  BY <1>1, <1>2, StartGoesOn

LEMMA MessageFits ==
    ASSUME NEW r \in CoroutineStates, NEW m \in 0..Records
    PROVE  [r EXCEPT !.msg = m] \in CoroutineStates
BY DEF CoroutineStates

\* Being through with a message.
LEMMA OverFits ==
    ASSUME NEW c \in Coroutines, NEW r \in CoroutineStates, Busy(r)
    PROVE  Follows(c, r, Over(c, r))
<1>1. Over(c, r) \in CoroutineStates
  BY CoroutineFits DEF Over, Awaits, Running
<1> QED
  BY <1>1 DEF Follows, Over, Coroutine, PathFits, Busy, Untried, TriedOnce, Handling, Coroutines

\* The clients are there, or the attempts are used up.
LEMMA ConnectedFits ==
    ASSUME NEW c \in Coroutines, NEW r \in CoroutineStates, NEW ok \in BOOLEAN,
           PathFits(c, r), r.then # "none", r.after \in {"none", "retry"}
    PROVE  Follows(c, r, Connected(c, r, ok))
<1> DEFINE n == Connected(c, r, ok)
<1>1. CASE r.then = "start"
  <2>1. n = Coroutine(IF ok THEN "loop" ELSE "off", "none")
    BY <1>1 DEF Connected
  <2>2. n \in CoroutineStates
    BY <2>1, CoroutineFits DEF Awaits, Running
  <2> QED
    BY <1>1, <2>1, <2>2
    DEF Follows, Coroutine, PathFits, Busy, Untried, TriedOnce, Handling, Coroutines
<1>2. CASE r.then = "loop"
  <2>1. n = Coroutine(IF ok THEN "poll" ELSE "sleep", "none")
    BY <1>2 DEF Connected
  <2>2. n \in CoroutineStates
    BY <2>1, CoroutineFits DEF Awaits, Running
  <2> QED
    BY <1>2, <2>1, <2>2
    DEF Follows, Coroutine, PathFits, Busy, Untried, TriedOnce, Handling, Coroutines
<1>3. CASE Busy(r)
  <2>1. n = Goto(r, "send") \/ n = Over(c, r)
    BY <1>3 DEF Connected, Busy
  <2>2. Follows(c, r, Goto(r, "send"))
    BY <1>3 DEF Follows, Goto, CoroutineStates, PathFits, Busy, Untried, TriedOnce, Handling,
                Coroutines, Running
  <2> QED
    BY <1>3, <2>1, <2>2, OverFits
<1> QED
  BY <1>1, <1>2, <1>3 DEF CoroutineStates, Busy

\* The clients are closed.
LEMMA ClosedFits ==
    ASSUME NEW c \in Coroutines, NEW r \in CoroutineStates, PathFits(c, r), r.after # "none"
    PROVE  /\ Follows(c, r, Closed(c, r))
           /\ Closed(c, r).pc = "wait" => Busy(r)
<1> DEFINE n == Closed(c, r)
<1>1. CASE r.after = "loop"
  <2>1. n = Coroutine("sleep", "none")
    BY <1>1 DEF Closed
  <2>2. n \in CoroutineStates
    BY <2>1, CoroutineFits DEF Awaits, Running
  <2> QED
    BY <1>1, <2>1, <2>2
    DEF Follows, Coroutine, PathFits, Busy, Untried, TriedOnce, Handling, Coroutines
<1>2. CASE r.after = "retry"
  <2>1. CASE r.tries < MaxAttempts
    <3>1. n = Goto([r EXCEPT !.tries = @ + 1], "backoff")
      BY <1>2, <2>1 DEF Closed
    <3>2. n \in CoroutineStates
      <4>1. r.tries + 1 \in 1..MaxAttempts
        BY <2>1, ChannelAssumption DEF CoroutineStates
      <4>2. [r EXCEPT !.tries = @ + 1] \in CoroutineStates
        BY <4>1 DEF CoroutineStates
      <4> QED
        BY <3>1, <4>2, GotoFits DEF Awaits
    <3> QED
      BY <1>2, <3>1, <3>2
      DEF Follows, Goto, CoroutineStates, PathFits, Busy, Untried, TriedOnce, Handling, Coroutines
  <2>2. CASE ~(r.tries < MaxAttempts)
    <3>1. n = Connected(c, r, FALSE)
      BY <1>2, <2>2 DEF Closed
    <3>2. Follows(c, r, n)
      BY <1>2, <3>1, ConnectedFits DEF PathFits
    <3>3. n.pc = "wait" => Busy(r)
      BY <1>2, <3>1 DEF PathFits, Connected, Coroutine, CoroutineStates, Busy
    <3> QED
      BY <3>2, <3>3
  <2> QED
    BY <2>1, <2>2
<1>3. CASE r.after = "send"
  <2>1. CASE r.attempt = 1
    <3>1. n = Goto([r EXCEPT !.attempt = 2, !.tries = 1, !.then = "resend"], "connect")
      BY <1>3, <2>1 DEF Closed
    <3>2. n \in CoroutineStates
      <4>1. 1 \in 1..MaxAttempts
        BY ChannelAssumption
      <4>2. [r EXCEPT !.attempt = 2, !.tries = 1, !.then = "resend"] \in CoroutineStates
        <5>1. [r EXCEPT !.attempt = 2] \in CoroutineStates
          BY DEF CoroutineStates
        <5>2. [r EXCEPT !.attempt = 2, !.tries = 1] \in CoroutineStates
          BY <4>1, <5>1 DEF CoroutineStates
        <5> QED
          BY <5>2 DEF CoroutineStates
      <4> QED
        BY <3>1, <4>2, GotoFits DEF Running
    <3> QED
      BY <1>3, <2>1, <3>1, <3>2
      DEF Follows, Goto, CoroutineStates, PathFits, Busy, Untried, TriedOnce, Handling, Coroutines
  <2>2. CASE r.attempt # 1
    BY <1>3, <2>2, OverFits DEF Closed, PathFits
  <2> QED
    BY <2>1, <2>2
<1> QED
  BY <1>1, <1>2, <1>3 DEF CoroutineStates

-----------------------------------------------------------------------------
(* The types and the order of the topic.                                   *)

LEMMA OrderInit == Init => OrderInv
<1> SUFFICES ASSUME Init PROVE OrderInv
  OBVIOUS
<1>1. /\ co["receiver"] = Coroutine("backoff", "start")
      /\ co["sender"] = Coroutine("wait", "none")
  BY DEF Init
<1>2. co \in [Coroutines -> CoroutineStates]
  <2>1. /\ Coroutine("backoff", "start") \in CoroutineStates
        /\ Coroutine("wait", "none") \in CoroutineStates
    BY CoroutineFits DEF Awaits
  <2> QED
    BY <2>1 DEF Init, Coroutines
<1>3. TypeOK
  BY <1>2, ChannelAssumption DEF Init, TypeOK
<1>4. PathsFit
  BY <1>1 DEF PathsFit, PathFits, Coroutines, Coroutine, Busy
<1>5. BatchIsNext /\ RepliesAreNext /\ RepliesCounted /\ TopicInOrder
  BY <1>1 DEF Init, BatchIsNext, RepliesAreNext, RepliesCounted, TopicInOrder, Coroutine, Busy,
              Handling, Taken, Untried, TriedOnce
<1> QED
  BY <1>3, <1>4, <1>5 DEF OrderInv

\* A coroutine that goes on keeps what does not depend on the clients.
LEMMA FollowsKeeps ==
    ASSUME OrderInv, NEW c \in Coroutines, NEW n, Follows(c, co[c], n), Become(c, n),
           UNCHANGED <<batch, position, published, answered, outbound>>
    PROVE  /\ co' \in [Coroutines -> CoroutineStates]
           /\ PathsFit' /\ BatchIsNext' /\ RepliesAreNext'
           /\ topic' = topic => RepliesCounted' /\ TopicInOrder'
<1>1. co' \in [Coroutines -> CoroutineStates]
  BY DEF OrderInv, TypeOK, Become, Follows
<1>2. co'[c] = n /\ \A d \in Coroutines \ {c} : co'[d] = co[d]
  BY DEF OrderInv, TypeOK, Become
<1>3. PathsFit'
  BY <1>2 DEF OrderInv, PathsFit, Follows
<1>4. c = "receiver" \/ c = "sender"
  BY DEF Coroutines
<1>5. BatchIsNext'
  BY <1>2, <1>4 DEF OrderInv, BatchIsNext, Follows, Coroutines
<1>6. Taken' = Taken
  BY DEF Taken
<1>7. RepliesAreNext'
  BY <1>2, <1>4, <1>6 DEF OrderInv, RepliesAreNext, Follows, Coroutines
<1>8. topic' = topic => RepliesCounted' /\ TopicInOrder'
  <2> SUFFICES ASSUME topic' = topic PROVE RepliesCounted' /\ TopicInOrder'
    OBVIOUS
  <2>1. /\ Untried(co'["sender"]) => Untried(co["sender"])
        /\ TriedOnce(co'["sender"]) => TriedOnce(co["sender"])
    BY <1>2, <1>4 DEF Follows, Coroutines
  <2>2. RepliesCounted'
    BY <2>1, <1>6 DEF OrderInv, RepliesCounted
  <2> QED
    BY <2>2 DEF OrderInv, TopicInOrder
<1> QED
  BY <1>1, <1>3, <1>5, <1>7, <1>8

\* What a coroutine sends: the receipt of a message that is not on the bus yet,
\* or the reply the dispatcher took last.
LEMMA RecordIs ==
    ASSUME OrderInv, NEW c \in Coroutines, co[c].pc = "sending"
    PROVE  /\ Record(c) \in Sends
           /\ Busy(co[c]) /\ co[c].after = "none"
           /\ c = "receiver" => Record(c).kind = "receipt" /\ Record(c).msg > Taken
           /\ c = "sender" => ReplyTo(Taken, Record(c))
<1>1. Busy(co[c]) /\ co[c].after = "none"
  BY DEF OrderInv, PathsFit, PathFits
<1>2. /\ published \in Nat /\ answered \in Nat /\ Len(outbound) \in Nat
      /\ answered <= published
  BY ChannelAssumption DEF OrderInv, TypeOK, RepliesAreNext
<1>3. co[c].msg \in 0..Records /\ Records \in Nat
  BY ChannelAssumption DEF OrderInv, TypeOK, CoroutineStates
<1>4. CASE c = "receiver"
  <2>1. co[c].msg = published + 1
    BY <1>1, <1>4 DEF OrderInv, BatchIsNext
  <2> QED
    BY <1>1, <1>2, <1>3, <1>4, <2>1 DEF Record, Sends, Taken
<1>5. CASE c = "sender"
  <2>1. co[c].msg = Taken /\ Taken > 0
    BY <1>1, <1>5 DEF OrderInv, RepliesAreNext
  <2> QED
    BY <1>1, <1>2, <1>3, <1>5, <2>1 DEF Record, Sends, ReplyTo, Taken
<1> QED
  BY <1>4, <1>5 DEF Coroutines

\* A record at the end of the topic.
LEMMA RecordKeeps ==
    ASSUME OrderInv, NEW c \in Coroutines, co[c].pc = "sending",
           topic' = Append(topic, Record(c)), UNCHANGED <<answered, outbound>>,
           NEW n, Become(c, n), n.then = "none" \/ (n.then = co[c].then /\ n.after = "send")
    PROVE  topic' \in Seq(Sends) /\ TopicInOrder' /\ RepliesCounted'
<1> DEFINE s == Record(c)
<1>1. /\ s \in Sends
      /\ c = "receiver" => s.kind = "receipt" /\ s.msg > Taken
      /\ c = "sender" => ReplyTo(Taken, s)
      /\ Busy(co[c]) /\ co[c].after = "none"
  BY RecordIs
<1>2. topic \in Seq(Sends)
  BY DEF OrderInv, TypeOK
<1>3. /\ topic' \in Seq(Sends) /\ Len(topic) \in Nat
      /\ DOMAIN topic = 1..Len(topic) /\ DOMAIN topic' = 1..(Len(topic) + 1)
      /\ \A i \in DOMAIN topic : topic'[i] = topic[i]
      /\ topic'[Len(topic) + 1] = s
  BY <1>1, <1>2
<1>4. \A i \in DOMAIN topic : topic[i] \in Sends
  BY <1>2
<1>5. Taken' = Taken /\ Taken \in Int /\ Records \in Nat
  BY ChannelAssumption DEF Taken, OrderInv, TypeOK
<1>6. c = "receiver" \/ c = "sender"
  BY DEF Coroutines
<1>7. \A i \in DOMAIN topic : topic[i].kind = "reply" => topic[i].msg <= Taken
  BY DEF OrderInv, RepliesCounted
<1>8. ASSUME c = "sender"
      PROVE  \A i, j \in DOMAIN topic :
                ReplyTo(Taken, topic[i]) /\ ReplyTo(Taken, topic[j]) => i = j
  BY <1>1, <1>8 DEF OrderInv, RepliesCounted, TriedOnce, Busy
<1> HIDE DEF s
<1>9. TopicInOrder'
  <2>1. ASSUME NEW i \in DOMAIN topic', NEW j \in DOMAIN topic', i < j, topic'[i].kind = "reply"
        PROVE  /\ topic'[j].kind = "receipt" => topic'[i].msg # topic'[j].msg
               /\ topic'[j].kind = "reply" => topic'[i].msg <= topic'[j].msg
    <3>1. i \in DOMAIN topic /\ topic'[i] = topic[i] /\ topic[i].msg \in 1..Records
      BY <1>3, <1>4, <2>1 DEF Sends
    <3>2. CASE j \in DOMAIN topic
      BY <1>3, <2>1, <3>1, <3>2 DEF OrderInv, TopicInOrder
    <3>3. CASE j = Len(topic) + 1
      <4>1. topic[i].msg <= Taken
        BY <1>7, <2>1, <3>1
      <4>2. s.msg \in 1..Records /\ topic'[j] = s
        BY <1>1, <1>3, <3>3 DEF Sends
      <4>3. CASE c = "receiver"
        BY <1>1, <1>5, <3>1, <4>1, <4>2, <4>3
      <4>4. CASE c = "sender"
        BY <1>1, <1>5, <3>1, <4>1, <4>2, <4>4 DEF ReplyTo
      <4> QED
        BY <1>6, <4>3, <4>4
    <3> QED
      BY <1>3, <2>1, <3>2, <3>3
  <2>2. ASSUME NEW i \in DOMAIN topic', NEW j \in DOMAIN topic', NEW k \in DOMAIN topic',
               i < j, j < k, topic'[i].kind = "reply",
               topic'[i] = topic'[j], topic'[j] = topic'[k]
        PROVE  FALSE
    <3>1. /\ i \in DOMAIN topic /\ topic'[i] = topic[i]
          /\ j \in DOMAIN topic /\ topic'[j] = topic[j]
          /\ i # j
      BY <1>3, <2>2
    <3>2. CASE k \in DOMAIN topic
      <4>1. /\ topic'[k] = topic[k]
            /\ topic[i].kind = "reply" /\ topic[i] = topic[j] /\ topic[j] = topic[k]
        BY <1>3, <2>2, <3>1, <3>2
      <4>2. ~(topic[i] = topic[j] /\ topic[j] = topic[k])
        BY <2>2, <3>1, <3>2, <4>1, Zenon DEF OrderInv, TopicInOrder
      <4> QED
        BY <4>1, <4>2
    <3>3. CASE k = Len(topic) + 1
      <4>1. topic[i] = s /\ topic[j] = s /\ s.kind = "reply"
        BY <1>3, <2>2, <3>1, <3>3
      <4>2. c = "sender" /\ ReplyTo(Taken, s)
        BY <1>1, <1>6, <4>1
      <4> QED
        BY <1>8, <3>1, <4>1, <4>2
    <3> QED
      BY <1>3, <2>2, <3>2, <3>3
  <2> QED
    BY <2>1, <2>2 DEF TopicInOrder
<1>10. co'[c] = n /\ \A d \in Coroutines \ {c} : co'[d] = co[d]
  BY DEF OrderInv, TypeOK, Become
<1>11. \A i \in DOMAIN topic' : topic'[i].kind = "reply" => topic'[i].msg <= Taken
  <2> SUFFICES ASSUME NEW i \in DOMAIN topic', topic'[i].kind = "reply"
               PROVE  topic'[i].msg <= Taken
    OBVIOUS
  <2>1. CASE i \in DOMAIN topic
    BY <1>3, <1>7, <2>1
  <2>2. CASE i = Len(topic) + 1
    BY <1>1, <1>3, <1>5, <1>6, <2>2 DEF ReplyTo
  <2> QED
    BY <1>3, <2>1, <2>2
<1>12. CASE c = "receiver"
  <2>1. co'["sender"] = co["sender"]
    BY <1>10, <1>12 DEF Coroutines
  <2>2. \A i \in DOMAIN topic' :
            ReplyTo(Taken, topic'[i]) => i \in DOMAIN topic /\ topic'[i] = topic[i]
    BY <1>1, <1>3, <1>12 DEF ReplyTo
  <2> QED
    BY <1>3, <1>5, <1>9, <1>11, <2>1, <2>2 DEF OrderInv, RepliesCounted
<1>13. CASE c = "sender"
  <2>1. ~Untried(co'["sender"])
    BY <1>1, <1>10, <1>13 DEF Untried
  <2>2. ASSUME TriedOnce(co'["sender"])
        PROVE  \A i, j \in DOMAIN topic' :
                ReplyTo(Taken, topic'[i]) /\ ReplyTo(Taken, topic'[j]) => i = j
    <3>1. Untried(co["sender"])
      BY <1>1, <1>10, <1>13, <2>2 DEF Untried, TriedOnce, Busy
    <3>2. \A i \in DOMAIN topic : ~ReplyTo(Taken, topic[i])
      BY <3>1 DEF OrderInv, RepliesCounted
    <3>3. \A i \in DOMAIN topic' : ReplyTo(Taken, topic'[i]) => i = Len(topic) + 1
      BY <1>3, <3>2
    <3> QED
      BY <3>3
  <2> QED
    BY <1>3, <1>5, <1>9, <1>11, <2>1, <2>2 DEF RepliesCounted
<1> QED
  BY <1>3, <1>6, <1>9, <1>12, <1>13

\* There is a name for a new producer: the coroutines refer to two at most.
LEMMA NewProducer ==
    ASSUME TypeOK, producer = None
    PROVE  \E p \in Producers : p \notin Referred
<1> DEFINE a == co["receiver"].handle
           b == co["sender"].handle
<1>1. Referred = {None, a, b}
  BY DEF Referred, Coroutines
<1>2. SUFFICES ASSUME \A p \in Producers : p \in Referred PROVE FALSE
  OBVIOUS
<1>3. Producers \subseteq {a, b}
  BY <1>1, <1>2, ChannelAssumption
<1>4. IsFiniteSet({a, b}) /\ Cardinality({a, b}) <= 2
  <2>1. IsFiniteSet({b}) /\ Cardinality({b}) = 1
    BY FS_Singleton
  <2>2. IsFiniteSet({b} \cup {a})
        /\ Cardinality({b} \cup {a}) = IF a \in {b} THEN 1 ELSE 1 + 1
    BY <2>1, FS_AddElement
  <2>3. {b} \cup {a} = {a, b}
    OBVIOUS
  <2> QED
    BY <2>2, <2>3
<1>5. Cardinality(Producers) <= Cardinality({a, b})
  BY <1>3, <1>4, FS_Subset
<1>6. Cardinality(Producers) \in Nat /\ Cardinality({a, b}) \in Nat
  BY <1>4, ChannelAssumption, FS_CardinalityType
<1> QED
  BY <1>4, <1>5, <1>6, ChannelAssumption

\* One step of the shared operations.
LEMMA ClientStepKeeps ==
    ASSUME OrderInv, NEW c \in Coroutines, ClientStep(c)
    PROVE  OrderInv'
<1> DEFINE r == co[c]
<1>1. /\ r \in CoroutineStates /\ PathFits(c, r) /\ TypeOK
      /\ co \in [Coroutines -> CoroutineStates]
  BY DEF OrderInv, TypeOK, PathsFit
\* What is left to show of an action that sends c on to n.
<1>2. ASSUME NEW n, Follows(c, r, n), Become(c, n), topic' = topic,
             UNCHANGED <<batch, position, published, answered, outbound>>,
             /\ consumer' \in {"none", "starting", "up", "dead"}
             /\ producer' \in Producers \cup {None}
             /\ state' \in [Producers -> {"starting", "up", "stopped"}]
             /\ lost' \subseteq 1..Records /\ faults' \in 0..MaxFaults
      PROVE  OrderInv'
  <2>1. /\ co' \in [Coroutines -> CoroutineStates]
        /\ PathsFit' /\ BatchIsNext' /\ RepliesAreNext' /\ RepliesCounted' /\ TopicInOrder'
    BY <1>2, FollowsKeeps
  <2>2. TypeOK'
    BY <1>1, <1>2, <2>1 DEF TypeOK
  <2> QED
    BY <2>1, <2>2 DEF OrderInv
<1>3. \A pc \in Awaits \cup Running : Goto(r, pc) \in CoroutineStates
  BY <1>1, GotoFits
<1>4. faults \in 0..MaxFaults /\ (Fault => faults' \in 0..MaxFaults)
  BY <1>1, ChannelAssumption DEF TypeOK, Fault
<1>5. CASE Backoff(c)
  <2>1. Follows(c, r, Goto(r, "connect"))
    BY <1>1, <1>5, GotoFollows DEF Backoff, Runs
  <2> QED
    BY <1>1, <1>2, <1>5, <2>1 DEF Backoff, TypeOK
<1>6. CASE ConnectProducer(c)
  <2>1. CASE producer = None
    <3> DEFINE p == CHOOSE q \in Producers : q \notin Referred
               n == [r EXCEPT !.pc = "start_p", !.handle = p]
    <3>1. p \in Producers
      BY <1>1, <2>1, NewProducer
    <3> HIDE DEF p
    <3>2. Become(c, n) /\ producer' = p /\ state' = [state EXCEPT ![p] = "starting"]
      BY <1>6, <2>1 DEF ConnectProducer, p
    <3>3. Follows(c, r, n)
      <4>1. r.pc = "connect"
        BY <1>6 DEF ConnectProducer, Runs
      <4>2. r.after = "none"
        BY <1>1, <4>1 DEF PathFits, CoroutineStates
      <4>3. n \in CoroutineStates
        BY <1>1, <3>1 DEF Awaits, CoroutineStates
      <4>4. /\ n.pc = "start_p" /\ n.after = r.after /\ n.then = r.then
            /\ n.msg = r.msg /\ n.attempt = r.attempt /\ n.tries = r.tries
        BY <1>1 DEF CoroutineStates
      <4> QED
        BY <1>1, <4>1, <4>2, <4>3, <4>4, StartGoesOn
    <3>4. state' \in [Producers -> {"starting", "up", "stopped"}]
      BY <1>1, <3>1, <3>2 DEF TypeOK
    <3> QED
      BY <1>1, <1>2, <1>6, <3>1, <3>2, <3>3, <3>4 DEF ConnectProducer, TypeOK
  <2>2. CASE producer # None
    <3>1. Follows(c, r, Goto(r, "connect_c"))
      BY <1>1, <1>6, GotoFollows DEF ConnectProducer, Runs
    <3> QED
      BY <1>1, <1>2, <1>6, <2>2, <3>1 DEF ConnectProducer, TypeOK
  <2> QED
    BY <2>1, <2>2
<1>7. CASE ProducerStarted(c)
  <2>1. Follows(c, r, Goto(r, "connect_c"))
    BY <1>1, <1>7, GotoFollows DEF ProducerStarted, Runs
  <2>2. state' \in [Producers -> {"starting", "up", "stopped"}]
    BY <1>1, <1>7 DEF ProducerStarted, TypeOK
  <2> QED
    BY <1>1, <1>2, <1>7, <2>1, <2>2 DEF ProducerStarted, TypeOK
<1>8. CASE ProducerFails(c)
  <2>1. Follows(c, r, Close(r, "retry"))
    BY <1>1, <1>8 DEF ProducerFails, Runs, Close, Follows, PathFits, Busy, Untried, TriedOnce,
       Handling, Running, Awaits, CoroutineStates
  <2>2. state' \in [Producers -> {"starting", "up", "stopped"}]
    BY <1>1, <1>8 DEF ProducerFails, TypeOK
  <2>3. faults' \in 0..MaxFaults
    BY <1>4, <1>8 DEF ProducerFails
  <2> QED
    BY <1>1, <1>2, <1>8, <2>1, <2>2, <2>3 DEF ProducerFails, TypeOK
<1>9. CASE ConnectConsumer(c)
  <2>1. CASE consumer = "none"
    <3>1. Follows(c, r, Goto(r, "start_c"))
      BY <1>1, <1>9, GotoFollows DEF ConnectConsumer, Runs
    <3> QED
      BY <1>1, <1>2, <1>9, <2>1, <3>1 DEF ConnectConsumer, TypeOK
  <2>2. CASE consumer # "none"
    <3>1. Follows(c, r, Connected(c, r, TRUE))
      BY <1>1, <1>9, ConnectedFits DEF ConnectConsumer, Runs, PathFits
    <3> QED
      BY <1>1, <1>2, <1>9, <2>2, <3>1 DEF ConnectConsumer, TypeOK
  <2> QED
    BY <2>1, <2>2
<1>10. CASE ConsumerStarted(c)
  <2>1. Follows(c, r, Connected(c, r, TRUE))
    BY <1>1, <1>10, ConnectedFits DEF ConsumerStarted, Runs, PathFits
  <2> QED
    BY <1>1, <1>2, <1>10, <2>1 DEF ConsumerStarted, TypeOK
<1>11. CASE ConsumerFails(c)
  <2>1. Follows(c, r, Close(r, "retry"))
    BY <1>1, <1>11 DEF ConsumerFails, Runs, Close, Follows, PathFits, Busy, Untried, TriedOnce,
       Handling, Running, Awaits, CoroutineStates
  <2>2. faults' \in 0..MaxFaults
    BY <1>4, <1>11 DEF ConsumerFails
  <2> QED
    BY <1>1, <1>2, <1>11, <2>1, <2>2 DEF ConsumerFails, TypeOK
<1>12. CASE CloseConsumer(c)
  <2>1. /\ Follows(c, r, [r EXCEPT !.pc = "stop_c"])
        /\ Follows(c, r, [r EXCEPT !.pc = "close_p"])
    BY <1>1, <1>12 DEF CloseConsumer, Runs, Follows, PathFits, Busy, Untried, TriedOnce,
       Handling, Running, Awaits, CoroutineStates
  <2> QED
    BY <1>1, <1>2, <1>12, <2>1 DEF CloseConsumer, TypeOK
<1>13. CASE ConsumerStopped(c)
  <2>1. Follows(c, r, [r EXCEPT !.pc = "close_p"])
    BY <1>1, <1>13 DEF ConsumerStopped, Runs, Follows, PathFits, Busy, Untried, TriedOnce,
       Handling, Running, Awaits, CoroutineStates
  <2> QED
    BY <1>1, <1>2, <1>13, <2>1 DEF ConsumerStopped, TypeOK
\* The end of closing: what is given up is the reply of the dispatcher.
<1>14. ASSUME r.after # "none", GivenUp(c, Closed(c, r))
       PROVE  lost' \subseteq 1..Records /\ Follows(c, r, Closed(c, r))
  <2>1. Follows(c, r, Closed(c, r)) /\ (Closed(c, r).pc = "wait" => Busy(r))
    BY <1>1, <1>14, ClosedFits
  <2>2. Closed(c, r).pc = "wait" => c = "sender"
    BY <2>1 DEF Follows, PathFits, Coroutines
  <2>3. Busy(r) /\ c = "sender" => r.msg \in 1..Records
    BY <1>1, ChannelAssumption DEF OrderInv, RepliesAreNext, CoroutineStates
  <2> QED
    BY <1>1, <1>14, <2>1, <2>2, <2>3 DEF GivenUp, TypeOK
<1>15. CASE CloseProducer(c)
  <2>1. CASE producer # None
    <3>1. producer \in Producers
      BY <1>1, <2>1 DEF TypeOK
    <3>2. Follows(c, r, [r EXCEPT !.pc = "stop_p", !.handle = producer])
      BY <1>1, <1>15, <3>1 DEF CloseProducer, Runs, Follows, PathFits, Busy, Untried, TriedOnce,
       Handling, Running, Awaits, CoroutineStates
    <3>3. state' \in [Producers -> {"starting", "up", "stopped"}]
      BY <1>1, <1>15, <2>1 DEF CloseProducer, TypeOK
    <3> QED
      BY <1>1, <1>2, <1>15, <2>1, <3>2, <3>3 DEF CloseProducer, TypeOK
  <2>2. CASE producer = None
    <3>1. r.after # "none"
      BY <1>1, <1>15 DEF CloseProducer, Runs, PathFits
    <3>2. /\ Become(c, Closed(c, r)) /\ GivenUp(c, Closed(c, r))
          /\ UNCHANGED <<consumer, producer, state, batch, position, published, answered,
                         outbound, topic, faults>>
      BY <1>15, <2>2 DEF CloseProducer
    <3> QED
      BY <1>1, <1>2, <1>14, <3>1, <3>2 DEF TypeOK
  <2> QED
    BY <2>1, <2>2
<1>16. CASE ProducerStopped(c)
  <2>1. r.after # "none"
    BY <1>1, <1>16 DEF ProducerStopped, Runs, PathFits
  <2>2. /\ Become(c, Closed(c, r)) /\ GivenUp(c, Closed(c, r)) /\ producer' = None
        /\ UNCHANGED <<consumer, batch, position, published, answered, outbound, topic, faults>>
    BY <1>16 DEF ProducerStopped
  <2>3. state' \in [Producers -> {"starting", "up", "stopped"}]
    BY <1>1, <1>16 DEF ProducerStopped, TypeOK
  <2> QED
    BY <1>1, <1>2, <1>14, <2>1, <2>2, <2>3 DEF TypeOK
<1>17. CASE Send(c)
  <2>1. Follows(c, r, Close(r, "send"))
    BY <1>1, <1>17 DEF Send, Runs, Close, Follows, PathFits, Busy, Untried, TriedOnce,
       Handling, Running, Awaits, CoroutineStates
  <2>2. Follows(c, r, [r EXCEPT !.pc = "sending", !.handle = producer])
    BY <1>1, <1>17 DEF Send, TypeOK, Runs, Follows, PathFits, Busy, Untried, TriedOnce,
       Handling, Running, Awaits, CoroutineStates
  <2> QED
    BY <1>1, <1>2, <1>17, <2>1, <2>2 DEF Send, TypeOK
<1>18. ASSUME r.pc = "sending"
       PROVE  Follows(c, r, Close(r, "send")) /\ Follows(c, r, Over(c, r))
  <2>1. Busy(r)
    BY <1>1, <1>18 DEF PathFits
  <2>2. Follows(c, r, Close(r, "send"))
    BY <1>1, <1>18, <2>1 DEF Close, Follows, PathFits, Busy, Untried, TriedOnce,
       Handling, Running, Awaits, CoroutineStates
  <2> QED
    BY <1>1, <2>1, <2>2, OverFits
<1>19. CASE Sent(c)
  <2>1. r.pc = "sending"
    BY <1>19 DEF Sent, Runs
  <2>2. /\ co' \in [Coroutines -> CoroutineStates]
        /\ PathsFit' /\ BatchIsNext' /\ RepliesAreNext'
    BY <1>18, <1>19, <2>1, FollowsKeeps DEF Sent
  <2>3. Over(c, r).then = "none"
    BY DEF Over, Coroutine
  <2>4. topic' \in Seq(Sends) /\ TopicInOrder' /\ RepliesCounted'
    BY <1>19, <2>1, <2>3, RecordKeeps DEF Sent
  <2>5. TypeOK'
    BY <1>1, <1>19, <2>2, <2>4 DEF Sent, TypeOK
  <2> QED
    BY <2>2, <2>4, <2>5 DEF OrderInv
<1>20. CASE SendFails(c)
  <2>1. r.pc = "sending"
    BY <1>20 DEF SendFails, Runs
  <2>2. Follows(c, r, Close(r, "send")) /\ Become(c, Close(r, "send"))
    BY <1>18, <1>20, <2>1 DEF SendFails
  <2>3. /\ co' \in [Coroutines -> CoroutineStates]
        /\ PathsFit' /\ BatchIsNext' /\ RepliesAreNext'
        /\ topic' = topic => RepliesCounted' /\ TopicInOrder'
    BY <1>20, <2>2, FollowsKeeps DEF SendFails
  <2>4. Close(r, "send").then = r.then /\ Close(r, "send").after = "send"
    BY <1>1 DEF Close, CoroutineStates
  <2>5. topic' = Append(topic, Record(c)) =>
            topic' \in Seq(Sends) /\ TopicInOrder' /\ RepliesCounted'
    BY <1>20, <2>1, <2>2, <2>4, RecordKeeps DEF SendFails
  <2>6. topic' = topic \/ topic' = Append(topic, Record(c))
    BY <1>20 DEF SendFails
  <2>7. faults' \in 0..MaxFaults
    BY <1>4, <1>20 DEF SendFails
  <2>8. TypeOK'
    BY <1>1, <1>20, <2>3, <2>5, <2>6, <2>7 DEF SendFails, TypeOK
  <2> QED
    BY <2>3, <2>5, <2>6, <2>8 DEF OrderInv
<1> QED
  BY <1>5, <1>6, <1>7, <1>8, <1>9, <1>10, <1>11, <1>12, <1>13, <1>15, <1>16, <1>17, <1>19,
     <1>20 DEF ClientStep

\* One step of the receiver's own loop.
LEMMA LoopKeeps ==
    ASSUME OrderInv, Wake \/ Loop \/ Poll \/ PollFails \/ Publish
    PROVE  OrderInv'
<1> DEFINE r == co["receiver"]
<1>1. /\ r \in CoroutineStates /\ PathFits("receiver", r) /\ TypeOK
      /\ co \in [Coroutines -> CoroutineStates] /\ "receiver" \in Coroutines
      /\ position \in 0..Records /\ published \in 0..Records /\ answered \in 0..Records
      /\ batch \in Seq(1..Records) /\ Records \in Nat
  BY ChannelAssumption DEF OrderInv, TypeOK, PathsFit, Coroutines
<1>2. ASSUME NEW n, Follows("receiver", r, n), Become("receiver", n), faults' \in 0..MaxFaults,
             UNCHANGED <<consumer, producer, state, batch, position, published, answered,
                         outbound, topic, lost>>
      PROVE  OrderInv'
  <2>1. /\ co' \in [Coroutines -> CoroutineStates]
        /\ PathsFit' /\ BatchIsNext' /\ RepliesAreNext' /\ RepliesCounted' /\ TopicInOrder'
    BY <1>1, <1>2, FollowsKeeps
  <2>2. TypeOK'
    BY <1>1, <1>2, <2>1 DEF TypeOK
  <2> QED
    BY <2>1, <2>2 DEF OrderInv
<1>3. faults \in 0..MaxFaults /\ (Fault => faults' \in 0..MaxFaults)
  BY <1>1, ChannelAssumption DEF TypeOK, Fault
<1>4. /\ Coroutine("loop", "none") \in CoroutineStates
      /\ Coroutine("poll", "none") \in CoroutineStates
      /\ Coroutine("connect", "loop") \in CoroutineStates
  BY CoroutineFits DEF Awaits, Running
<1>5. CASE Wake
  <2>1. Follows("receiver", r, Coroutine("loop", "none"))
    BY <1>1, <1>4, <1>5 DEF Wake, Runs, Follows, PathFits, Coroutine, Busy, Untried, TriedOnce,
       Handling
  <2> QED
    BY <1>2, <1>3, <1>5, <2>1 DEF Wake
<1>6. CASE Loop
  <2>1. /\ Follows("receiver", r, Coroutine("poll", "none"))
        /\ Follows("receiver", r, Coroutine("connect", "loop"))
    BY <1>1, <1>4, <1>6 DEF Loop, Runs, Follows, PathFits, Coroutine, Busy, Untried, TriedOnce,
       Handling
  <2> QED
    BY <1>2, <1>3, <1>6, <2>1 DEF Loop
<1>7. CASE PollFails
  <2>1. Follows("receiver", r, Close(r, "loop"))
    BY <1>1, <1>7 DEF PollFails, Runs, Close, Follows, PathFits, Busy, Untried, TriedOnce,
       Handling, Running, CoroutineStates
  <2> QED
    BY <1>2, <1>3, <1>7, <2>1 DEF PollFails
\* The receiver begins message m.
<1>8. ASSUME NEW m \in 1..Records
      PROVE  /\ Begin(m) \in CoroutineStates /\ PathFits("receiver", Begin(m))
             /\ Busy(Begin(m)) /\ Begin(m).msg = m
  <2>1. /\ Coroutine("connect", "send") \in CoroutineStates
        /\ Coroutine("send", "send") \in CoroutineStates
    BY CoroutineFits DEF Running
  <2>2. Begin(m) \in CoroutineStates
    <3>1. m \in 0..Records
      BY <1>1
    <3> QED
      BY <2>1, <3>1, MessageFits DEF Begin
  <2> QED
    BY <2>2 DEF Begin, Coroutine, PathFits, Busy
\* What the sender has sees nothing of it.
<1>9. ASSUME NEW n \in CoroutineStates, PathFits("receiver", n), Become("receiver", n),
             UNCHANGED <<consumer, producer, state, answered, outbound, topic, lost, faults>>,
             position' \in 0..Records, published' \in 0..Records, batch' \in Seq(1..Records),
             published <= published', BatchIsNext'
      PROVE  OrderInv'
  <2>1. /\ co' \in [Coroutines -> CoroutineStates]
        /\ co'["receiver"] = n /\ co'["sender"] = co["sender"]
    BY <1>1, <1>9 DEF Become, Coroutines
  <2>2. TypeOK'
    BY <1>1, <1>9, <2>1 DEF TypeOK
  <2>3. PathsFit'
    BY <1>9, <2>1 DEF OrderInv, PathsFit, Coroutines
  <2>4. Taken' = Taken
    BY <1>9 DEF Taken
  <2>5. RepliesAreNext'
    BY <1>1, <1>9, <2>1, <2>4 DEF OrderInv, RepliesAreNext
  <2>6. RepliesCounted' /\ TopicInOrder'
    BY <1>9, <2>1, <2>4 DEF OrderInv, RepliesCounted, TopicInOrder
  <2> QED
    BY <1>9, <2>2, <2>3, <2>5, <2>6 DEF OrderInv
<1>10. CASE Poll
  <2>1. /\ r.pc = "poll" /\ Become("receiver", Begin(position + 1))
        /\ UNCHANGED <<consumer, producer, state, published, answered, outbound, topic, lost,
                       faults>>
    BY <1>10 DEF Poll, Runs
  <2>2. PICK n \in 1 .. Records - position :
            batch' = [i \in 1..n |-> position + i] /\ position' = position + n
    BY <1>10 DEF Poll
  <2>3. r.then = "none"
    BY <1>1, <2>1 DEF PathFits
  <2>4. batch = <<>>
    BY <2>1, <2>3 DEF OrderInv, BatchIsNext, Handling, Busy
  <2>5. position = published
    BY <1>1, <2>4 DEF OrderInv, BatchIsNext
  <2>6. /\ position' \in 0..Records /\ position + 1 \in 1..Records
        /\ batch' \in Seq(1..Records) /\ Len(batch') = n /\ DOMAIN batch' = 1..n
        /\ n \in Nat \ {0}
    BY <1>1, <2>2
  <2>7. /\ Begin(position + 1) \in CoroutineStates
        /\ PathFits("receiver", Begin(position + 1))
        /\ Busy(Begin(position + 1)) /\ Begin(position + 1).msg = position + 1
    BY <1>8, <2>6
  <2>8. co'["receiver"] = Begin(position + 1)
    BY <1>1, <2>1 DEF Become
  <2>9. BatchIsNext'
    <3>1. position' = published' + Len(batch')
      BY <2>1, <2>2, <2>5, <2>6
    <3>2. \A i \in DOMAIN batch' : batch'[i] = published' + i
      BY <2>1, <2>2, <2>5, <2>6
    <3>3. batch' # <<>>
      BY <2>6
    <3> QED
      BY <2>1, <2>5, <2>7, <2>8, <3>1, <3>2, <3>3 DEF BatchIsNext, Handling
  <2> QED
    BY <1>1, <1>9, <2>1, <2>6, <2>7, <2>9
<1>11. CASE Publish
  <2>1. /\ r.pc = "publish" /\ published' = Head(batch) /\ batch' = Tail(batch)
        /\ Become("receiver", IF Len(batch) = 1 THEN Coroutine("poll", "none")
                              ELSE Begin(batch[2]))
        /\ UNCHANGED <<consumer, producer, state, position, answered, outbound, topic, lost,
                       faults>>
    BY <1>11 DEF Publish, Runs
  <2>2. batch # <<>>
    BY <2>1 DEF OrderInv, BatchIsNext, Handling
  <2>3. /\ Len(batch) \in Nat \ {0} /\ DOMAIN batch = 1..Len(batch)
        /\ Len(batch') = Len(batch) - 1 /\ batch' \in Seq(1..Records)
        /\ DOMAIN batch' = 1..(Len(batch) - 1)
        /\ \A i \in 1..(Len(batch) - 1) : batch'[i] = batch[i + 1]
        /\ Head(batch) = batch[1] /\ Head(batch) \in 1..Records
    BY <1>1, <2>1, <2>2
  <2>4. /\ position = published + Len(batch)
        /\ \A i \in DOMAIN batch : batch[i] = published + i
    BY DEF OrderInv, BatchIsNext
  <2>5. published' = published + 1 /\ published' \in 0..Records
    BY <1>1, <2>1, <2>3, <2>4
  <2>6. position' = published' + Len(batch') /\ position' \in 0..Records
    BY <1>1, <2>1, <2>3, <2>4, <2>5
  <2>7. \A i \in DOMAIN batch' : batch'[i] = published' + i
    <3> SUFFICES ASSUME NEW i \in 1..(Len(batch) - 1) PROVE batch'[i] = published' + i
      BY <2>3
    <3>1. i + 1 \in DOMAIN batch /\ batch'[i] = batch[i + 1]
      BY <2>3
    <3>2. batch[i + 1] = published + (i + 1)
      BY <2>4, <3>1
    <3> QED
      BY <1>1, <2>5, <3>1, <3>2
  <2>8. CASE Len(batch) = 1
    <3>1. Become("receiver", Coroutine("poll", "none"))
      BY <2>1, <2>8
    <3>2. co'["receiver"] = Coroutine("poll", "none")
      BY <1>1, <3>1 DEF Become
    <3>3. batch' = <<>>
      BY <2>3, <2>8
    <3>4. PathFits("receiver", Coroutine("poll", "none"))
          /\ ~Handling(Coroutine("poll", "none")) /\ ~Busy(Coroutine("poll", "none"))
      BY DEF Coroutine, PathFits, Handling, Busy
    <3>5. BatchIsNext'
      BY <2>6, <2>7, <3>2, <3>3, <3>4 DEF BatchIsNext
    <3> QED
      BY <1>1, <1>4, <1>9, <2>1, <2>3, <2>5, <2>6, <3>1, <3>4, <3>5
  <2>9. CASE Len(batch) # 1
    <3>1. Become("receiver", Begin(batch[2])) /\ batch[2] \in 1..Records
      BY <1>1, <2>1, <2>3, <2>9
    <3>2. co'["receiver"] = Begin(batch[2])
      BY <1>1, <3>1 DEF Become
    <3>3. batch' # <<>> /\ batch[2] = published' + 1
      <4>1. 2 \in DOMAIN batch /\ Len(batch') # 0
        BY <2>3, <2>9
      <4>2. batch[2] = published + 2
        BY <2>4, <4>1
      <4> QED
        BY <1>1, <2>5, <4>1, <4>2
    <3>4. /\ Begin(batch[2]) \in CoroutineStates /\ PathFits("receiver", Begin(batch[2]))
          /\ Busy(Begin(batch[2])) /\ Begin(batch[2]).msg = batch[2]
      BY <1>8, <3>1
    <3>5. BatchIsNext'
      BY <2>6, <2>7, <3>2, <3>3, <3>4 DEF BatchIsNext, Handling
    <3> QED
      BY <1>1, <1>9, <2>1, <2>3, <2>5, <2>6, <3>1, <3>4, <3>5
  <2> QED
    BY <2>8, <2>9
<1> QED
  BY <1>5, <1>6, <1>7, <1>10, <1>11

\* One step of the dispatcher's own loop, or of the agent.
LEMMA ReplyKeeps ==
    ASSUME OrderInv, TakeReply \/ Answer
    PROVE  OrderInv'
<1>1. /\ TypeOK /\ co \in [Coroutines -> CoroutineStates] /\ "sender" \in Coroutines
      /\ published \in 0..Records /\ answered \in 0..Records
      /\ outbound \in Seq(1..Records) /\ Len(outbound) \in Nat /\ Records \in Nat
      /\ Len(outbound) <= answered /\ answered <= published
  BY ChannelAssumption DEF OrderInv, TypeOK, Coroutines, RepliesAreNext
<1>2. /\ DOMAIN outbound = 1..Len(outbound)
      /\ \A i \in DOMAIN outbound : outbound[i] = Taken + i
      /\ Taken \in Nat
  BY <1>1 DEF OrderInv, RepliesAreNext, Taken
<1>3. CASE Answer
  <2>1. /\ answered' = answered + 1 /\ outbound' = Append(outbound, answered + 1)
        /\ answered < published
        /\ UNCHANGED <<consumer, producer, state, co, batch, position, published, topic, lost,
                       faults>>
    BY <1>3 DEF Answer
  <2>2. /\ answered' \in 0..Records /\ answered' <= published /\ answered + 1 \in 1..Records
        /\ outbound' \in Seq(1..Records) /\ Len(outbound') = Len(outbound) + 1
        /\ DOMAIN outbound' = 1..(Len(outbound) + 1)
        /\ \A i \in DOMAIN outbound : outbound'[i] = outbound[i]
        /\ outbound'[Len(outbound) + 1] = answered + 1
    BY <1>1, <2>1
  <2>3. Taken' = Taken
    BY <1>1, <2>1, <2>2 DEF Taken
  <2>4. TypeOK'
    BY <1>1, <2>1, <2>2 DEF TypeOK
  <2>5. \A i \in DOMAIN outbound' : outbound'[i] = Taken + i
    <3> SUFFICES ASSUME NEW i \in DOMAIN outbound' PROVE outbound'[i] = Taken + i
      OBVIOUS
    <3>1. CASE i \in DOMAIN outbound
      BY <1>2, <2>2, <3>1
    <3>2. CASE i = Len(outbound) + 1
      BY <1>1, <2>2, <3>2 DEF Taken
    <3> QED
      BY <1>1, <1>2, <2>2, <3>1, <3>2
  <2>6. RepliesAreNext'
    BY <1>1, <2>1, <2>2, <2>3, <2>5 DEF OrderInv, RepliesAreNext
  <2>7. PathsFit' /\ BatchIsNext' /\ RepliesCounted' /\ TopicInOrder'
    BY <2>1, <2>3 DEF OrderInv, PathsFit, BatchIsNext, RepliesCounted, TopicInOrder
  <2> QED
    BY <2>4, <2>6, <2>7 DEF OrderInv
<1>4. CASE TakeReply
  <2> DEFINE n == Begin(Head(outbound))
  <2>1. /\ co["sender"].pc = "wait" /\ outbound # <<>> /\ outbound' = Tail(outbound)
        /\ Become("sender", n)
        /\ UNCHANGED <<consumer, producer, state, batch, position, published, answered, topic,
                       lost, faults>>
    BY <1>4 DEF TakeReply, Runs
  <2>2. /\ Len(outbound') = Len(outbound) - 1 /\ outbound' \in Seq(1..Records)
        /\ DOMAIN outbound' = 1..(Len(outbound) - 1) /\ Len(outbound) # 0
        /\ \A i \in 1..(Len(outbound) - 1) : outbound'[i] = outbound[i + 1]
        /\ Head(outbound) = outbound[1] /\ outbound[1] \in 1..Records
    BY <1>1, <2>1
  <2>3. Taken' = Taken + 1
    BY <1>1, <2>1, <2>2 DEF Taken
  <2>4. Head(outbound) = Taken'
    <3>1. 1 \in DOMAIN outbound
      BY <1>1, <1>2, <2>2
    <3> QED
      BY <1>2, <2>2, <2>3, <3>1
  <2>5. n \in CoroutineStates /\ n.msg = Taken' /\ n.then = "send" /\ n.pc \in Running
        /\ n.pc \in {"connect", "send"} /\ n.after = "none" /\ n.attempt = 1
    <3>1. /\ Coroutine("connect", "send") \in CoroutineStates
          /\ Coroutine("send", "send") \in CoroutineStates
      BY CoroutineFits DEF Running
    <3>2. Head(outbound) \in 0..Records
      BY <1>1, <2>2
    <3>3. n \in CoroutineStates
      BY <3>1, <3>2, MessageFits DEF Begin
    <3> QED
      BY <2>4, <3>3 DEF Begin, Coroutine, Running
  <2> HIDE DEF n
  <2>6. /\ co' \in [Coroutines -> CoroutineStates]
        /\ co'["sender"] = n /\ co'["receiver"] = co["receiver"]
    BY <1>1, <2>1, <2>5 DEF Become, Coroutines
  <2>7. TypeOK'
    BY <1>1, <2>1, <2>2, <2>6 DEF TypeOK
  <2>8. PathFits("sender", n)
    BY <2>5 DEF PathFits, Busy
  <2>9. PathsFit'
    BY <2>6, <2>8 DEF OrderInv, PathsFit, Coroutines
  <2>10. BatchIsNext' /\ TopicInOrder'
    BY <2>1, <2>6 DEF OrderInv, BatchIsNext, TopicInOrder
  <2>11. \A i \in DOMAIN outbound' : outbound'[i] = Taken' + i
    <3> SUFFICES ASSUME NEW i \in 1..(Len(outbound) - 1) PROVE outbound'[i] = Taken' + i
      BY <2>2
    <3>1. i + 1 \in DOMAIN outbound /\ outbound'[i] = outbound[i + 1]
      BY <1>1, <1>2, <2>2
    <3>2. outbound[i + 1] = Taken + (i + 1)
      BY <1>2, <3>1
    <3> QED
      BY <1>1, <1>2, <2>3, <3>1, <3>2
  <2>12. RepliesAreNext'
    BY <1>1, <1>2, <2>1, <2>2, <2>3, <2>5, <2>6, <2>11 DEF RepliesAreNext
  <2>13. \A i \in DOMAIN topic' :
            topic'[i].kind = "reply" => topic'[i].msg <= Taken' /\ topic'[i].msg # Taken'
    <3> SUFFICES ASSUME NEW i \in DOMAIN topic, topic[i].kind = "reply"
                 PROVE  topic[i].msg <= Taken' /\ topic[i].msg # Taken'
      BY <2>1
    <3>1. topic[i].msg <= Taken
      BY DEF OrderInv, RepliesCounted
    <3>2. topic[i].msg \in Nat
      <4>1. topic \in Seq(Sends)
        BY <1>1 DEF TypeOK
      <4>2. topic[i] \in Sends
        BY <4>1
      <4> QED
        BY <4>2 DEF Sends
    <3> QED
      BY <1>2, <2>3, <3>1, <3>2
  <2>14. RepliesCounted'
    BY <2>13 DEF RepliesCounted, ReplyTo
  <2> QED
    BY <2>7, <2>9, <2>10, <2>12, <2>14 DEF OrderInv
<1> QED
  BY <1>3, <1>4

LEMMA OrderStep == OrderInv /\ [Next]_vars => OrderInv'
<1> SUFFICES ASSUME OrderInv, [Next]_vars PROVE OrderInv'
  OBVIOUS
<1>1. CASE ReceiverStep
  BY <1>1, ClientStepKeeps, LoopKeeps DEF ReceiverStep, Coroutines
<1>2. CASE SenderStep
  BY <1>2, ClientStepKeeps, ReplyKeeps DEF SenderStep, Coroutines
<1>3. CASE Answer
  BY <1>3, ReplyKeeps
<1>4. CASE UNCHANGED vars
  BY <1>4 DEF vars, OrderInv, TypeOK, PathsFit, BatchIsNext, RepliesAreNext, RepliesCounted,
              TopicInOrder, Taken
<1> QED
  BY <1>1, <1>2, <1>3, <1>4 DEF Next

\* The variables of the channel keep their types, whatever the two coroutines do
\* to the clients they share.
THEOREM TypeCorrect == Spec => []TypeOK
<1>1. OrderInv => TypeOK
  BY DEF OrderInv
<1> QED
  BY <1>1, OrderInit, OrderStep, PTL DEF Spec

\* No receipt of a message follows its reply in the outbound topic, and the
\* replies are in the order of the bus, each at most twice: each message is sent
\* by one coroutine, in two attempts at most, and whoever stops or replaces the
\* producer in between makes an attempt fail but adds none.
THEOREM TopicIsInOrder == Spec => []TopicInOrder
<1>1. OrderInv => TopicInOrder
  BY DEF OrderInv
<1> QED
  BY <1>1, OrderInit, OrderStep, PTL DEF Spec

-----------------------------------------------------------------------------
(* Nothing is given up before the broker fails.                            *)

LEMMA CalmInit == Init => CalmInv
<1> SUFFICES ASSUME Init PROVE Smooth
  BY DEF CalmInv
<1>1. /\ co["receiver"] = Coroutine("backoff", "start")
      /\ co["sender"] = Coroutine("wait", "none")
  BY DEF Init
<1> QED
  BY <1>1 DEF Init, Smooth, Coroutines, Coroutine, Busy

LEMMA CalmStep == OrderInv /\ CalmInv /\ [Next]_vars => CalmInv'
<1> SUFFICES ASSUME OrderInv, CalmInv, [Next]_vars, faults' = 0
             PROVE  Smooth'
  BY DEF CalmInv
<1> DEFINE r == co["receiver"]
           s == co["sender"]
<1>1. /\ TypeOK /\ PathsFit /\ BatchIsNext /\ RepliesAreNext
      /\ faults \in Nat /\ Records \in Nat
      /\ co \in [Coroutines -> CoroutineStates]
      /\ r \in CoroutineStates /\ s \in CoroutineStates
      /\ "receiver" \in Coroutines /\ "sender" \in Coroutines
      /\ PathFits("receiver", r) /\ PathFits("sender", s)
  BY ChannelAssumption DEF OrderInv, TypeOK, PathsFit, Coroutines
<1>2. ~Fault
  BY <1>1 DEF Fault
<1>3. faults = 0
  BY <1>1, <1>2 DEF Next, ReceiverStep, SenderStep, ClientStep, Backoff, ConnectProducer,
     ProducerStarted, ProducerFails, ConnectConsumer, ConsumerStarted, ConsumerFails,
     CloseConsumer, ConsumerStopped, CloseProducer, ProducerStopped, Send, Sent, SendFails,
     Wake, Loop, Poll, PollFails, Publish, TakeReply, Answer, vars
<1>4. Smooth
  BY <1>3 DEF CalmInv
\* No coroutine is in the part of the code that closes.
<1>5. \A c \in Coroutines :
        co[c].pc \notin {"close", "stop_c", "close_p", "stop_p", "off", "sleep"}
  BY <1>1, <1>4 DEF Smooth, PathsFit, PathFits
\* The dispatcher has nothing to send while start() runs.
<1>6. r.then = "start" => s.pc = "wait" /\ s.then = "none" /\ outbound = <<>> /\ answered = 0
  <2> SUFFICES ASSUME r.then = "start"
               PROVE  s.pc = "wait" /\ s.then = "none" /\ outbound = <<>> /\ answered = 0
    OBVIOUS
  <2>1. position = 0 /\ published \in Nat /\ answered \in Nat
        /\ batch \in Seq(1..Records) /\ outbound \in Seq(1..Records)
    BY <1>1, <1>4 DEF Smooth, TypeOK
  <2>2. published = 0 /\ answered = 0 /\ Len(outbound) = 0 /\ Taken = 0
    BY <1>1, <2>1 DEF BatchIsNext, RepliesAreNext, Taken
  <2>3. ~Busy(s)
    BY <1>1, <2>2 DEF RepliesAreNext
  <2> QED
    BY <1>1, <2>1, <2>2, <2>3 DEF PathFits
<1>7. \A c \in Coroutines : r.then = "start" /\ co[c].then # "none" => c = "receiver"
  BY <1>6 DEF Coroutines
\* While connecting, the coroutine is the receiver in start().
<1>8. \A c \in Coroutines :
        co[c].pc \in {"backoff", "connect", "start_p", "connect_c", "start_c"} =>
            c = "receiver" /\ r.then = "start"
  BY <1>1, <1>4 DEF Smooth, PathsFit, PathFits, Coroutines, Busy
<1>9. r.then # "start" => producer # None /\ state[producer] = "up" /\ consumer = "up"
  BY <1>1, <1>4, <1>8 DEF Smooth
\* A coroutine that goes on among the clients as they are.
<1>10. ASSUME NEW c \in Coroutines, NEW n, Become(c, n), r.then # "start",
              UNCHANGED <<consumer, producer, state, lost>>,
              n.after = "none", n.then \in {"none", "send"},
              n.pc \notin {"off", "sleep", "backoff", "connect", "start_p"},
              Busy(n) => n.pc \in {"send", "sending"},
              n.pc = "sending" => n.handle = producer
       PROVE  Smooth'
  <2>1. co'[c] = n /\ \A d \in Coroutines \ {c} : co'[d] = co[d]
    BY <1>1, <1>10 DEF Become
  <2> QED
    BY <1>4, <1>8, <1>9, <1>10, <2>1 DEF Smooth, Coroutines
<1>11. ASSUME NEW c \in Coroutines, Send(c) PROVE Smooth'
  <2>1. c = "receiver" \/ c = "sender"
    BY DEF Coroutines
  <2>2. co[c].pc = "send" /\ Busy(co[c]) /\ co[c].after = "none" /\ co[c].then \in {"none", "send"}
    <3>1. co[c].pc = "send" /\ PathFits(c, co[c])
      BY <1>1, <1>11 DEF Send, Runs, PathsFit
    <3>2. Busy(co[c])
      BY <3>1 DEF PathFits
    <3> QED
      BY <1>4, <3>1, <3>2 DEF Smooth, Busy
  <2>3. r.then # "start"
    BY <1>6, <2>1, <2>2 DEF Busy
  <2> DEFINE n == [co[c] EXCEPT !.pc = "sending", !.handle = producer]
  <2>4. Become(c, n) /\ UNCHANGED <<consumer, producer, state, lost>>
    BY <1>9, <1>11, <2>3 DEF Send
  <2>5. co[c] \in CoroutineStates
    BY <1>1
  <2>6. n.pc = "sending" /\ n.handle = producer /\ n.after = "none" /\ n.then \in {"none", "send"}
    BY <2>2, <2>5 DEF CoroutineStates
  <2> HIDE DEF n
  <2> QED
    BY <1>10, <2>3, <2>4, <2>6
<1>12. ASSUME NEW c \in Coroutines, co[c].pc = "sending"
       PROVE  r.then # "start" /\ state[co[c].handle] = "up"
  <2>1. Busy(co[c]) /\ co[c].handle = producer
    BY <1>1, <1>4, <1>12 DEF PathsFit, PathFits, Smooth
  <2>2. r.then # "start"
    BY <1>6, <2>1 DEF Busy, Coroutines
  <2> QED
    BY <1>9, <2>1, <2>2
<1>13. ASSUME NEW c \in Coroutines, Sent(c) PROVE Smooth'
  <2>1. r.then # "start" /\ Become(c, Over(c, co[c])) /\ UNCHANGED <<consumer, producer, state, lost>>
    BY <1>12, <1>13 DEF Sent, Runs
  <2> QED
    BY <1>10, <2>1 DEF Over, Coroutine, Busy
<1>14. ASSUME NEW c \in Coroutines PROVE ~SendFails(c)
  BY <1>2, <1>12 DEF SendFails, Runs
<1>15. ASSUME NEW c \in Coroutines
       PROVE  ~CloseConsumer(c) /\ ~ConsumerStopped(c) /\ ~CloseProducer(c) /\ ~ProducerStopped(c)
  BY <1>5 DEF CloseConsumer, ConsumerStopped, CloseProducer, ProducerStopped, Runs
\* start() connects.
<1>16. ASSUME NEW c \in Coroutines, NEW n, Become(c, n), c = "receiver", r.then = "start",
              UNCHANGED <<position, lost>>,
              n.after = "none", n.then = "start",
              n.pc \in {"connect", "start_p", "connect_c", "start_c"},
              consumer' = IF n.pc = "start_c" THEN "starting" ELSE "none",
              n.pc = "connect" <=> producer' = None,
              n.pc = "start_p" => n.handle = producer' /\ state'[producer'] = "starting",
              n.pc \in {"connect_c", "start_c"} => state'[producer'] = "up"
       PROVE  Smooth'
  <2>1. co'["receiver"] = n /\ co'["sender"] = s
    BY <1>1, <1>16 DEF Become, Coroutines
  <2>2. s.pc = "wait" /\ s.then = "none"
    BY <1>6, <1>16
  <2>3. position' = 0 /\ lost' = {} /\ s.after = "none"
    BY <1>1, <1>4, <1>16 DEF Smooth
  <2> QED
    BY <1>16, <2>1, <2>2, <2>3 DEF Smooth, Coroutines, Busy
<1>17. ASSUME NEW c \in Coroutines,
              Backoff(c) \/ ConnectProducer(c) \/ ProducerStarted(c) \/ ConnectConsumer(c)
       PROVE  Smooth'
  <2>1. /\ c = "receiver" /\ r.then = "start" /\ co[c] = r /\ r.after = "none"
        /\ consumer = IF r.pc = "start_c" THEN "starting" ELSE "none"
        /\ r.pc \in {"backoff", "connect"} <=> producer = None
        /\ r.pc = "start_p" => r.handle = producer /\ state[producer] = "starting"
        /\ r.pc \notin {"backoff", "connect", "start_p"} =>
                producer # None /\ state[producer] = "up"
    BY <1>4, <1>8, <1>17 DEF Smooth, Backoff, ConnectProducer, ProducerStarted, ConnectConsumer,
       Runs
  <2>2. \A pc \in {"connect", "connect_c", "start_c"} :
            Goto(r, pc).pc = pc /\ Goto(r, pc).after = "none" /\ Goto(r, pc).then = "start"
    BY <1>1, <2>1 DEF Goto, CoroutineStates
  <2>3. CASE Backoff(c)
    BY <1>16, <2>1, <2>2, <2>3 DEF Backoff, Runs
  <2>4. CASE ConnectProducer(c)
    <3> DEFINE p == CHOOSE q \in Producers : q \notin Referred
               n == [r EXCEPT !.pc = "start_p", !.handle = p]
    <3>1. r.pc = "connect" /\ producer = None
      BY <2>1, <2>4 DEF ConnectProducer, Runs
    <3>2. p \in Producers
      BY <1>1, <3>1, NewProducer
    <3>3. /\ Become(c, n) /\ producer' = p /\ state' = [state EXCEPT ![p] = "starting"]
          /\ UNCHANGED <<consumer, position, lost>>
      BY <2>1, <2>4, <3>1 DEF ConnectProducer
    <3> HIDE DEF p
    <3>4. n.pc = "start_p" /\ n.handle = p /\ n.after = "none" /\ n.then = "start"
      BY <1>1, <2>1 DEF CoroutineStates
    <3>5. state'[p] = "starting" /\ p # None
      BY <1>1, <3>2, <3>3, ChannelAssumption DEF TypeOK
    <3> HIDE DEF n
    <3> QED
      BY <1>16, <2>1, <3>1, <3>3, <3>4, <3>5
  <2>5. CASE ProducerStarted(c)
    <3>1. /\ r.pc = "start_p" /\ producer # None /\ producer \in Producers
          /\ state' = [state EXCEPT ![producer] = IF @ = "starting" THEN "up" ELSE @]
          /\ Become(c, Goto(r, "connect_c")) /\ UNCHANGED <<consumer, producer, position, lost>>
      BY <1>1, <2>1, <2>5 DEF ProducerStarted, Runs, TypeOK
    <3>2. state'[producer] = "up"
      BY <1>1, <2>1, <3>1 DEF TypeOK
    <3> QED
      BY <1>16, <2>1, <2>2, <3>1, <3>2
  <2>6. CASE ConnectConsumer(c)
    <3>1. /\ r.pc = "connect_c" /\ consumer' = "starting" /\ Become(c, Goto(r, "start_c"))
          /\ UNCHANGED <<producer, state, position, lost>>
      BY <2>1, <2>6 DEF ConnectConsumer, Runs
    <3> QED
      BY <1>16, <2>1, <2>2, <3>1
  <2> QED
    BY <1>17, <2>3, <2>4, <2>5, <2>6
<1>18. ASSUME NEW c \in Coroutines PROVE ~ProducerFails(c) /\ ~ConsumerFails(c)
  <2>1. co[c].pc = "start_p" => state[co[c].handle] = "starting"
    BY <1>4, <1>8 DEF Smooth
  <2>2. co[c].pc = "start_c" => consumer = "starting"
    BY <1>4, <1>8 DEF Smooth
  <2> QED
    BY <1>2, <2>1, <2>2 DEF ProducerFails, ConsumerFails, Runs
<1>19. ASSUME NEW c \in Coroutines, ConsumerStarted(c) PROVE Smooth'
  <2>1. /\ c = "receiver" /\ r.then = "start" /\ co[c] = r /\ r.pc = "start_c"
        /\ producer # None /\ state[producer] = "up" /\ consumer = "starting"
    BY <1>4, <1>8, <1>19 DEF Smooth, ConsumerStarted, Runs
  <2>2. /\ consumer' = "up" /\ UNCHANGED <<producer, state, lost>>
        /\ Become(c, Coroutine("loop", "none"))
    BY <1>19, <2>1 DEF ConsumerStarted, Connected
  <2>3. co'["receiver"] = Coroutine("loop", "none") /\ co'["sender"] = s
    BY <1>1, <2>1, <2>2 DEF Become, Coroutines
  <2>4. s.pc = "wait" /\ s.then = "none" /\ s.after = "none" /\ lost = {}
    BY <1>1, <1>4, <1>6, <2>1 DEF Smooth
  <2> QED
    BY <2>1, <2>2, <2>3, <2>4 DEF Smooth, Coroutines, Coroutine, Busy
<1>20. ASSUME NEW c \in Coroutines, ClientStep(c) PROVE Smooth'
  BY <1>11, <1>13, <1>14, <1>15, <1>17, <1>18, <1>19, <1>20 DEF ClientStep
\* The receiver's own steps.
<1>21. ASSUME r.pc \in {"loop", "poll", "publish"} PROVE r.then # "start"
  BY <1>1, <1>21 DEF PathFits
<1>22. CASE Loop
  <2>1. Become("receiver", Coroutine("poll", "none")) /\ UNCHANGED <<consumer, producer, state, lost>>
        /\ r.then # "start"
    BY <1>9, <1>21, <1>22 DEF Loop, Runs
  <2> QED
    BY <1>1, <1>10, <2>1 DEF Coroutine, Busy
\* A message is begun with the producer that is there.
<1>23. ASSUME NEW c \in Coroutines, NEW m, Become(c, Begin(m)), r.then # "start",
              UNCHANGED <<consumer, producer, state, lost>>
       PROVE  Smooth'
  <2>1. Begin(m) = [Coroutine("send", "send") EXCEPT !.msg = m]
    BY <1>9, <1>23 DEF Begin
  <2>2. Begin(m).pc = "send" /\ Begin(m).then = "send" /\ Begin(m).after = "none"
    BY <2>1 DEF Coroutine
  <2> QED
    BY <1>10, <1>23, <2>2
<1>24. CASE Poll
  BY <1>1, <1>21, <1>23, <1>24 DEF Poll, Runs
<1>25. CASE Publish
  <2>1. r.then # "start" /\ UNCHANGED <<consumer, producer, state, lost>>
    BY <1>21, <1>25 DEF Publish, Runs
  <2>2. CASE Len(batch) = 1
    <3>1. Become("receiver", Coroutine("poll", "none"))
      BY <1>25, <2>2 DEF Publish
    <3> QED
      BY <1>1, <1>10, <2>1, <3>1 DEF Coroutine, Busy
  <2>3. CASE Len(batch) # 1
    BY <1>1, <1>23, <1>25, <2>1, <2>3 DEF Publish
  <2> QED
    BY <2>2, <2>3
<1>26. ~Wake /\ ~PollFails
  <2>1. ~Wake
    BY <1>1, <1>5 DEF Wake, Runs
  <2>2. ~PollFails
    BY <1>2, <1>9, <1>21 DEF PollFails, Runs
  <2> QED
    BY <2>1, <2>2
<1>27. CASE TakeReply
  <2>1. r.then # "start"
    BY <1>6, <1>27 DEF TakeReply
  <2> QED
    BY <1>1, <1>23, <1>27, <2>1 DEF TakeReply
<1>28. CASE Answer
  BY <1>4, <1>28 DEF Answer, Smooth
<1>29. CASE UNCHANGED vars
  BY <1>4, <1>29 DEF vars, Smooth
<1> QED
  BY <1>1, <1>20, <1>22, <1>24, <1>25, <1>26, <1>27, <1>28, <1>29
  DEF Next, ReceiverStep, SenderStep

\* A reply is given up only after the broker has failed: while it has not, the
\* two coroutines never close a client the other one is about to use.
THEOREM NothingLostWithoutFault == Spec => []LostOnlyAfterFault
<1>1. Init => KafkaInv
  BY OrderInit, CalmInit DEF KafkaInv
<1>2. KafkaInv /\ [Next]_vars => KafkaInv'
  BY OrderStep, CalmStep DEF KafkaInv
<1>3. KafkaInv => LostOnlyAfterFault
  <2> SUFFICES ASSUME OrderInv, CalmInv, lost # {} PROVE faults > 0
    BY DEF KafkaInv, LostOnlyAfterFault
  <2>1. faults # 0
    BY DEF CalmInv, Smooth
  <2>2. faults \in Nat
    BY ChannelAssumption DEF OrderInv, TypeOK
  <2> QED
    BY <2>1, <2>2
<1> QED
  BY <1>1, <1>2, <1>3, PTL DEF Spec
=============================================================================
