--------------------------- MODULE OutboundDelivery ---------------------------
(***************************************************************************)
(* How a reply of the agent gets from the Kafka topic icatmsg_outbound     *)
(* into the messages table and to the browser: the consumer loop of a      *)
(* gateway process (source_adapter.py _consume_outbound_messages), the     *)
(* handler it awaits (main.py _outbound_handler, orchestrator.py           *)
(* handle_outbound_event), the claim in Redis (realtime.py), the insert    *)
(* under a unique external_id (repository.py append_message).              *)
(*                                                                         *)
(* One partition of the topic; several gateway processes of one consumer   *)
(* group, of which the group assigns the partition to one.  A process may  *)
(* die, or be stopped, at any await.  Redis keeps its data.                *)
(***************************************************************************)
EXTENDS Naturals, Sequences

CONSTANTS
  Msgs,          \* header.msg_id of the events that the agent produces
  Kind,          \* Kind[m], see Kinds
  Workers,       \* gateway processes
  NoWorker,
  RedisWorks,    \* TRUE: a Redis call may succeed
  RedisFails,    \* TRUE: a Redis call may raise
  DbMayFail,     \* TRUE: a database call of the handler may raise
  MaxLog,        \* bound: records in the topic
  MaxDeaths      \* bound: processes that die

\* "reply": has content for a conversation of the user; "empty": has none, or no
\* such conversation; "status": status.processing; "malformed": is not JSON;
\* "invalid": is no envelope.
Kinds == {"reply", "empty", "status", "malformed", "invalid"}

ASSUME KindAssumption  == Msgs # {} /\ Kind \in [Msgs -> Kinds]
ASSUME RedisAssumption == {RedisWorks, RedisFails, DbMayFail} \subseteq BOOLEAN /\ (RedisWorks \/ RedisFails)
ASSUME WorkerAssumption == NoWorker \notin Workers
ASSUME BoundAssumption == MaxLog \in Nat /\ MaxDeaths \in Nat

VARIABLES
  log,         \* the records of the partition
  committed,   \* the group's committed offset: how many records are behind it
  owner,       \* the process the group has assigned the partition to
  phase,       \* what each process does
  position,    \* consumed offset of each process
  cur,         \* the event each process handles
  claims,      \* Redis: the external ids under thqbot:dedupe
  rows,        \* how many rows of messages have the external id
  pushes,      \* how often the row was published to the user's SSE channel
  deaths,      \* bound on Die
  abandoned    \* history: events whose handler died or raised between claim and insert

vars == <<log, committed, owner, phase, position, cur, claims, rows, pushes, deaths, abandoned>>

Phases  == {"down", "polling", "claim", "release", "store", "push", "commit"}
Running == {w \in Workers : phase[w] # "down"}

Init ==
  /\ log = <<>> /\ committed = 0 /\ owner = NoWorker
  /\ phase = [w \in Workers |-> "down"] /\ position = [w \in Workers |-> 0]
  /\ cur = [w \in Workers |-> CHOOSE m \in Msgs : TRUE]
  /\ claims = {} /\ rows = [m \in Msgs |-> 0] /\ pushes = [m \in Msgs |-> 0]
  /\ deaths = 0 /\ abandoned = {}

Goto(w, p) == phase' = [phase EXCEPT ![w] = p]

-----------------------------------------------------------------------------
\* The channel of the agent sends an event, and sends it again when the first
\* attempt was not acknowledged.
Produce(m) ==
  /\ Len(log) < MaxLog
  /\ log' = Append(log, m)
  /\ UNCHANGED <<committed, owner, phase, position, cur, claims, rows, pushes, deaths, abandoned>>

\* A consumer joins the group: the partition is assigned anew, and the process
\* that gets it reads from the committed offset.  Another process may be in the
\* middle of a handler.
Assign(w) == owner' = w /\ position' = [position EXCEPT ![w] = committed]

Start_Latest(w) ==          \* planted error: a consumer that joins reads from the end
  /\ phase[w] = "down" /\ Goto(w, "polling")
  /\ owner' = w /\ position' = [position EXCEPT ![w] = Len(log)]
  /\ UNCHANGED <<log, committed, cur, claims, rows, pushes, deaths, abandoned>>

Start(w) ==
  /\ phase[w] = "down"
  /\ Goto(w, "polling")
  /\ \E o \in Running \cup {w} : Assign(o)
  /\ UNCHANGED <<log, committed, cur, claims, rows, pushes, deaths, abandoned>>

\* The process dies, or is cancelled at an await: nothing is released.
Die(w) ==
  /\ phase[w] # "down" /\ deaths < MaxDeaths
  /\ Goto(w, "down") /\ deaths' = deaths + 1
  /\ abandoned' = IF phase[w] = "store" THEN abandoned \cup {cur[w]} ELSE abandoned
  /\ IF owner = w
       THEN \/ \E o \in Running \ {w} : Assign(o)
            \/ Running = {w} /\ owner' = NoWorker /\ UNCHANGED position
       ELSE UNCHANGED <<owner, position>>
  /\ UNCHANGED <<log, committed, cur, claims, rows, pushes>>

Fetch_AutoCommit(w) ==      \* planted error: the offset is committed on delivery
  /\ phase[w] = "polling" /\ owner = w /\ position[w] < Len(log)
  /\ position' = [position EXCEPT ![w] = @ + 1] /\ committed' = position'[w]
  /\ cur' = [cur EXCEPT ![w] = log[position'[w]]]
  /\ Goto(w, IF Kind[cur'[w]] \in {"reply", "empty"} THEN "claim" ELSE "commit")
  /\ UNCHANGED <<log, owner, claims, rows, pushes, deaths, abandoned>>

\* `async for record in consumer`, up to the first await that matters.  A record
\* that is no envelope is passed over without a commit; the effect of
\* status.processing on the progress cache is left out here.
Fetch(w) ==
  /\ phase[w] = "polling" /\ owner = w /\ position[w] < Len(log)
  /\ position' = [position EXCEPT ![w] = @ + 1]
  /\ cur' = [cur EXCEPT ![w] = log[position'[w]]]
  /\ Goto(w, CASE Kind[cur'[w]] \in {"reply", "empty"} -> "claim"
               [] Kind[cur'[w]] = "invalid"            -> "polling"
               [] OTHER                                -> "commit")
  /\ UNCHANGED <<log, committed, owner, claims, rows, pushes, deaths, abandoned>>

AfterClaim(w) == Goto(w, IF Kind[cur[w]] = "reply" THEN "store" ELSE "release")

\* SET NX.  An event whose id is taken is dropped; when Redis raises, the handler
\* goes on as if it were the first (the key may have been set all the same).
Claim(w) ==
  /\ phase[w] = "claim"
  /\ \/ /\ RedisWorks /\ cur[w] \notin claims
        /\ claims' = claims \cup {cur[w]} /\ AfterClaim(w)
     \/ /\ RedisWorks /\ cur[w] \in claims
        /\ Goto(w, "commit") /\ UNCHANGED claims
     \/ /\ RedisFails /\ AfterClaim(w)
        /\ claims' \in {claims} \cup (IF RedisWorks THEN {claims \cup {cur[w]}} ELSE {})
  /\ UNCHANGED <<log, committed, owner, position, cur, rows, pushes, deaths, abandoned>>

Release(w) ==
  /\ phase[w] = "release"
  /\ \/ RedisWorks /\ claims' = claims \ {cur[w]}
     \/ RedisFails /\ UNCHANGED claims
  /\ Goto(w, "commit")
  /\ UNCHANGED <<log, committed, owner, position, cur, rows, pushes, deaths, abandoned>>

Store_NoConstraint(w) ==    \* planted error: external_id is not unique
  /\ phase[w] = "store"
  /\ rows' = [rows EXCEPT ![cur[w]] = @ + 1] /\ Goto(w, "push")
  /\ UNCHANGED <<log, committed, owner, position, cur, claims, pushes, deaths, abandoned>>

Store_TellsAgain(w) ==      \* planted error: a duplicate that is rejected is published too
  /\ phase[w] = "store"
  /\ rows' = [rows EXCEPT ![cur[w]] = 1] /\ Goto(w, "push")
  /\ UNCHANGED <<log, committed, owner, position, cur, claims, pushes, deaths, abandoned>>

\* append_message and session.commit(); the unique constraint rejects a second
\* row.  An exception is logged by _outbound_handler and goes no further.
Store(w) ==
  /\ phase[w] = "store"
  /\ \/ /\ rows[cur[w]] = 0
        /\ rows' = [rows EXCEPT ![cur[w]] = @ + 1]
        /\ Goto(w, "push") /\ UNCHANGED abandoned
     \/ /\ rows[cur[w]] > 0
        /\ Goto(w, "commit") /\ UNCHANGED <<rows, abandoned>>
     \/ /\ DbMayFail
        /\ abandoned' = abandoned \cup {cur[w]}
        /\ Goto(w, "commit") /\ UNCHANGED rows
  /\ UNCHANGED <<log, committed, owner, position, cur, claims, pushes, deaths>>

\* _safe_publish: an exception of Redis is dropped.
Push(w) ==
  /\ phase[w] = "push"
  /\ \/ RedisWorks /\ pushes' = [pushes EXCEPT ![cur[w]] = @ + 1]
     \/ RedisFails /\ UNCHANGED pushes
  /\ Goto(w, "commit")
  /\ UNCHANGED <<log, committed, owner, position, cur, claims, rows, deaths, abandoned>>

\* consumer.commit() commits what this consumer has consumed of the partitions it
\* owns by then; an exception is logged and the loop goes on.
Commit(w) ==
  /\ phase[w] = "commit"
  /\ \/ owner = w /\ committed' = position[w]
     \/ UNCHANGED committed
  /\ Goto(w, "polling")
  /\ UNCHANGED <<log, owner, position, cur, claims, rows, pushes, deaths, abandoned>>

\* The claim's time to live (APP_DEDUPE_TTL_SECONDS) ends.
ClaimExpires(m) ==
  /\ m \in claims /\ claims' = claims \ {m}
  /\ UNCHANGED <<log, committed, owner, phase, position, cur, rows, pushes, deaths, abandoned>>

WorkerStep(w) ==
  Start(w) \/ Fetch(w) \/ Claim(w) \/ Release(w) \/ Store(w) \/ Push(w) \/ Commit(w)

Next ==
  \/ \E w \in Workers : WorkerStep(w) \/ Die(w)
  \/ \E m \in Msgs : Produce(m) \/ ClaimExpires(m)

Spec == Init /\ [][Next]_vars

\* A process that is down is started again and its loop goes on; nothing is said
\* of Redis, the database or the producer.
FairSpec == Spec /\ \A w \in Workers : WF_vars(WorkerStep(w))

-----------------------------------------------------------------------------
Sent(m)    == \E i \in 1..Len(log) : log[i] = m
IsReply(m) == Kind[m] = "reply"

\* Every variable holds a value the program can give it.
TypeOK ==
  /\ log \in Seq(Msgs) /\ Len(log) <= MaxLog
  /\ committed \in 0..Len(log) /\ owner \in Workers \cup {NoWorker}
  /\ phase \in [Workers -> Phases] /\ position \in [Workers -> 0..Len(log)]
  /\ cur \in [Workers -> Msgs] /\ claims \subseteq Msgs
  /\ rows \in [Msgs -> Nat] /\ pushes \in [Msgs -> Nat]
  /\ deaths \in 0..MaxDeaths /\ abandoned \subseteq Msgs

\* However often an event is sent, delivered again or handled by two processes at
\* once, it is at most one message of the conversation, the browser is told of it
\* at most once, and never of a message that is not stored.
StoredAndPushedOnce ==
  \A m \in Msgs : pushes[m] <= rows[m] /\ rows[m] <= 1

\* A reply behind the committed offset is stored, unless some process died or
\* raised while it had claimed the reply and not yet stored it, or the reply is
\* claimed by a process that is about to store it: duplicates, rebalances,
\* failed commits and an unreachable Redis alone lose nothing.
LostOnlyIfAbandoned ==
  \A i \in 1..committed :
    IsReply(log[i]) /\ rows[log[i]] = 0 =>
      \/ log[i] \in abandoned
      \/ \E w \in Workers : phase[w] = "store" /\ cur[w] = log[i]

\* The committed offset never moves back, whatever a process commits that has
\* lost the partition while it handled a record.
OffsetNeverMovesBack == [][committed' >= committed]_vars

\* Every reply in the topic is stored in the end, or was abandoned.
RepliesSettle ==
  \A m \in Msgs :
    (Sent(m) /\ IsReply(m)) ~> (rows[m] > 0 \/ m \in abandoned)

\* README: replies sent while the gateway restarts are not lost.  What the group
\* will not read again is stored or about to be.
RepliesNotLost ==
  \A i \in 1..committed :
    IsReply(log[i]) /\ rows[log[i]] = 0 =>
      \E w \in Workers : phase[w] = "store" /\ cur[w] = log[i]

-----------------------------------------------------------------------------
(***************************************************************************)
(* The invariant that every step keeps (see DeliveryProofs).               *)
(***************************************************************************)
Settled ==
  {m \in Msgs : rows[m] > 0 \/ m \in abandoned \/ \E w \in Workers : phase[w] = "store" /\ cur[w] = m}

\* Only one process publishes a row, and only the one that inserted it.
PushesAreOwned ==
  \A w \in Workers : phase[w] = "push" =>
    /\ rows[cur[w]] = 1 /\ pushes[cur[w]] = 0
    /\ \A v \in Workers \ {w} : phase[v] = "push" => cur[v] # cur[w]

\* Whoever finds a reply claimed may drop it: it is settled.  Claims are released
\* for events that are not stored only.
ClaimsAreSettled ==
  /\ \A m \in claims : IsReply(m) => m \in Settled
  /\ \A w \in Workers : phase[w] = "release" => ~IsReply(cur[w])
  /\ \A w \in Workers : phase[w] = "store" => IsReply(cur[w])

\* What the owner of the partition consumed is settled, except the record that it
\* has not claimed yet; so its commit covers nothing that is not.
ConsumedIsSettled ==
  \A w \in Workers : owner = w =>
    /\ committed <= position[w]
    /\ \A i \in 1..position[w] : IsReply(log[i]) =>
         \/ log[i] \in Settled
         \/ i > committed /\ i = position[w] /\ phase[w] = "claim" /\ cur[w] = log[i]

CommittedIsSettled == \A i \in 1..committed : IsReply(log[i]) => log[i] \in Settled

IInv ==
  /\ TypeOK /\ StoredAndPushedOnce /\ PushesAreOwned
  /\ ClaimsAreSettled /\ ConsumedIsSettled /\ CommittedIsSettled

\* The owner of the partition works on its last record and has not committed it.
InHand(i, w) ==
  i > committed /\ i = position[w] /\ phase[w] \in {"claim", "store"} /\ cur[w] = log[i]

\* With Redis down and a database that answers, nothing is abandoned: what the
\* owner of the partition consumed is stored, except the record it works on.
StoredWhenConsumed ==
  /\ claims = {}
  /\ \A i \in 1..committed : IsReply(log[i]) => rows[log[i]] > 0
  /\ \A w \in Workers : owner = w =>
       \A i \in 1..position[w] : IsReply(log[i]) => rows[log[i]] > 0 \/ InHand(i, w)

-----------------------------------------------------------------------------
(***************************************************************************)
(* The processes implement ReplyDelivery, what a user relies on.           *)
(***************************************************************************)
Replies == {m \in Msgs : IsReply(m)}

Promise == INSTANCE ReplyDelivery WITH
  settled <- Settled \cap Replies,
  stored  <- [m \in Replies |-> rows[m]],
  told    <- [m \in Replies |-> pushes[m]],
  passed  <- {log[i] : i \in 1..committed} \cap Replies

\* Through redeliveries, rebalances, deaths and an unreachable Redis, a reply is
\* taken in hand, stored, told and passed over only in the ways ReplyDelivery allows.
ImplementsReplyDelivery == Promise!Spec
=============================================================================
