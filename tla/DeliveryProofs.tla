---------------------------- MODULE DeliveryProofs ----------------------------
(***************************************************************************)
(* What is proved of the way of a reply: OutboundDelivery, up to its row   *)
(* in the table, and LiveView, from there to the page of the user.         *)
(*                                                                         *)
(* For any number of gateway processes, events, deaths and redeliveries:   *)
(* a reply is stored and pushed at most once, and the committed offset     *)
(* passes a reply only when it is stored, about to be, or was abandoned    *)
(* between claim and insert.                                               *)
(*                                                                         *)
(* The argument: a claim of a reply is never released, so whoever finds it *)
(* taken may drop its copy because the first claimer has stored it, will,  *)
(* or has failed to (ClaimsAreSettled); the owner of the partition commits *)
(* its own position only, and all records up to it are settled             *)
(* (ConsumedIsSettled); a process that lost the partition commits nothing. *)
(* So the processes implement ReplyDelivery, step by step.                 *)
(*                                                                         *)
(* For any number of conversations, messages and history requests: what    *)
(* the page shows, by LVInv.                                               *)
(***************************************************************************)
EXTENDS OutboundDelivery, LiveView, TLAPS

\* The type invariant without the sequence itself.
Types ==
  /\ phase \in [Workers -> Phases] /\ cur \in [Workers -> Msgs] /\ claims \subseteq Msgs
  /\ rows \in [Msgs -> Nat] /\ pushes \in [Msgs -> Nat] /\ Len(log) \in Nat
  /\ position \in [Workers -> 0..Len(log)] /\ committed \in 0..Len(log)
  /\ owner \in Workers \cup {NoWorker} /\ deaths \in 0..MaxDeaths /\ abandoned \subseteq Msgs

LEMMA TypeFacts == TypeOK <=> log \in Seq(Msgs) /\ Len(log) <= MaxLog /\ Types
  BY DEF TypeOK, Types

\* The record a consumer is given is a record of the topic.
LEMMA FetchFacts ==
  ASSUME TypeOK, NEW w \in Workers, Fetch(w)
  PROVE  /\ position[w] + 1 \in 1..Len(log) /\ log[position[w] + 1] \in Msgs
         /\ position' = [position EXCEPT ![w] = position[w] + 1]
         /\ cur' = [cur EXCEPT ![w] = log[position[w] + 1]]
  BY DEF Fetch, TypeOK

LEMMA ProduceFacts ==
  ASSUME TypeOK, NEW m \in Msgs, Produce(m)
  PROVE  /\ Len(log') = Len(log) + 1 /\ log' \in Seq(Msgs) /\ Len(log') <= MaxLog
         /\ \A i \in 1..Len(log) : log'[i] = log[i]
  BY BoundAssumption DEF Produce, TypeOK

LEMMA TypeInit == Init => TypeOK
<1>. SUFFICES ASSUME Init PROVE TypeOK
  OBVIOUS
<1>1. log \in Seq(Msgs) /\ Len(log) = 0 /\ Len(log) <= MaxLog
  BY BoundAssumption DEF Init
<1>2. cur \in [Workers -> Msgs]
  BY KindAssumption DEF Init
<1>3. position \in [Workers -> 0..Len(log)] /\ committed \in 0..Len(log) /\ deaths \in 0..MaxDeaths
  BY <1>1, BoundAssumption DEF Init
<1>4. phase \in [Workers -> Phases]
  BY DEF Init, Phases
<1>5. rows \in [Msgs -> Nat] /\ pushes \in [Msgs -> Nat]
  BY DEF Init
<1>6. claims \subseteq Msgs /\ abandoned \subseteq Msgs /\ owner \in Workers \cup {NoWorker}
  BY DEF Init
<1>7. QED
  BY <1>1, <1>2, <1>3, <1>4, <1>5, <1>6 DEF TypeOK

LEMMA TypeStep == TypeOK /\ [Next]_vars => TypeOK'
<1>. SUFFICES ASSUME TypeOK, [Next]_vars PROVE TypeOK'
  OBVIOUS
<1>0. Types /\ (log' = log /\ Types' => TypeOK')
  BY TypeFacts DEF TypeOK, Types
<1>. USE <1>0 DEF Types
<1>1. ASSUME NEW m \in Msgs, Produce(m) PROVE TypeOK'
  <2>1. Len(log') = Len(log) + 1 /\ log' \in Seq(Msgs) /\ Len(log') <= MaxLog
    BY <1>1, ProduceFacts
  <2>2. position' \in [Workers -> 0..Len(log')] /\ committed' \in 0..Len(log')
    BY <1>1, <2>1 DEF Produce
  <2>3. QED
    BY <1>1, <2>1, <2>2 DEF Produce, TypeOK
<1>2. ASSUME NEW m \in Msgs, ClaimExpires(m) PROVE TypeOK'
  BY <1>2 DEF ClaimExpires
<1>3. ASSUME NEW w \in Workers, Start(w) PROVE TypeOK'
  <2>1. owner' \in Workers /\ position' \in [Workers -> 0..Len(log)]
    BY <1>3 DEF Start, Assign, Running
  <2>2. phase' \in [Workers -> Phases]
    BY <1>3 DEF Start, Goto, Phases
  <2>3. QED
    BY <1>3, <2>1, <2>2 DEF Start
<1>4. ASSUME NEW w \in Workers, Die(w) PROVE TypeOK'
  <2>1. owner' \in Workers \cup {NoWorker} /\ position' \in [Workers -> 0..Len(log)]
    BY <1>4 DEF Die, Assign, Running
  <2>2. phase' \in [Workers -> Phases]
    BY <1>4 DEF Die, Goto, Phases
  <2>3. deaths' \in 0..MaxDeaths /\ abandoned' \subseteq Msgs
    BY <1>4, BoundAssumption DEF Die
  <2>4. QED
    BY <1>4, <2>1, <2>2, <2>3 DEF Die
<1>5. ASSUME NEW w \in Workers, Fetch(w) PROVE TypeOK'
  <2>0. position[w] + 1 \in 0..Len(log) /\ position' = [position EXCEPT ![w] = position[w] + 1]
    BY <1>5, FetchFacts
  <2>1. position' \in [Workers -> 0..Len(log)]
    BY <2>0
  <2>2. cur' \in [Workers -> Msgs]
    BY <1>5, FetchFacts
  <2>3. phase' \in [Workers -> Phases]
    BY <1>5 DEF Fetch, Goto, Phases
  <2>4. QED
    BY <1>5, <2>1, <2>2, <2>3 DEF Fetch
<1>6. ASSUME NEW w \in Workers, Claim(w) PROVE TypeOK'
  <2>1. phase' \in [Workers -> Phases]
    BY <1>6 DEF Claim, AfterClaim, Goto, Phases
  <2>2. claims' \subseteq Msgs
    BY <1>6 DEF Claim
  <2>3. QED
    BY <1>6, <2>1, <2>2 DEF Claim
<1>7. ASSUME NEW w \in Workers, Release(w) PROVE TypeOK'
  BY <1>7 DEF Release, Goto, Phases
<1>8. ASSUME NEW w \in Workers, Store(w) PROVE TypeOK'
  <2>1. phase' \in [Workers -> Phases]
    BY <1>8 DEF Store, Goto, Phases
  <2>2. rows' \in [Msgs -> Nat]
    BY <1>8 DEF Store
  <2>3. abandoned' \subseteq Msgs
    BY <1>8 DEF Store
  <2>4. QED
    BY <1>8, <2>1, <2>2, <2>3 DEF Store
<1>9. ASSUME NEW w \in Workers, Push(w) PROVE TypeOK'
  <2>1. phase' \in [Workers -> Phases]
    BY <1>9 DEF Push, Goto, Phases
  <2>2. pushes' \in [Msgs -> Nat]
    BY <1>9 DEF Push
  <2>3. QED
    BY <1>9, <2>1, <2>2 DEF Push
<1>10. ASSUME NEW w \in Workers, Commit(w) PROVE TypeOK'
  <2>1. phase' \in [Workers -> Phases]
    BY <1>10 DEF Commit, Goto, Phases
  <2>2. committed' \in 0..Len(log)
    BY <1>10 DEF Commit
  <2>3. QED
    BY <1>10, <2>1, <2>2 DEF Commit
<1>11. CASE UNCHANGED vars
  BY <1>11 DEF vars
<1>12. QED
  BY <1>1, <1>2, <1>3, <1>4, <1>5, <1>6, <1>7, <1>8, <1>9, <1>10, <1>11 DEF Next, WorkerStep

\* Stored, abandoned, or about to be stored by some process: once it is one of
\* these, an event stays one of these.
LEMMA SettledStays ==
  ASSUME TypeOK, [Next]_vars PROVE Settled \subseteq Settled'
<1>. SUFFICES ASSUME NEW e \in Msgs, e \in Settled PROVE e \in Settled'
  BY DEF Settled
<1>. USE TypeFacts DEF Types, Settled, Goto
<1>1. ASSUME NEW m \in Msgs, Produce(m) \/ ClaimExpires(m) PROVE e \in Settled'
  BY <1>1 DEF Produce, ClaimExpires
<1>2. ASSUME NEW w \in Workers, Start(w) \/ Claim(w) \/ Release(w) \/ Push(w) \/ Commit(w)
      PROVE e \in Settled'
  BY <1>2 DEF Start, Claim, AfterClaim, Release, Push, Commit
<1>3. ASSUME NEW w \in Workers, Die(w) PROVE e \in Settled'
  BY <1>3 DEF Die
<1>4. ASSUME NEW w \in Workers, Fetch(w) PROVE e \in Settled'
  <2>1. \A v \in Workers : phase[v] = "store" => phase'[v] = "store" /\ cur'[v] = cur[v]
    BY <1>4, FetchFacts DEF Fetch
  <2>2. QED
    BY <1>4, <2>1 DEF Fetch
<1>5. ASSUME NEW w \in Workers, Store(w) PROVE e \in Settled'
  <2>1. cur[w] = e => rows'[e] > 0 \/ e \in abandoned'
    BY <1>5 DEF Store
  <2>2. rows'[e] >= rows[e] /\ abandoned \subseteq abandoned'
    BY <1>5 DEF Store
  <2>3. \A v \in Workers \ {w} : phase'[v] = phase[v] /\ cur'[v] = cur[v]
    BY <1>5 DEF Store
  <2>4. CASE \E v \in Workers : phase[v] = "store" /\ cur[v] = e
    BY <2>1, <2>3, <2>4
  <2>5. QED
    BY <1>5, <2>2, <2>4 DEF Store
<1>6. CASE UNCHANGED vars
  BY <1>6 DEF vars
<1>7. QED
  BY <1>1, <1>2, <1>3, <1>4, <1>5, <1>6 DEF Next, WorkerStep
\* The part of the topic that is there never changes.
LEMMA LogStays ==
  ASSUME TypeOK, [Next]_vars
  PROVE  /\ Len(log) <= Len(log')
         /\ \A i \in 1..Len(log) : log'[i] = log[i] /\ log[i] \in Msgs
<1>1. \A i \in 1..Len(log) : log[i] \in Msgs
  BY DEF TypeOK
<1>2. Len(log) \in Nat
  BY DEF TypeOK
<1>3. ASSUME NEW m \in Msgs, Produce(m)
      PROVE Len(log) <= Len(log') /\ \A i \in 1..Len(log) : log'[i] = log[i]
  BY <1>2, <1>3, ProduceFacts
<1>4. ASSUME ~\E m \in Msgs : Produce(m) PROVE log' = log
  BY <1>4 DEF Next, WorkerStep, vars, Start, Die, Fetch, Claim, Release, Store, Push, Commit, ClaimExpires
<1>5. QED
  BY <1>1, <1>2, <1>3, <1>4

LEMMA RowsStep ==
  ASSUME TypeOK, StoredAndPushedOnce, PushesAreOwned, [Next]_vars PROVE StoredAndPushedOnce'
<1>0. cur \in [Workers -> Msgs] /\ rows \in [Msgs -> Nat] /\ pushes \in [Msgs -> Nat]
  BY DEF TypeOK
<1>. USE <1>0 DEF StoredAndPushedOnce, PushesAreOwned
<1>1. ASSUME NEW w \in Workers, Store(w) PROVE StoredAndPushedOnce'
  BY <1>1 DEF Store
<1>2. ASSUME NEW w \in Workers, Push(w) PROVE StoredAndPushedOnce'
  BY <1>2 DEF Push
<1>3. ASSUME NEW w \in Workers,
             Start(w) \/ Die(w) \/ Fetch(w) \/ Claim(w) \/ Release(w) \/ Commit(w)
      PROVE  StoredAndPushedOnce'
  BY <1>3 DEF Start, Die, Fetch, Claim, Release, Commit
<1>4. ASSUME NEW m \in Msgs, Produce(m) \/ ClaimExpires(m) PROVE StoredAndPushedOnce'
  BY <1>4 DEF Produce, ClaimExpires
<1>5. CASE UNCHANGED vars
  BY <1>5 DEF vars
<1>6. QED
  BY <1>1, <1>2, <1>3, <1>4, <1>5 DEF Next, WorkerStep

LEMMA PushesStep ==
  ASSUME TypeOK, StoredAndPushedOnce, PushesAreOwned, [Next]_vars PROVE PushesAreOwned'
<1>0. Types
  BY TypeFacts
<1>. USE <1>0 DEF Types, StoredAndPushedOnce, PushesAreOwned, Goto
<1>1. ASSUME NEW w \in Workers, Store(w) PROVE PushesAreOwned'
  BY <1>1 DEF Store
<1>2. ASSUME NEW w \in Workers, Push(w) PROVE PushesAreOwned'
  BY <1>2 DEF Push
<1>3. ASSUME NEW w \in Workers, Fetch(w) PROVE PushesAreOwned'
  <2>1. \A v \in Workers : phase'[v] = "push" => phase[v] = "push" /\ cur'[v] = cur[v]
    BY <1>3, FetchFacts DEF Fetch
  <2>2. QED
    BY <1>3, <2>1 DEF Fetch
<1>4. ASSUME NEW w \in Workers, Start(w) \/ Die(w) \/ Release(w) \/ Commit(w) PROVE PushesAreOwned'
  BY <1>4 DEF Start, Die, Release, Commit
<1>5. ASSUME NEW w \in Workers, Claim(w) PROVE PushesAreOwned'
  BY <1>5 DEF Claim, AfterClaim
<1>6. ASSUME NEW m \in Msgs, Produce(m) \/ ClaimExpires(m) PROVE PushesAreOwned'
  BY <1>6 DEF Produce, ClaimExpires
<1>7. CASE UNCHANGED vars
  BY <1>7 DEF vars
<1>8. QED
  BY <1>1, <1>2, <1>3, <1>4, <1>5, <1>6, <1>7 DEF Next, WorkerStep

\* A reply stays claimed or becomes unclaimed only when its claim expires; so the
\* two ways to "store" and to "release" tell replies and other events apart.
LEMMA ClaimsStep ==
  ASSUME TypeOK, ClaimsAreSettled, [Next]_vars PROVE ClaimsAreSettled'
<1>0. Types /\ Settled \subseteq Settled'
  BY TypeFacts, SettledStays
<1>. USE <1>0 DEF Types, ClaimsAreSettled, IsReply, Goto
<1>1. ASSUME NEW w \in Workers, Claim(w) PROVE ClaimsAreSettled'
  <2>1. /\ \A v \in Workers : phase'[v] = "release" => ~IsReply(cur[v])
        /\ \A v \in Workers : phase'[v] = "store" => IsReply(cur[v])
    BY <1>1 DEF Claim, AfterClaim
  <2>2. claims' # claims => claims' = claims \cup {cur[w]} /\ (IsReply(cur[w]) => cur[w] \in Settled')
    BY <1>1 DEF Claim, AfterClaim, Settled
  <2>3. QED
    BY <1>1, <2>1, <2>2 DEF Claim
<1>2. ASSUME NEW w \in Workers, Fetch(w) PROVE ClaimsAreSettled'
  <2>1. \A v \in Workers : phase'[v] \in {"release", "store"} => phase'[v] = phase[v] /\ cur'[v] = cur[v]
    BY <1>2, FetchFacts DEF Fetch
  <2>2. QED
    BY <1>2, <2>1 DEF Fetch
<1>3. ASSUME NEW w \in Workers, Start(w) \/ Die(w) \/ Release(w) \/ Store(w) \/ Push(w) \/ Commit(w)
      PROVE  ClaimsAreSettled'
  BY <1>3 DEF Start, Die, Release, Store, Push, Commit
<1>4. ASSUME NEW m \in Msgs, Produce(m) \/ ClaimExpires(m) PROVE ClaimsAreSettled'
  BY <1>4 DEF Produce, ClaimExpires
<1>5. CASE UNCHANGED vars
  BY <1>5 DEF vars
<1>6. QED
  BY <1>1, <1>2, <1>3, <1>4, <1>5 DEF Next, WorkerStep

\* A consumer that owns the partition and is past the claim has settled all that
\* it consumed, so what it commits is settled.
LEMMA CommittedStep ==
  ASSUME TypeOK, ConsumedIsSettled, CommittedIsSettled, [Next]_vars
  PROVE  CommittedIsSettled' /\ committed <= committed'
<1>0. Types /\ Settled \subseteq Settled'
  BY TypeFacts, SettledStays
<1>1. \A i \in 1..Len(log) : log'[i] = log[i] /\ log[i] \in Msgs
  BY LogStays
<1>2. ASSUME NEW n \in 0..Len(log), committed' = n,
             \A i \in 1..n : IsReply(log[i]) => log[i] \in Settled
      PROVE  CommittedIsSettled'
  <2>1. \A i \in 1..n : i \in 1..Len(log)
    BY <1>0 DEF Types
  <2>2. QED
    BY <1>0, <1>1, <1>2, <2>1 DEF CommittedIsSettled, IsReply
<1>3. ASSUME committed' # committed
      PROVE  \E w \in Workers : phase[w] = "commit" /\ owner = w /\ committed' = position[w]
  BY <1>3 DEF Next, WorkerStep, vars, Start, Die, Fetch, Claim, Release, Store, Push, Commit, Produce, ClaimExpires
<1>4. ASSUME NEW w \in Workers, phase[w] = "commit", owner = w, committed' = position[w]
      PROVE  CommittedIsSettled' /\ committed <= committed'
  <2>1. committed <= position[w] /\ \A i \in 1..position[w] : IsReply(log[i]) => log[i] \in Settled
    BY <1>4 DEF ConsumedIsSettled
  <2>2. position[w] \in 0..Len(log)
    BY <1>0 DEF Types
  <2>3. QED
    BY <1>2, <1>4, <2>1, <2>2
<1>5. CASE committed' = committed
  BY <1>0, <1>2, <1>5 DEF Types, CommittedIsSettled
<1>6. QED
  BY <1>3, <1>4, <1>5

LEMMA ConsumedStep ==
  ASSUME TypeOK, ClaimsAreSettled, ConsumedIsSettled, CommittedIsSettled, [Next]_vars
  PROVE  ConsumedIsSettled'
<1>0. Types /\ Settled \subseteq Settled'
  BY TypeFacts, SettledStays
<1>1. \A i \in 1..Len(log) : log'[i] = log[i] /\ log[i] \in Msgs
  BY LogStays
<1>. USE <1>0, <1>1, WorkerAssumption DEF Types, ConsumedIsSettled, IsReply
\* Most steps leave the owner, its position and a record it has not claimed alone.
<1>2. ASSUME owner' = owner, position' = position, committed' = committed,
             \A v \in Workers : owner = v /\ phase[v] = "claim" => phase'[v] = "claim" /\ cur'[v] = cur[v]
      PROVE  ConsumedIsSettled'
  BY <1>2
<1>3. ASSUME NEW w \in Workers, owner' = w, committed' <= position[w], position' = position,
              \A i \in 1..position[w] : IsReply(log[i]) => log[i] \in Settled'
       PROVE  ConsumedIsSettled'
  <2>1. position[w] \in 0..Len(log)
    OBVIOUS
  <2>2. \A i \in 1..position[w] : log'[i] = log[i]
    BY <2>1
  <2>3. \A i \in 1..position'[w] : IsReply(log'[i]) => log'[i] \in Settled'
    BY <1>3, <2>2
  <2>4. QED
    BY <1>3, <2>3
<1>4. ASSUME NEW m \in Msgs, Produce(m) \/ ClaimExpires(m) PROVE ConsumedIsSettled'
  BY <1>2, <1>4 DEF Produce, ClaimExpires
<1>5. ASSUME NEW w \in Workers, Release(w) \/ Store(w) \/ Push(w) PROVE ConsumedIsSettled'
  BY <1>2, <1>5 DEF Release, Store, Push, Goto
\* The partition is assigned anew: reading goes on from the committed offset.
<1>6. ASSUME NEW v \in Workers, Assign(v), committed' = committed PROVE ConsumedIsSettled'
  <2>1. owner' = v /\ position'[v] = committed
    BY <1>6 DEF Assign
  <2>2. CommittedIsSettled'
    BY CommittedStep
  <2>3. QED
    BY <1>6, <2>1, <2>2 DEF CommittedIsSettled
<1>7. ASSUME NEW w \in Workers, Start(w) PROVE ConsumedIsSettled'
  <2>1. PICK o \in Workers : Assign(o) /\ committed' = committed
    BY <1>7 DEF Start, Running
  <2>2. QED
    BY <1>6, <2>1
<1>8. ASSUME NEW w \in Workers, Die(w) PROVE ConsumedIsSettled'
  <2>1. CASE owner = w
    <3>1. committed' = committed
      BY <1>8 DEF Die
    <3>2. CASE \E o \in Workers : Assign(o)
      BY <1>6, <3>1, <3>2
    <3>3. CASE owner' = NoWorker
      BY <3>3
    <3>4. QED
      BY <1>8, <2>1, <3>2, <3>3 DEF Die, Running
  <2>2. CASE owner # w
    BY <1>8, <2>2 DEF Die, Goto
  <2>3. QED
    BY <2>1, <2>2
<1>9. ASSUME NEW w \in Workers, Fetch(w) PROVE ConsumedIsSettled'
  <2>1. /\ position[w] + 1 \in 1..Len(log)
        /\ position' = [position EXCEPT ![w] = position[w] + 1]
        /\ cur' = [cur EXCEPT ![w] = log[position[w] + 1]]
    BY <1>9, FetchFacts
  <2>2. owner = w /\ owner' = w /\ committed' = committed /\ phase[w] = "polling"
    BY <1>9 DEF Fetch
  <2>3. IsReply(log[position[w] + 1]) => phase'[w] = "claim"
    BY <1>9, <2>1 DEF Fetch, Goto
  <2>4. committed <= position[w] /\ \A i \in 1..position[w] : IsReply(log[i]) => log[i] \in Settled
    BY <2>2
  <2>5. position'[w] = position[w] + 1 /\ cur'[w] = log[position[w] + 1]
    BY <2>1
  <2>6. ASSUME NEW i \in 1..position'[w], IsReply(log'[i])
        PROVE  \/ log'[i] \in Settled'
               \/ i > committed' /\ i = position'[w] /\ phase'[w] = "claim" /\ cur'[w] = log'[i]
    <3>1. i \in 1..Len(log) /\ log'[i] = log[i]
      BY <2>1, <2>5
    <3>2. CASE i \in 1..position[w]
      BY <2>4, <2>6, <3>1, <3>2
    <3>3. CASE i = position[w] + 1
      BY <2>2, <2>3, <2>4, <2>5, <2>6, <3>1, <3>3
    <3>4. QED
      BY <2>1, <2>5, <3>2, <3>3
  <2>7. QED
    BY <2>2, <2>4, <2>5, <2>6
<1>10. ASSUME NEW w \in Workers, Claim(w) PROVE ConsumedIsSettled'
  <2>1. phase[w] = "claim" /\ (IsReply(cur[w]) => cur[w] \in Settled')
    BY <1>10 DEF Claim, AfterClaim, Goto, ClaimsAreSettled, Settled
  <2>2. \A v \in Workers \ {w} : phase'[v] = phase[v]
    BY <1>10 DEF Claim, AfterClaim, Goto
  <2>3. owner' = owner /\ position' = position /\ committed' = committed /\ cur' = cur
    BY <1>10 DEF Claim
  <2>4. CASE owner = w
    <3>1. \A i \in 1..position[w] : IsReply(log[i]) => log[i] \in Settled'
      BY <2>1, <2>4
    <3>2. committed <= position[w]
      BY <2>4
    <3>3. QED
      BY <1>3, <2>3, <2>4, <3>1, <3>2
  <2>5. CASE owner # w
    <3>1. \A v \in Workers : owner = v /\ phase[v] = "claim" => phase'[v] = "claim" /\ cur'[v] = cur[v]
      BY <2>2, <2>3, <2>5
    <3>2. QED
      BY <1>2, <2>3, <3>1
  <2>6. QED
    BY <2>4, <2>5
<1>11. ASSUME NEW w \in Workers, Commit(w) PROVE ConsumedIsSettled'
  <2>1. owner' = owner /\ position' = position /\ cur' = cur /\ phase[w] = "commit"
    BY <1>11 DEF Commit
  <2>2. \A v \in Workers \ {w} : phase'[v] = phase[v]
    BY <1>11 DEF Commit, Goto
  <2>3. committed' = committed \/ (owner = w /\ committed' = position[w])
    BY <1>11 DEF Commit
  <2>4. CASE owner = w
    <3>1. \A i \in 1..position[w] : IsReply(log[i]) => log[i] \in Settled'
      BY <2>1, <2>4
    <3>2. committed' <= position[w]
      BY <2>1, <2>3, <2>4
    <3>3. QED
      BY <1>3, <2>1, <2>4, <3>1, <3>2
  <2>5. CASE owner # w
    <3>1. committed' = committed
      BY <2>3, <2>5
    <3>2. \A v \in Workers : owner = v /\ phase[v] = "claim" => phase'[v] = "claim" /\ cur'[v] = cur[v]
      BY <2>1, <2>2, <2>5
    <3>3. QED
      BY <1>2, <2>1, <3>1, <3>2
  <2>6. QED
    BY <2>4, <2>5
<1>12. CASE UNCHANGED vars
  BY <1>2, <1>12 DEF vars
<1>13. QED
  BY <1>4, <1>5, <1>7, <1>8, <1>9, <1>10, <1>11, <1>12 DEF Next, WorkerStep

-----------------------------------------------------------------------------
LEMMA InvInit == Init => IInv
<1>. SUFFICES ASSUME Init PROVE IInv
  OBVIOUS
<1>1. TypeOK
  BY TypeInit
<1>2. StoredAndPushedOnce /\ PushesAreOwned /\ ClaimsAreSettled /\ CommittedIsSettled /\ ConsumedIsSettled
  BY WorkerAssumption DEF Init, StoredAndPushedOnce, PushesAreOwned, ClaimsAreSettled,
     CommittedIsSettled, ConsumedIsSettled
<1>3. QED
  BY <1>1, <1>2 DEF IInv

LEMMA InvStep == IInv /\ [Next]_vars => IInv'
  BY TypeStep, RowsStep, PushesStep, ClaimsStep, CommittedStep, ConsumedStep DEF IInv

\* The parts of IInv hold together in every state.
THEOREM Invariant == Spec => []IInv
<1>1. QED
  BY InvInit, InvStep, PTL DEF Spec

\* Every variable holds a value the program can give it.
THEOREM TypeCorrect == Spec => []TypeOK
<1>1. IInv => TypeOK
  BY DEF IInv
<1>2. QED
  BY <1>1, Invariant, PTL

\* However often an event is sent, delivered or handled at the same time, it is at
\* most one row of messages and one SSE event, and no SSE event precedes its row.
THEOREM StoredOnce == Spec => []StoredAndPushedOnce
<1>1. IInv => StoredAndPushedOnce
  BY DEF IInv
<1>2. QED
  BY <1>1, Invariant, PTL

\* A reply behind the committed offset is stored or about to be, unless a handler
\* ended between the claim and the insert of that very reply.
THEOREM NothingElseIsLost == Spec => []LostOnlyIfAbandoned
<1>1. IInv => LostOnlyIfAbandoned
  <2>. SUFFICES ASSUME IInv, NEW i \in 1..committed, IsReply(log[i]), rows[log[i]] = 0
                PROVE  log[i] \in abandoned \/ \E w \in Workers : phase[w] = "store" /\ cur[w] = log[i]
    BY DEF LostOnlyIfAbandoned
  <2>1. log[i] \in Settled
    BY DEF IInv, CommittedIsSettled
  <2>2. QED
    BY <2>1 DEF Settled
<1>2. QED
  BY <1>1, Invariant, PTL

\* No commit moves the group's offset back, also when the process that commits
\* was slow and the partition has gone to another one meanwhile.
THEOREM OffsetGrows == Spec => OffsetNeverMovesBack
<1>1. IInv /\ [Next]_vars => [committed' >= committed]_vars
  <2>. SUFFICES ASSUME IInv, [Next]_vars PROVE committed' >= committed
    OBVIOUS
  <2>1. committed <= committed'
    BY CommittedStep DEF IInv
  <2>2. committed \in Nat /\ committed' \in Nat
    BY TypeStep, TypeFacts DEF IInv, Types, TypeOK
  <2>3. QED
    BY <2>1, <2>2
<1>2. QED
  BY <1>1, Invariant, PTL DEF Spec, OffsetNeverMovesBack

-----------------------------------------------------------------------------
\* No row is taken back.
LEMMA RowsGrow ==
  ASSUME TypeOK, [Next]_vars, NEW m \in Msgs, rows[m] > 0 PROVE rows'[m] > 0
<1>1. rows[m] \in Nat
  BY DEF TypeOK
<1>2. ASSUME NEW w \in Workers, Store(w) PROVE rows'[m] > 0
  BY <1>1, <1>2, TypeFacts DEF Store, Types
<1>3. ASSUME ~\E w \in Workers : Store(w) PROVE rows' = rows
  BY <1>3 DEF Next, WorkerStep, vars, Start, Die, Fetch, Claim, Release, Push, Commit, Produce, ClaimExpires
<1>4. QED
  BY <1>2, <1>3

\* Without Redis no record is passed over as a duplicate: the owner of the
\* partition stores each reply itself before it goes on.
LEMMA StoredStep ==
  ASSUME ~RedisWorks, ~DbMayFail, IInv, StoredWhenConsumed, [Next]_vars
  PROVE  StoredWhenConsumed'
<1>0. Types /\ \A m \in Msgs : rows[m] > 0 => rows'[m] > 0
  BY TypeFacts, RowsGrow DEF IInv
<1>1. \A i \in 1..Len(log) : log'[i] = log[i] /\ log[i] \in Msgs
  BY LogStays DEF IInv
<1>2. /\ claims = {}
      /\ \A i \in 1..committed : IsReply(log[i]) => rows[log[i]] > 0
  BY DEF StoredWhenConsumed
<1>3. ASSUME NEW w \in Workers, owner = w
      PROVE  /\ committed <= position[w]
             /\ \A i \in 1..position[w] : IsReply(log[i]) => rows[log[i]] > 0 \/ InHand(i, w)
  BY <1>3 DEF StoredWhenConsumed, IInv, ConsumedIsSettled
<1>4. claims' = {}
  BY <1>2 DEF Next, WorkerStep, vars, Start, Die, Fetch, Claim, Release, Store, Push, Commit,
     Produce, ClaimExpires
<1>. USE <1>0, <1>1, WorkerAssumption DEF Types, IsReply
\* The rest of StoredWhenConsumed', from what a step does to the partition.
<1>5. ASSUME committed' = committed, owner' = owner, position' = position,
             \A w \in Workers : \A i \in 1..position[w] :
               owner = w /\ IsReply(log[i]) /\ InHand(i, w) => rows'[log[i]] > 0 \/ InHand(i, w)'
      PROVE  StoredWhenConsumed'
  <2>1. \A i \in 1..committed' : IsReply(log'[i]) => rows'[log'[i]] > 0
    <3>1. committed \in 0..Len(log)
      OBVIOUS
    <3>2. \A i \in 1..committed : i \in 1..Len(log)
      BY <3>1
    <3>3. QED
      BY <1>2, <1>5, <3>2
  <2>2. ASSUME NEW w \in Workers, owner' = w, NEW i \in 1..position'[w], IsReply(log'[i])
        PROVE  rows'[log'[i]] > 0 \/ InHand(i, w)'
    <3>1. owner = w /\ i \in 1..position[w] /\ position[w] \in 0..Len(log)
      BY <1>5, <2>2
    <3>2. log'[i] = log[i] /\ log[i] \in Msgs
      <4>1. i \in 1..Len(log)
        BY <3>1
      <4>2. QED
        BY <4>1
    <3>3. rows[log[i]] > 0 \/ InHand(i, w)
      BY <1>3, <2>2, <3>1, <3>2
    <3>4. rows'[log[i]] > 0 \/ InHand(i, w)'
      BY <1>5, <2>2, <3>1, <3>2, <3>3
    <3>5. QED
      BY <3>2, <3>4
  <2>3. QED
    BY <1>4, <2>1, <2>2 DEF StoredWhenConsumed
<1>6. ASSUME NEW w \in Workers, owner' = w, position'[w] \in 0..Len(log), committed' \in 0..Len(log),
             committed' <= position'[w],
             \A i \in 1..position'[w] : IsReply(log[i]) => rows[log[i]] > 0
      PROVE  StoredWhenConsumed'
  <2>1. \A i \in 1..position'[w] : log'[i] = log[i] /\ (IsReply(log[i]) => rows'[log[i]] > 0)
    BY <1>6
  <2>2. \A i \in 1..committed' : i \in 1..position'[w]
    BY <1>6
  <2>3. QED
    BY <1>4, <1>6, <2>1, <2>2 DEF StoredWhenConsumed
<1>7. ASSUME NEW m \in Msgs, Produce(m) \/ ClaimExpires(m) PROVE StoredWhenConsumed'
  BY <1>5, <1>7 DEF Produce, ClaimExpires, InHand
<1>8. ASSUME NEW v \in Workers, Assign(v), committed' = committed PROVE StoredWhenConsumed'
  <2>1. owner' = v /\ position'[v] = committed
    BY <1>8 DEF Assign
  <2>2. committed \in 0..Len(log) /\ committed \in Nat
    OBVIOUS
  <2>3. /\ position'[v] \in 0..Len(log) /\ committed' \in 0..Len(log)
        /\ committed' <= position'[v]
    BY <1>8, <2>1, <2>2
  <2>4. \A i \in 1..position'[v] : IsReply(log[i]) => rows[log[i]] > 0
    BY <1>2, <2>1
  <2>5. QED
    BY <1>6, <2>1, <2>3, <2>4
<1>9. ASSUME NEW w \in Workers, Start(w) PROVE StoredWhenConsumed'
  <2>1. PICK o \in Workers : Assign(o) /\ committed' = committed
    BY <1>9 DEF Start, Running
  <2>2. QED
    BY <1>8, <2>1
<1>10. ASSUME NEW w \in Workers, Die(w) PROVE StoredWhenConsumed'
  <2>1. CASE owner = w /\ owner' # NoWorker
    BY <1>8, <1>10, <2>1 DEF Die, Running
  <2>2. CASE owner = w /\ owner' = NoWorker
    BY <1>2, <1>4, <1>10, <2>2 DEF Die, StoredWhenConsumed
  <2>3. CASE owner # w
    <3>1. committed' = committed /\ owner' = owner /\ position' = position /\ cur' = cur
      BY <1>10, <2>3 DEF Die
    <3>2. \A v \in Workers \ {w} : phase'[v] = phase[v]
      BY <1>10 DEF Die, Goto
    <3>3. ASSUME NEW v \in Workers, NEW i \in 1..position[v], owner = v, InHand(i, v)
          PROVE  InHand(i, v)'
      <4>1. v # w /\ phase'[v] = phase[v]
        BY <2>3, <3>2, <3>3
      <4>2. log' = log
        BY <1>10 DEF Die
      <4>3. QED
        BY <3>1, <3>3, <4>1, <4>2 DEF InHand
    <3>4. QED
      BY <1>5, <3>1, <3>3
  <2>4. QED
    BY <2>1, <2>2, <2>3
<1>11. ASSUME NEW w \in Workers, Fetch(w) PROVE StoredWhenConsumed'
  <2>1. /\ position[w] + 1 \in 1..Len(log)
        /\ position' = [position EXCEPT ![w] = position[w] + 1]
        /\ cur' = [cur EXCEPT ![w] = log[position[w] + 1]]
    BY <1>11, FetchFacts DEF IInv
  <2>2. owner = w /\ owner' = w /\ committed' = committed /\ phase[w] = "polling"
    BY <1>11 DEF Fetch
  <2>3. IsReply(log[position[w] + 1]) => phase'[w] = "claim"
    BY <1>11, <2>1 DEF Fetch, Goto
  <2>4. committed <= position[w] /\ \A i \in 1..position[w] : IsReply(log[i]) => rows'[log[i]] > 0
    <3>1. \A i \in 1..position[w] : ~InHand(i, w)
      BY <2>2 DEF InHand
    <3>2. ASSUME NEW i \in 1..position[w], IsReply(log[i]) PROVE rows'[log[i]] > 0
      <4>1. rows[log[i]] > 0
        BY <1>3, <2>2, <3>1, <3>2
      <4>2. i \in 1..Len(log)
        BY <2>1
      <4>3. QED
        BY <4>1, <4>2
    <3>3. QED
      BY <1>3, <2>2, <3>2
  <2>5. \A i \in 1..committed' : IsReply(log'[i]) => rows'[log'[i]] > 0
    <3>1. \A i \in 1..committed : i \in 1..position[w] /\ i \in 1..Len(log)
      <4>1. committed <= position[w] /\ position[w] <= Len(log)
        BY <2>4
      <4>2. committed \in Nat /\ position[w] \in Nat /\ Len(log) \in Nat
        BY <2>1
      <4>3. QED
        BY <4>1, <4>2
    <3>2. QED
      BY <2>2, <2>4, <3>1
  <2>6. ASSUME NEW i \in 1..position'[w], IsReply(log'[i]) PROVE rows'[log'[i]] > 0 \/ InHand(i, w)'
    <3>1. position'[w] = position[w] + 1 /\ cur'[w] = log[position[w] + 1] /\ log'[i] = log[i]
      BY <2>1
    <3>2. CASE i \in 1..position[w]
      BY <2>4, <2>6, <3>1, <3>2
    <3>3. CASE i = position[w] + 1
      <4>1. i > committed
        BY <2>4, <3>3
      <4>2. QED
        BY <2>2, <2>3, <2>6, <3>1, <3>3, <4>1 DEF InHand
    <3>4. QED
      BY <3>1, <3>2, <3>3
  <2>7. QED
    BY <1>4, <2>2, <2>5, <2>6 DEF StoredWhenConsumed
<1>12. ASSUME NEW w \in Workers, Claim(w) PROVE StoredWhenConsumed'
  <2>1. committed' = committed /\ owner' = owner /\ position' = position /\ cur' = cur
    BY <1>12 DEF Claim
  <2>2. \A v \in Workers \ {w} : phase'[v] = phase[v]
    BY <1>12 DEF Claim, AfterClaim, Goto
  <2>3. IsReply(cur[w]) => phase'[w] = "store"
    BY <1>12 DEF Claim, AfterClaim, Goto
  <2>4. QED
    BY <1>5, <2>1, <2>2, <2>3 DEF InHand
<1>13. ASSUME NEW w \in Workers, Store(w) PROVE StoredWhenConsumed'
  <2>1. committed' = committed /\ owner' = owner /\ position' = position /\ cur' = cur
    BY <1>13 DEF Store
  <2>2. \A v \in Workers \ {w} : phase'[v] = phase[v]
    BY <1>13 DEF Store, Goto
  <2>3. rows'[cur[w]] > 0
    BY <1>13 DEF Store
  <2>4. QED
    BY <1>5, <2>1, <2>2, <2>3 DEF InHand
<1>14. ASSUME NEW w \in Workers, Release(w) \/ Push(w) PROVE StoredWhenConsumed'
  <2>1. committed' = committed /\ owner' = owner /\ position' = position /\ cur' = cur
    BY <1>14 DEF Release, Push
  <2>2. (\A v \in Workers \ {w} : phase'[v] = phase[v]) /\ phase[w] \in {"release", "push"}
    BY <1>14 DEF Release, Push, Goto
  <2>3. QED
    BY <1>5, <2>1, <2>2 DEF InHand
<1>15. ASSUME NEW w \in Workers, Commit(w) PROVE StoredWhenConsumed'
  <2>1. owner' = owner /\ position' = position /\ cur' = cur /\ phase[w] = "commit"
    BY <1>15 DEF Commit
  <2>2. \A v \in Workers \ {w} : phase'[v] = phase[v]
    BY <1>15 DEF Commit, Goto
  <2>3. committed' = committed \/ (owner = w /\ committed' = position[w])
    BY <1>15 DEF Commit
  <2>4. CASE owner = w
    <3>1. committed <= position[w] /\ \A i \in 1..position[w] : IsReply(log[i]) => rows[log[i]] > 0
      BY <1>3, <2>1, <2>4 DEF InHand
    <3>2. position[w] \in 0..Len(log) /\ committed' \in 0..Len(log) /\ committed' <= position[w]
      BY <2>3, <2>4, <3>1
    <3>3. QED
      BY <1>6, <2>1, <2>4, <3>1, <3>2
  <2>5. CASE owner # w
    BY <1>5, <2>1, <2>2, <2>3, <2>5 DEF InHand
  <2>6. QED
    BY <2>4, <2>5
<1>16. CASE UNCHANGED vars
  BY <1>5, <1>16 DEF vars, InHand
<1>17. QED
  BY <1>7, <1>9, <1>10, <1>11, <1>12, <1>13, <1>14, <1>15, <1>16 DEF Next, WorkerStep

\* As long as Redis is down and the database answers, no reply is lost by any
\* number of restarts, rebalances and failed commits: the unique constraint is
\* enough ("degrades to the database's unique constraint", orchestrator.py).  It
\* is the claim that makes a restart lose a reply (run outbound_restart).
THEOREM NothingLostWithoutRedis ==
  ASSUME ~RedisWorks, ~DbMayFail PROVE Spec => []RepliesNotLost
<1>1. Init => StoredWhenConsumed
  BY WorkerAssumption DEF Init, StoredWhenConsumed
<1>2. IInv /\ StoredWhenConsumed /\ [Next]_vars => StoredWhenConsumed'
  BY StoredStep
<1>3. TypeOK /\ StoredWhenConsumed => RepliesNotLost
  <2>. SUFFICES ASSUME TypeOK, StoredWhenConsumed, NEW i \in 1..committed,
                       IsReply(log[i]), rows[log[i]] = 0
                PROVE  FALSE
    BY DEF RepliesNotLost
  <2>1. rows[log[i]] > 0
    BY DEF StoredWhenConsumed
  <2>2. QED
    BY <2>1
<1>4. QED
  BY <1>1, <1>2, <1>3, Invariant, TypeCorrect, PTL DEF Spec

-----------------------------------------------------------------------------
(* The refinement of ReplyDelivery.                                        *)

\* A reply is settled by the claim of the process that is to store it, and by nothing
\* else: what is stored or given up was in hand.
LEMMA WhatSettles ==
  ASSUME TypeOK, [Next]_vars
  PROVE  \/ Settled' = Settled
         \/ \E w \in Workers : Claim(w) /\ Settled' = Settled \cup {cur[w]}
<1>0. Types /\ Settled \subseteq Settled'
  BY TypeFacts, SettledStays
<1>1. ASSUME NEW m \in Msgs, rows'[m] > 0 PROVE m \in Settled
  <2>1. CASE rows' = rows
    BY <1>1, <2>1 DEF Settled
  <2>2. CASE \E w \in Workers : Store(w)
    <3>1. PICK w \in Workers : phase[w] = "store" /\ (rows' = rows \/ rows' = [rows EXCEPT ![cur[w]] = rows[cur[w]] + 1])
      BY <2>2 DEF Store
    <3>2. CASE m = cur[w]
      BY <3>1, <3>2 DEF Settled
    <3>3. CASE m # cur[w]
      <4>1. rows'[m] = rows[m]
        BY <1>0, <3>1, <3>3 DEF Types
      <4>2. QED
        BY <1>1, <4>1 DEF Settled
    <3>4. QED
      BY <3>2, <3>3
  <2>3. QED
    BY <2>1, <2>2 DEF Next, WorkerStep, vars, Start, Die, Fetch, Claim, Release, Push, Commit, Produce, ClaimExpires
<1>2. ASSUME NEW m \in abandoned' PROVE m \in Settled
  <2>1. abandoned \subseteq Msgs /\ cur \in [Workers -> Msgs]
    BY <1>0 DEF Types
  <2>2. CASE m \in abandoned
    BY <2>1, <2>2 DEF Settled
  <2>3. CASE m \notin abandoned
    <3>1. \E w \in Workers : phase[w] = "store" /\ m = cur[w]
      BY <1>2, <2>3 DEF Next, WorkerStep, vars, Start, Die, Fetch, Claim, Release, Store, Push, Commit,
         Produce, ClaimExpires
    <3>2. QED
      BY <2>1, <3>1 DEF Settled
  <2>4. QED
    BY <2>2, <2>3
<1>3. ASSUME NEW v \in Workers, phase'[v] = "store", ~Claim(v)
      PROVE  phase[v] = "store" /\ cur'[v] = cur[v]
  <2>1. phase \in [Workers -> Phases] /\ cur \in [Workers -> Msgs]
    BY <1>0 DEF Types
  <2>2. CASE \E m \in Msgs : Produce(m) \/ ClaimExpires(m)
    BY <1>3, <2>2 DEF Produce, ClaimExpires
  <2>3. ASSUME NEW w \in Workers, w # v, WorkerStep(w) \/ Die(w)
        PROVE  phase'[v] = phase[v] /\ cur'[v] = cur[v]
    BY <2>1, <2>3 DEF WorkerStep, Start, Die, Fetch, Claim, AfterClaim, Release, Store, Push, Commit, Goto
  <2>4. ~(Start(v) \/ Die(v) \/ Release(v) \/ Store(v) \/ Push(v) \/ Commit(v))
    BY <1>3, <2>1 DEF Start, Die, Release, Store, Push, Commit, Goto
  <2>5. ~Fetch(v)
    BY <1>3, <2>1 DEF Fetch, Goto
  <2>6. CASE UNCHANGED vars
    BY <1>3, <2>6 DEF vars
  <2>7. QED
    BY <1>3, <2>2, <2>3, <2>4, <2>5, <2>6 DEF Next, WorkerStep
<1>4. Settled' \subseteq Msgs /\ Settled \subseteq Msgs
  BY DEF Settled
<1>5. CASE \A v \in Workers : ~Claim(v)
  <2>1. ASSUME NEW m \in Settled' PROVE m \in Settled
    <3>1. CASE \E v \in Workers : phase'[v] = "store" /\ cur'[v] = m
      BY <1>3, <1>4, <1>5, <2>1, <3>1 DEF Settled
    <3>2. QED
      BY <1>1, <1>2, <1>4, <2>1, <3>1 DEF Settled
  <2>2. QED
    BY <1>0, <2>1
<1>6. ASSUME NEW w \in Workers, Claim(w) PROVE Settled' = Settled \/ Settled' = Settled \cup {cur[w]}
  <2>1. cur' = cur /\ \A v \in Workers \ {w} : ~Claim(v) \/ phase'[v] = phase[v]
    BY <1>0, <1>6 DEF Types, Claim, AfterClaim, Goto
  <2>2. ASSUME NEW m \in Settled' PROVE m \in Settled \cup {cur[w]}
    <3>1. CASE \E v \in Workers : phase'[v] = "store" /\ cur'[v] = m
      <4>1. PICK v \in Workers : phase'[v] = "store" /\ cur'[v] = m
        BY <3>1
      <4>2. CASE v = w
        BY <2>1, <4>1, <4>2
      <4>3. CASE v # w
        <5>1. phase[v] = "store" /\ cur[v] = m
          BY <1>3, <2>1, <4>1, <4>3
        <5>2. QED
          BY <1>4, <2>2, <5>1 DEF Settled
      <4>4. QED
        BY <4>2, <4>3
    <3>2. QED
      BY <1>1, <1>2, <1>4, <2>2, <3>1 DEF Settled
  <2>3. QED
    BY <1>0, <2>2
<1>7. QED
  BY <1>5, <1>6

\* What the committed offset passes was settled before.
LEMMA WhatIsPassed ==
  ASSUME IInv, [Next]_vars
  PROVE  \E S \in SUBSET (Settled \cap Replies) :
           {log'[i] : i \in 1..committed'} \cap Replies = ({log[i] : i \in 1..committed} \cap Replies) \cup S
<1>1. TypeOK /\ committed \in 0..Len(log) /\ Len(log) \in Nat
  BY DEF IInv, TypeOK
<1>2. \A i \in 1..Len(log) : log'[i] = log[i]
  BY <1>1, LogStays
<1>3. ASSUME NEW n \in 0..Len(log), committed <= n, committed' = n,
             \A i \in 1..n : IsReply(log[i]) => log[i] \in Settled
      PROVE  \E S \in SUBSET (Settled \cap Replies) :
               {log'[i] : i \in 1..n} \cap Replies = ({log[i] : i \in 1..committed} \cap Replies) \cup S
  <2>1. \A i \in 1..n : log'[i] = log[i]
    BY <1>1, <1>2
  <2>2. \A i \in 1..committed : i \in 1..n
    BY <1>1, <1>3
  <2>3. {log'[i] : i \in 1..n} \cap Replies \in SUBSET (Settled \cap Replies)
    BY <1>3, <2>1 DEF Replies
  <2>4. {log'[i] : i \in 1..n} \cap Replies
          = ({log[i] : i \in 1..committed} \cap Replies) \cup ({log'[i] : i \in 1..n} \cap Replies)
    BY <2>1, <2>2
  <2>5. QED
    BY <2>3, <2>4
<1>4. CASE committed' = committed
  <2>1. \A i \in 1..committed : IsReply(log[i]) => log[i] \in Settled
    BY DEF IInv, CommittedIsSettled
  <2>2. committed <= committed
    BY <1>1
  <2>3. QED
    BY <1>1, <1>3, <1>4, <2>1, <2>2
<1>5. CASE committed' # committed
  <2>1. PICK w \in Workers : owner = w /\ phase[w] = "commit" /\ committed' = position[w]
    BY <1>5 DEF Next, WorkerStep, vars, Start, Die, Fetch, Claim, Release, Store, Push, Commit, Produce, ClaimExpires
  <2>2. position[w] \in 0..Len(log)
    BY <1>1 DEF TypeOK
  <2>3. committed <= position[w] /\ \A i \in 1..position[w] : IsReply(log[i]) => log[i] \in Settled
    BY <2>1 DEF IInv, ConsumedIsSettled
  <2>4. QED
    BY <1>3, <2>1, <2>2, <2>3
<1>6. QED
  BY <1>4, <1>5

\* The gateway implements ReplyDelivery: through redeliveries, rebalances, deaths and an
\* unreachable Redis a reply is settled, stored, told and passed over, each at most once
\* and in this order as far as ReplyDelivery demands it.
THEOREM DeliveryRefinement == Spec => ImplementsReplyDelivery
<1>1. Init => Promise!Init
  <2> SUFFICES ASSUME Init PROVE Promise!Init
    OBVIOUS
  <2>1. Settled = {}
    BY DEF Init, Settled
  <2>2. {log[i] : i \in 1..committed} = {}
    BY DEF Init
  <2>3. QED
    BY <2>1, <2>2 DEF Init, Promise!Init, Replies
<1>2. ASSUME IInv, [Next]_vars
      PROVE  [Promise!Next]_(Promise!delivery)
  <2> DEFINE settled == Settled \cap Replies
             stored  == [m \in Replies |-> rows[m]]
             told    == [m \in Replies |-> pushes[m]]
             passed  == {log[i] : i \in 1..committed} \cap Replies
  <2>1. Types
    BY <1>2, TypeFacts DEF IInv
  <2>2. PICK S \in SUBSET settled : passed' = passed \cup S
    BY <1>2, WhatIsPassed
  <2>3. CASE rows' = rows /\ pushes' = pushes /\ Settled' = Settled
    <3>1. Promise!Pass(S)
      BY <2>2, <2>3 DEF Promise!Pass
    <3>2. QED
      BY <2>2, <3>1 DEF Promise!Next
  <2>4. CASE committed' # committed
    <3>1. rows' = rows /\ pushes' = pushes /\ ~\E w \in Workers : Claim(w)
      BY <1>2, <2>4 DEF Next, WorkerStep, vars, Start, Die, Fetch, Claim, Release, Store, Push, Commit, Produce, ClaimExpires
    <3>2. Settled' = Settled
      BY <1>2, <3>1, WhatSettles DEF IInv
    <3>3. QED
      BY <2>3, <3>1, <3>2
  <2>5. CASE committed' = committed
    <3>1. passed' = passed
      <4>1. \A i \in 1..committed : log'[i] = log[i]
        BY <1>2, <2>1, LogStays DEF IInv, Types
      <4>2. QED
        BY <2>5, <4>1
    <3>2. CASE Settled' # Settled
      <4>1. PICK w \in Workers : Claim(w) /\ Settled' = Settled \cup {cur[w]}
        BY <1>2, <3>2, WhatSettles DEF IInv
      <4>2. stored' = stored /\ told' = told
        BY <4>1 DEF Claim
      <4>3. CASE cur[w] \notin Replies
        <5>1. settled' = settled
          BY <4>1, <4>3
        <5>2. QED
          BY <3>1, <4>2, <5>1 DEF Promise!delivery
      <4>4. CASE cur[w] \in Replies
        <5>1. settled' = settled \cup {cur[w]}
          BY <4>1, <4>4
        <5>2. Promise!Settle(cur[w])
          BY <3>1, <4>2, <5>1 DEF Promise!Settle
        <5>3. QED
          BY <4>4, <5>2 DEF Promise!Next
      <4>5. QED
        BY <4>3, <4>4
    <3>3. ASSUME Settled' = Settled, NEW w \in Workers, Store(w), rows' # rows
          PROVE  Promise!Next
      <4>1. PICK m : m = cur[w]
        OBVIOUS
      <4>2. /\ phase[w] = "store" /\ rows[m] = 0 /\ rows' = [rows EXCEPT ![m] = rows[m] + 1]
            /\ pushes' = pushes
        BY <3>3, <4>1 DEF Store
      <4>3. m \in settled /\ m \in Replies
        BY <1>2, <2>1, <4>1, <4>2 DEF IInv, ClaimsAreSettled, Settled, Replies, Types
      <4>4. \A e \in Replies : rows'[e] = IF e = m THEN 1 ELSE rows[e]
        <5>1. Replies \subseteq Msgs /\ rows \in [Msgs -> Nat]
          BY <2>1 DEF Replies, Types
        <5>2. QED
          BY <4>2, <5>1
      <4>5. stored' = [stored EXCEPT ![m] = 1] /\ stored[m] = 0
        BY <4>2, <4>3, <4>4
      <4>6. Promise!Store(m)
        BY <3>1, <3>3, <4>2, <4>3, <4>5 DEF Promise!Store
      <4>7. QED
        BY <4>3, <4>6 DEF Promise!Next
    <3>4. ASSUME Settled' = Settled, NEW w \in Workers, Push(w), pushes' # pushes
          PROVE  [Promise!Next]_(Promise!delivery)
      <4>1. PICK m : m = cur[w]
        OBVIOUS
      <4>2. /\ phase[w] = "push" /\ pushes' = [pushes EXCEPT ![m] = pushes[m] + 1]
            /\ rows' = rows
        BY <3>4, <4>1 DEF Push
      <4>3. m \in Msgs /\ rows[m] = 1 /\ pushes[m] = 0
        BY <1>2, <2>1, <4>1, <4>2 DEF IInv, PushesAreOwned, Types
      <4>4. \A e \in Replies : pushes'[e] = IF e = m THEN 1 ELSE pushes[e]
        <5>1. Replies \subseteq Msgs /\ pushes \in [Msgs -> Nat]
          BY <2>1 DEF Replies, Types
        <5>2. QED
          BY <4>2, <4>3, <5>1
      <4>5. CASE m \in Replies
        <5>1. told' = [told EXCEPT ![m] = 1] /\ told[m] = 0
          BY <4>3, <4>4, <4>5
        <5>2. stored[m] = 1 /\ stored' = stored
          BY <4>2, <4>3, <4>5
        <5>3. Promise!Tell(m)
          BY <3>1, <3>4, <5>1, <5>2 DEF Promise!Tell
        <5>4. QED
          BY <4>5, <5>3 DEF Promise!Next
      <4>6. CASE m \notin Replies
        <5>1. told' = told /\ stored' = stored
          BY <4>2, <4>4, <4>6
        <5>2. QED
          BY <3>1, <3>4, <5>1 DEF Promise!delivery
      <4>7. QED
        BY <4>5, <4>6
    <3>5. rows' # rows => \E w \in Workers : Store(w)
      BY <1>2 DEF Next, WorkerStep, vars, Start, Die, Fetch, Claim, Release, Push, Commit, Produce, ClaimExpires
    <3>6. pushes' # pushes => \E w \in Workers : Push(w)
      BY <1>2 DEF Next, WorkerStep, vars, Start, Die, Fetch, Claim, Release, Store, Commit, Produce, ClaimExpires
    <3>7. QED
      BY <2>3, <3>2, <3>3, <3>4, <3>5, <3>6
  <2>6. QED
    BY <2>4, <2>5
<1>3. QED
  BY <1>1, <1>2, Invariant, PTL DEF Spec, Promise!Spec, ImplementsReplyDelivery

-----------------------------------------------------------------------------
(* LiveView.  A message that the page misses is on its way, lost, or in an *)
(* answer still to come (MissingIsExpected); the optimistic message is     *)
(* never shown beside its row (LocalIsPosting).                            *)

\* What the types say of the page and of the messages.
LEMMA PageShape ==
  ASSUME LVTypeOK
  PROVE  /\ Ids = 1..Len(db) /\ Len(db) \in Nat /\ Len(db) <= MaxMessages
         /\ DOMAIN view = 0..MaxMessages /\ Local \in DOMAIN view /\ Local \notin Ids
         /\ Ids \subseteq DOMAIN view /\ \A i \in DOMAIN view : view[i] \in Nat
         /\ Shown = {i \in 0..MaxMessages : view[i] > 0}
<1>1. /\ db \in Seq([conv : Convs, sender : {"user", "bot"}]) /\ Len(db) <= MaxMessages
      /\ view \in [0..MaxMessages -> Nat]
  BY DEF LVTypeOK
<1>2. Ids = 1..Len(db) /\ Len(db) \in Nat
  BY <1>1 DEF Ids
<1>3. MaxMessages \in Nat
  BY LiveViewAssumption
<1>4. QED
  BY <1>1, <1>2, <1>3 DEF Local, Shown

\* The empty page.
LEMMA LVInitEstablishes == LVInit => LVInv
<1> SUFFICES ASSUME LVInit PROVE LVInv
  OBVIOUS
<1>1. Ids = {} /\ view = [i \in 0..MaxMessages |-> 0] /\ Shown = {} /\ queue = <<>>
  BY DEF LVInit, Ids, EmptyPage, Shown
<1>2. LVTypeOK
  BY <1>1, LiveViewAssumption DEF LVInit, LVTypeOK, NotPosting
<1>3. ShownOnce /\ LocalIsPosting
  BY <1>1 DEF LVInit, ShownOnce, LocalIsPosting, NotPosting
<1>4. MissingIsExpected
  BY <1>1 DEF MissingIsExpected
<1>5. QED
  BY <1>2, <1>3, <1>4 DEF LVInv

\* A row is added at the end of the table.
LEMMA RowAdded ==
  ASSUME LVTypeOK, NEW c \in Convs, NEW sender \in {"user", "bot"}, Insert(c, sender)
  PROVE  /\ Len(db) + 1 \in Nat /\ Len(db) + 1 \notin Ids \cup {Local}
         /\ Ids' = Ids \cup {Len(db) + 1} /\ unsent' = unsent \cup {Len(db) + 1}
         /\ \A i \in Ids : db'[i] = db[i]
         /\ db'[Len(db) + 1] = [conv |-> c, sender |-> sender]
         /\ db' \in Seq([conv : Convs, sender : {"user", "bot"}]) /\ Len(db') <= MaxMessages
<1> DEFINE Rows == [conv : Convs, sender : {"user", "bot"}]
<1>1. /\ db \in Seq(Rows) /\ [conv |-> c, sender |-> sender] \in Rows
      /\ Ids = 1..Len(db) /\ Len(db) \in Nat
  BY PageShape DEF LVTypeOK
<1>2. /\ db' = Append(db, [conv |-> c, sender |-> sender]) /\ Len(db) < MaxMessages
      /\ unsent' = unsent \cup {Len(db) + 1}
  BY DEF Insert
<1> HIDE DEF Rows
<1>3. db' \in Seq(Rows) /\ Len(db') = Len(db) + 1
  BY <1>1, <1>2
<1>4. Ids' = 1..(Len(db) + 1)
  BY <1>1, <1>3 DEF Ids
<1>5. \A i \in Ids : db'[i] = db[i]
  BY <1>1, <1>2
<1>6. db'[Len(db) + 1] = [conv |-> c, sender |-> sender]
  BY <1>1, <1>2
<1>7. Len(db') <= MaxMessages
  BY <1>1, <1>2, <1>3, LiveViewAssumption
<1>8. 1..(Len(db) + 1) = 1..Len(db) \cup {Len(db) + 1}
  BY <1>1
<1>9. QED
  BY <1>1, <1>2, <1>3, <1>4, <1>5, <1>6, <1>7, <1>8 DEF Rows, Local

\* An event of a message is put in the queue; a full queue loses its first one.
LEMMA EventQueued ==
  ASSUME LVTypeOK, NEW i \in Ids, queue' = Enqueue(i)
  PROVE  /\ queue' \in Seq(Ids) /\ Len(queue') <= QueueSize
         /\ InQueue \cup {i} \subseteq InQueue' \cup (IF Len(queue) = QueueSize THEN {Head(queue)} ELSE {})
         /\ Len(queue) = QueueSize => Head(queue) \in Ids
<1>1. queue \in Seq(Ids) /\ Len(queue) <= QueueSize /\ QueueSize \in Nat \ {0} /\ Len(queue) \in Nat
  BY LiveViewAssumption DEF LVTypeOK
<1>2. CASE Len(queue) < QueueSize
  <2>1. queue' = Append(queue, i)
    BY <1>2 DEF Enqueue
  <2>2. queue' \in Seq(Ids) /\ Len(queue') = Len(queue) + 1
    BY <1>1, <2>1
  <2>3. \A k \in DOMAIN queue : k \in DOMAIN queue' /\ queue'[k] = queue[k]
    BY <1>1, <2>1
  <2>4. Len(queue') \in DOMAIN queue' /\ queue'[Len(queue')] = i
    BY <1>1, <2>1, <2>2
  <2>5. QED
    BY <1>1, <1>2, <2>2, <2>3, <2>4 DEF InQueue
<1>3. CASE Len(queue) = QueueSize
  <2>1. queue' = Append(Tail(queue), i) /\ queue # <<>>
    BY <1>1, <1>3 DEF Enqueue
  <2>2. Tail(queue) \in Seq(Ids) /\ Len(Tail(queue)) = Len(queue) - 1 /\ Head(queue) \in Ids
    BY <1>1, <2>1
  <2>3. queue' \in Seq(Ids) /\ Len(queue') = Len(queue)
    BY <1>1, <2>1, <2>2
  <2>4. ASSUME NEW k \in DOMAIN queue, k # 1
        PROVE  k - 1 \in DOMAIN queue' /\ queue'[k - 1] = queue[k]
    <3>1. k - 1 \in 1..(Len(queue) - 1)
      BY <1>1, <2>4
    <3>2. Tail(queue)[k - 1] = queue[k - 1 + 1]
      BY <1>1, <2>1, <2>2, <3>1
    <3>3. queue'[k - 1] = Tail(queue)[k - 1]
      BY <2>1, <2>2, <3>1
    <3>4. QED
      BY <1>1, <2>3, <2>4, <3>1, <3>2, <3>3
  <2>5. Len(queue') \in DOMAIN queue' /\ queue'[Len(queue')] = i
    BY <1>1, <1>3, <2>1, <2>2, <2>3
  <2>6. queue[1] = Head(queue)
    BY <1>1, <2>1
  <2>7. QED
    BY <1>3, <2>2, <2>3, <2>4, <2>5, <2>6 DEF InQueue
<1>4. QED
  BY <1>1, <1>2, <1>3

\* The page takes the first event from the queue.
LEMMA EventTaken ==
  ASSUME LVTypeOK, queue # <<>>, queue' = Tail(queue)
  PROVE  /\ Head(queue) \in Ids /\ queue' \in Seq(Ids) /\ Len(queue') <= QueueSize
         /\ InQueue \subseteq InQueue' \cup {Head(queue)}
<1>1. queue \in Seq(Ids) /\ Len(queue) <= QueueSize /\ QueueSize \in Nat /\ Len(queue) \in Nat
  BY LiveViewAssumption DEF LVTypeOK
<1>2. /\ Head(queue) \in Ids /\ Head(queue) = queue[1]
      /\ queue' \in Seq(Ids) /\ Len(queue') = Len(queue) - 1
  BY <1>1
<1>3. ASSUME NEW k \in DOMAIN queue, k # 1
      PROVE  k - 1 \in DOMAIN queue' /\ queue'[k - 1] = queue[k]
  <2>1. k - 1 \in 1..(Len(queue) - 1)
    BY <1>1, <1>3
  <2>2. Tail(queue)[k - 1] = queue[k - 1 + 1]
    BY <1>1, <1>2, <2>1
  <2>3. k - 1 \in DOMAIN queue'
    BY <1>2, <2>1
  <2>4. k - 1 + 1 = k
    BY <1>1, <1>3
  <2>5. QED
    BY <2>2, <2>3, <2>4
<1>4. ASSUME NEW k \in DOMAIN queue PROVE queue[k] \in InQueue' \cup {Head(queue)}
  BY <1>2, <1>3 DEF InQueue
<1>5. QED
  BY <1>1, <1>2, <1>4 DEF InQueue

\* Nothing that the page shows or that is on its way to it changes.
LEMMA PageStays ==
  ASSUME LVInv, UNCHANGED <<db, active, view>>, LVTypeOK', posting' = posting,
         unsent \cup lost \cup InQueue \subseteq unsent' \cup lost' \cup InQueue',
         \A g \in gets : g.served /\ g.conv = active => g \in gets',
         \A g \in gets : ~g.served /\ g.conv = active =>
            \E h \in gets' : h.conv = active /\ (h.served => \A i \in Ids : db[i].conv = active => i \in h.page)
  PROVE  LVInv'
<1>1. Ids' = Ids /\ Shown' = Shown
  BY DEF Ids, Shown
<1>2. ShownOnce' /\ LocalIsPosting'
  BY <1>1 DEF LVInv, ShownOnce, LocalIsPosting
<1>3. MissingIsExpected'
  <2> SUFFICES ASSUME NEW i \in Ids, db[i].conv = active
               PROVE  \/ i \in Shown \cup lost' \cup unsent' \cup InQueue'
                      \/ \E g \in gets' : g.conv = active /\ (g.served => i \in g.page)
    BY <1>1 DEF MissingIsExpected
  <2>1. CASE i \in Shown \cup lost \cup unsent \cup InQueue
    BY <2>1
  <2>2. CASE \E g \in gets : g.conv = active /\ (g.served => i \in g.page)
    <3>1. PICK g \in gets : g.conv = active /\ (g.served => i \in g.page)
      BY <2>2
    <3>2. CASE g.served
      BY <3>1, <3>2
    <3>3. CASE ~g.served
      <4>1. PICK h \in gets' : h.conv = active /\ (h.served => \A j \in Ids : db[j].conv = active => j \in h.page)
        BY <3>1, <3>3
      <4>2. QED
        BY <4>1
    <3>4. QED
      BY <3>2, <3>3
  <2>3. QED
    BY <2>1, <2>2 DEF LVInv, MissingIsExpected
<1>4. QED
  BY <1>2, <1>3 DEF LVInv

\* A row that is added is on its way as an event.
LEMMA RowKeeps ==
  ASSUME LVInv, NEW c \in Convs, NEW sender \in {"user", "bot"}, Insert(c, sender),
         UNCHANGED <<stream, queue, active, view, gets, opens, lost>>,
         \/ posting' = posting
         \/ /\ posting.phase = "sent" /\ sender = "user"
            /\ posting' = [posting EXCEPT !.phase = "stored", !.id = Len(db) + 1]
  PROVE  LVInv'
<1> DEFINE new == Len(db) + 1
<1>1. /\ new \in Nat /\ new \notin Ids \cup {Local}
      /\ Ids' = Ids \cup {new} /\ unsent' = unsent \cup {new}
      /\ \A i \in Ids : db'[i] = db[i]
      /\ db'[new] = [conv |-> c, sender |-> sender]
      /\ db' \in Seq([conv : Convs, sender : {"user", "bot"}]) /\ Len(db') <= MaxMessages
  BY RowAdded DEF LVInv
<1> HIDE DEF new
<1>2. /\ Shown' = Shown /\ InQueue' = InQueue /\ Shown \subseteq Ids \cup {Local} /\ new \notin Shown
      /\ queue \in Seq(Ids)
  BY <1>1 DEF Shown, InQueue, LVInv, LVTypeOK
<1>3. queue' \in Seq(Ids')
  BY <1>1, <1>2
<1>4. /\ posting' \in [phase : {"none", "sent", "stored"}, conv : Convs, id : Ids' \cup {0}]
      /\ posting'.phase = "stored" => posting'.id # 0
      /\ posting'.conv = posting.conv /\ (posting.phase # "none" => posting'.phase # "none")
      /\ posting'.phase = "stored" => posting' = posting \/ (posting'.id = new /\ sender = "user")
  <2>1. /\ posting \in [phase : {"none", "sent", "stored"}, conv : Convs, id : Ids \cup {0}]
        /\ posting.phase = "stored" => posting.id # 0
    BY DEF LVInv, LVTypeOK
  <2>2. CASE posting' = posting
    BY <1>1, <2>1, <2>2
  <2>3. CASE posting' # posting
    <3>1. /\ posting' = [posting EXCEPT !.phase = "stored", !.id = new]
          /\ posting.phase = "sent" /\ sender = "user"
      BY <2>3 DEF new
    <3>2. posting'.phase = "stored" /\ posting'.id = new /\ posting'.conv = posting.conv
      BY <2>1, <3>1
    <3>3. posting' \in [phase : {"none", "sent", "stored"}, conv : Convs, id : Ids' \cup {0}]
      BY <1>1, <2>1, <3>1
    <3>4. new # 0
      BY <1>1 DEF Local
    <3>5. QED
      BY <3>1, <3>2, <3>3, <3>4
  <2>4. QED
    BY <2>2, <2>3
<1>5. LVTypeOK'
  <2>1. gets' \subseteq [n : 1..opens', conv : Convs, page : SUBSET (Ids'), served : BOOLEAN]
    BY <1>1 DEF LVInv, LVTypeOK
  <2>2. unsent' \subseteq Ids' /\ lost' \subseteq Ids' /\ Shown' \subseteq Ids' \cup {Local}
    BY <1>1, <1>2 DEF LVInv, LVTypeOK
  <2>3. QED
    BY <1>1, <1>3, <1>4, <2>1, <2>2 DEF LVInv, LVTypeOK
<1>6. ShownOnce'
  BY <1>2, <1>4 DEF LVInv, ShownOnce
<1>7. LocalIsPosting'
  <2>1. CASE posting'.phase = "stored" /\ posting' = posting
    <3>1. posting.id \in Ids /\ db'[posting.id] = db[posting.id]
      BY <1>1, <2>1 DEF LVInv, LVTypeOK
    <3>2. QED
      BY <1>2, <2>1, <3>1 DEF LVInv, LocalIsPosting
  <2>2. CASE posting'.phase = "stored" /\ posting'.id = new /\ sender = "user"
    BY <1>1, <1>2, <2>2 DEF LocalIsPosting
  <2>3. QED
    BY <1>4, <2>1, <2>2 DEF LocalIsPosting
<1>8. MissingIsExpected'
  <2> SUFFICES ASSUME NEW i \in Ids', db'[i].conv = active
               PROVE  \/ i \in Shown \cup lost \cup unsent' \cup InQueue
                      \/ \E g \in gets : g.conv = active /\ (g.served => i \in g.page)
    BY <1>2 DEF MissingIsExpected
  <2>1. CASE i = new
    BY <1>1, <2>1
  <2>2. CASE i \in Ids
    BY <1>1, <2>2 DEF LVInv, MissingIsExpected
  <2>3. QED
    BY <1>1, <2>1, <2>2
<1>9. QED
  BY <1>5, <1>6, <1>7, <1>8 DEF LVInv

\* The gateway.
LEMMA GatewayKeeps ==
  ASSUME LVInv,
         \/ \E c \in Convs : StoreReply(c)
         \/ StoreRequest \/ (\E i \in Ids : Publish(i))
         \/ PumpEnds \/ Disconnect \/ Connect \/ Subscribe
         \/ \E g \in gets : ServeMessages(g)
  PROVE  LVInv'
<1>1. CASE \E c \in Convs : StoreReply(c)
  BY <1>1, RowKeeps DEF StoreReply
<1>2. CASE StoreRequest
  <2>1. posting.conv \in Convs
    BY DEF LVInv, LVTypeOK
  <2>2. QED
    BY <1>2, <2>1, RowKeeps DEF StoreRequest
<1>3. ASSUME NEW i \in Ids, Publish(i) PROVE LVInv'
  <2>1. /\ UNCHANGED <<db, active, view, gets, posting, stream, opens>> /\ unsent' = unsent \ {i}
        /\ Ids' = Ids /\ Shown' = Shown
    BY <1>3 DEF Publish, Ids, Shown
  <2>2. CASE stream = "subscribed" /\ queue' = Enqueue(i)
             /\ lost' = IF Len(queue) = QueueSize THEN lost \cup {Head(queue)} ELSE lost
    <3>1. /\ queue' \in Seq(Ids) /\ Len(queue') <= QueueSize
          /\ InQueue \cup {i} \subseteq InQueue' \cup (IF Len(queue) = QueueSize THEN {Head(queue)} ELSE {})
          /\ Len(queue) = QueueSize => Head(queue) \in Ids
      BY <2>2, EventQueued DEF LVInv
    <3>2. lost' \subseteq Ids
      BY <2>2, <3>1 DEF LVInv, LVTypeOK
    <3>3. LVTypeOK'
      BY <2>1, <2>2, <3>1, <3>2 DEF LVInv, LVTypeOK
    <3>4. unsent \cup lost \cup InQueue \subseteq unsent' \cup lost' \cup InQueue'
      BY <2>1, <2>2, <3>1
    <3>5. QED
      BY <2>1, <3>3, <3>4, PageStays
  <2>3. CASE queue' = queue /\ lost' = lost \cup {i}
    <3>1. InQueue' = InQueue /\ LVTypeOK'
      BY <2>1, <2>3 DEF LVInv, LVTypeOK, InQueue
    <3>2. unsent \cup lost \cup InQueue \subseteq unsent' \cup lost' \cup InQueue'
      BY <2>1, <2>3, <3>1
    <3>3. QED
      BY <2>1, <3>1, <3>2, PageStays
  <2>4. QED
    BY <1>3, <2>2, <2>3 DEF Publish
<1>4. CASE PumpEnds \/ Connect \/ Subscribe
  <2>1. /\ UNCHANGED <<db, active, view, gets, posting, opens, unsent, lost, queue>>
        /\ stream' \in {"deaf", "ready", "subscribed"}
        /\ stream' = "ready" => stream = "closed"
    BY <1>4 DEF PumpEnds, Connect, Subscribe
  <2>2. Ids' = Ids /\ Shown' = Shown /\ InQueue' = InQueue
    BY <2>1 DEF Ids, Shown, InQueue
  <2>3. LVTypeOK'
    BY <2>1, <2>2 DEF LVInv, LVTypeOK
  <2>4. QED
    BY <2>1, <2>2, <2>3, PageStays
<1>5. CASE Disconnect
  <2>1. /\ UNCHANGED <<db, active, view, gets, posting, opens, unsent>>
        /\ stream' = "closed" /\ queue' = <<>> /\ lost' = lost \cup InQueue
    BY <1>5 DEF Disconnect
  <2>2. Ids' = Ids /\ Shown' = Shown /\ InQueue \subseteq Ids /\ queue' \in Seq(Ids) /\ Len(queue') <= QueueSize
    BY <2>1, LiveViewAssumption DEF Ids, Shown, InQueue, LVInv, LVTypeOK
  <2>3. LVTypeOK'
    BY <2>1, <2>2 DEF LVInv, LVTypeOK
  <2>4. QED
    BY <2>1, <2>2, <2>3, PageStays
<1>6. ASSUME NEW g \in gets, ServeMessages(g) PROVE LVInv'
  <2>1. PICK page : page = {i \in Ids : db[i].conv = g.conv}
    OBVIOUS
  <2>2. PICK h : h = [g EXCEPT !.page = page, !.served = TRUE]
    OBVIOUS
  <2>3. /\ UNCHANGED <<db, unsent, stream, queue, active, view, opens, posting, lost>>
        /\ gets' = (gets \ {g}) \cup {h} /\ ~g.served
        /\ Ids' = Ids /\ Shown' = Shown /\ InQueue' = InQueue
    BY <1>6, <2>1, <2>2 DEF ServeMessages, Ids, Shown, InQueue
  <2>4. g \in [n : 1..opens, conv : Convs, page : SUBSET Ids, served : BOOLEAN]
    BY DEF LVInv, LVTypeOK
  <2>5. /\ h \in [n : 1..opens, conv : Convs, page : SUBSET Ids, served : BOOLEAN]
        /\ h.conv = g.conv /\ h.page = page
    BY <2>1, <2>2, <2>4
  <2>6. LVTypeOK'
    BY <2>3, <2>5 DEF LVInv, LVTypeOK
  <2>7. \A f \in gets : f.served => f \in gets'
    BY <2>3
  <2>8. ASSUME NEW f \in gets, ~f.served, f.conv = active
        PROVE  \E e \in gets' : e.conv = active /\ (e.served => \A i \in Ids : db[i].conv = active => i \in e.page)
    <3>1. CASE f = g
      BY <2>1, <2>3, <2>5, <2>8, <3>1
    <3>2. CASE f # g
      BY <2>3, <2>8, <3>2
    <3>3. QED
      BY <3>1, <3>2
  <2>9. QED
    BY <2>3, <2>6, <2>7, <2>8, PageStays
<1>7. QED
  BY <1>1, <1>2, <1>3, <1>4, <1>5, <1>6

\* The types and what is expected, when the page shows something else.
LEMMA PageTypes ==
  ASSUME LVInv, UNCHANGED <<db, unsent, stream, lost>>, view' \in [0..MaxMessages -> Nat],
         Shown' \subseteq Ids \cup {Local}, active' \in Convs, opens' \in opens..MaxOpens,
         queue' \in Seq(Ids), Len(queue') <= QueueSize, queue = <<>> => queue' = <<>>,
         gets' \subseteq [n : 1..opens', conv : Convs, page : SUBSET Ids, served : BOOLEAN],
         posting' \in [phase : {"none", "sent", "stored"}, conv : Convs, id : Ids \cup {0}],
         posting'.phase = "stored" => posting'.id # 0
  PROVE  LVTypeOK'
<1>1. Ids' = Ids
  BY DEF Ids
<1>2. opens' \in 0..MaxOpens
  BY LiveViewAssumption DEF LVInv, LVTypeOK
<1>3. QED
  BY <1>1, <1>2 DEF LVInv, LVTypeOK

\* A message event.
LEMMA ReceiveKeeps == LVInv /\ Receive => LVInv'
<1> SUFFICES ASSUME LVInv, Receive PROVE LVInv'
  OBVIOUS
<1>1. PICK i : i = Head(queue)
  OBVIOUS
<1>2. /\ queue # <<>> /\ queue' = Tail(queue)
      /\ UNCHANGED <<db, unsent, stream, active, gets, opens, posting, lost>>
      /\ view' = IF db[i].conv # active \/ i \in Shown THEN view ELSE Added(i)
  BY <1>1 DEF Receive
<1>3. /\ i \in Ids /\ queue' \in Seq(Ids) /\ Len(queue') <= QueueSize
      /\ InQueue \subseteq InQueue' \cup {i}
  BY <1>1, <1>2, EventTaken DEF LVInv
<1>4. /\ DOMAIN view = 0..MaxMessages /\ Local \in DOMAIN view /\ Local \notin Ids
      /\ Ids \subseteq DOMAIN view /\ \A k \in DOMAIN view : view[k] \in Nat
      /\ Shown = {k \in 0..MaxMessages : view[k] > 0} /\ Ids' = Ids
  BY <1>2, PageShape DEF LVInv, Ids
\* Only the message of the event appears, only the optimistic one disappears.
<1>5. /\ view' \in [0..MaxMessages -> Nat]
      /\ \A k \in 0..MaxMessages : view'[k] = view[k] \/ (k = Local /\ view'[k] = 0)
                                   \/ (k = i /\ view[i] = 0 /\ view'[i] = 1)
      /\ db[i].conv = active => view'[i] > 0
      /\ view'[i] > 0 /\ view[i] = 0 /\ db[i].sender = "user" => view'[Local] = 0
  <2>1. view \in [0..MaxMessages -> Nat]
    BY DEF LVInv, LVTypeOK
  <2>2. CASE view' = view /\ (db[i].conv # active \/ i \in Shown)
    BY <1>4, <2>1, <2>2
  <2>3. CASE view' = Added(i) /\ i \notin Shown
    <3>1. PICK kept : kept = IF db[i].sender = "user" THEN [view EXCEPT ![Local] = 0] ELSE view
      OBVIOUS
    <3>2. kept \in [0..MaxMessages -> Nat]
      BY <2>1, <3>1
    <3>3. \A k \in 0..MaxMessages : kept[k] = IF k = Local /\ db[i].sender = "user" THEN 0 ELSE view[k]
      BY <2>1, <3>1
    <3>4. view' = [kept EXCEPT ![i] = kept[i] + 1]
      BY <2>3, <3>1 DEF Added
    <3>5. view[i] = 0 /\ i # Local /\ i \in 0..MaxMessages
      BY <1>3, <1>4, <2>3
    <3>6. view' \in [0..MaxMessages -> Nat]
      BY <3>2, <3>4, <3>5
    <3>7. \A k \in 0..MaxMessages : view'[k] = IF k = i THEN kept[i] + 1 ELSE kept[k]
      BY <3>2, <3>4
    <3>8. kept[i] = 0 /\ view'[i] = 1
      BY <3>3, <3>5, <3>7
    <3>9. QED
      BY <1>4, <3>3, <3>5, <3>6, <3>7, <3>8
  <2>4. QED
    BY <1>2, <2>2, <2>3
<1>6. /\ Shown' = {k \in 0..MaxMessages : view'[k] > 0}
      /\ Shown' \subseteq Shown \cup {i} /\ Shown \subseteq Shown' \cup {Local}
      /\ db[i].conv = active => i \in Shown'
  <2>1. DOMAIN view' = 0..MaxMessages
    BY <1>5
  <2>2. Shown' = {k \in 0..MaxMessages : view'[k] > 0}
    BY <2>1 DEF Shown
  <2>3. ASSUME NEW k \in Shown' PROVE k \in Shown \cup {i}
    BY <1>4, <1>5, <2>2
  <2>4. ASSUME NEW k \in Shown PROVE k \in Shown' \cup {Local}
    <3>1. k \in 0..MaxMessages /\ view[k] > 0
      BY <1>4
    <3>2. CASE view'[k] = view[k]
      BY <2>2, <3>1, <3>2
    <3>3. CASE k = Local
      BY <3>3
    <3>4. QED
      BY <1>5, <3>1, <3>2, <3>3
  <2>5. i \in 0..MaxMessages
    BY <1>3, <1>4
  <2>6. db[i].conv = active => i \in Shown'
    BY <1>5, <2>2, <2>5
  <2>7. QED
    BY <2>2, <2>3, <2>4, <2>6
<1>7. LVTypeOK'
  <2>1. Shown' \subseteq Ids \cup {Local}
    BY <1>3, <1>6 DEF LVInv, LVTypeOK
  <2>2. opens' \in opens..MaxOpens
    BY <1>2, LiveViewAssumption DEF LVInv, LVTypeOK
  <2>3. QED
    BY <1>2, <1>3, <1>5, <2>1, <2>2, PageTypes DEF LVInv, LVTypeOK
<1>8. ShownOnce'
  <2>1. \A k \in 0..MaxMessages : view'[k] <= 1
    BY <1>4, <1>5 DEF LVInv, ShownOnce
  <2>2. Local \in Shown' => Local \in Shown
    BY <1>3, <1>4, <1>6
  <2>3. QED
    BY <1>2, <1>5, <2>1, <2>2 DEF LVInv, ShownOnce
<1>9. LocalIsPosting'
  <2> SUFFICES ASSUME posting.phase = "stored"
               PROVE  /\ db[posting.id].sender = "user"
                      /\ Local \in Shown' => posting.id \notin Shown'
    BY <1>2 DEF LocalIsPosting
  <2>1. db[posting.id].sender = "user" /\ (Local \in Shown => posting.id \notin Shown)
    BY DEF LVInv, LocalIsPosting
  <2>2. ASSUME Local \in Shown', posting.id \in Shown' PROVE FALSE
    <3>1. Local \in Shown
      BY <1>3, <1>4, <1>6, <2>2
    <3>2. posting.id = i /\ i \notin Shown
      BY <1>6, <2>1, <2>2, <3>1
    <3>3. view[i] = 0 /\ view'[i] > 0
      BY <1>3, <1>4, <1>6, <2>2, <3>2
    <3>4. view'[Local] = 0
      BY <1>5, <2>1, <3>2, <3>3
    <3>5. QED
      BY <1>6, <2>2, <3>4
  <2>3. QED
    BY <2>1, <2>2
<1>10. MissingIsExpected'
  <2> SUFFICES ASSUME NEW k \in Ids, db[k].conv = active
               PROVE  \/ k \in Shown' \cup lost \cup unsent \cup InQueue'
                      \/ \E g \in gets : g.conv = active /\ (g.served => k \in g.page)
    BY <1>2, <1>4 DEF MissingIsExpected
  <2>1. k # Local
    BY <1>4
  <2>2. CASE k = i
    BY <1>6, <2>2
  <2>3. CASE k # i
    BY <1>3, <1>6, <2>1, <2>3 DEF LVInv, MissingIsExpected
  <2>4. QED
    BY <2>2, <2>3
<1>11. QED
  BY <1>7, <1>8, <1>9, <1>10 DEF LVInv

\* The page is emptied.  The request that goes out covers all it misses.
LEMMA OpenKeeps ==
  ASSUME LVInv, NEW c \in Convs, OpenConversation(c)
  PROVE  LVInv'
<1>1. PICK h : h = [n |-> opens', conv |-> c, page |-> {}, served |-> FALSE]
  OBVIOUS
<1>2. /\ opens < MaxOpens /\ opens' = opens + 1 /\ active' = c
      /\ view' = [k \in 0..MaxMessages |-> 0] /\ gets' = gets \cup {h}
      /\ UNCHANGED <<db, unsent, stream, queue, posting, lost>>
  BY <1>1 DEF OpenConversation, EmptyPage
<1>3. Shown' = {} /\ Ids' = Ids
  BY <1>2 DEF Shown, Ids
<1>4. opens \in Nat /\ MaxOpens \in Nat /\ opens' \in opens..MaxOpens /\ opens' \in 1..opens'
  BY <1>2, LiveViewAssumption DEF LVInv, LVTypeOK
<1>5. LVTypeOK'
  <2>1. h \in [n : 1..opens', conv : Convs, page : SUBSET Ids, served : BOOLEAN]
    BY <1>1, <1>4
  <2>2. \A k \in 1..opens : k \in 1..opens'
    BY <1>2, <1>4
  <2>3. gets \subseteq [n : 1..opens, conv : Convs, page : SUBSET Ids, served : BOOLEAN]
    BY DEF LVInv, LVTypeOK
  <2>4. gets' \subseteq [n : 1..opens', conv : Convs, page : SUBSET Ids, served : BOOLEAN]
    BY <1>2, <2>1, <2>2, <2>3
  <2>5. view' \in [0..MaxMessages -> Nat]
    BY <1>2
  <2>6. QED
    BY <1>2, <1>3, <1>4, <2>4, <2>5, PageTypes DEF LVInv, LVTypeOK
<1>6. ShownOnce' /\ LocalIsPosting'
  <2>1. \A k \in DOMAIN view' : view'[k] <= 1
    BY <1>2
  <2>2. QED
    BY <1>2, <1>3, <2>1 DEF LVInv, ShownOnce, LocalIsPosting
<1>7. MissingIsExpected'
  <2>1. h \in gets' /\ h.conv = active' /\ ~h.served
    BY <1>1, <1>2
  <2>2. QED
    BY <2>1 DEF MissingIsExpected
<1>8. QED
  BY <1>5, <1>6, <1>7 DEF LVInv

\* The answer of a history request.
LEMMA LoadKeeps ==
  ASSUME LVInv, NEW g \in gets, LoadMessages(g)
  PROVE  LVInv'
<1>1. /\ view' = [i \in DOMAIN view |-> IF i \in g.page THEN 1 ELSE 0]
      /\ lost' = (lost \cup Shown) \ (g.page \cup {Local})
      /\ gets' = gets \ {g} /\ g.served
      /\ UNCHANGED <<db, unsent, stream, queue, active, opens, posting>>
  BY DEF LoadMessages
<1>2. g.page \subseteq Ids
  BY DEF LVInv, LVTypeOK
<1>3. /\ DOMAIN view = 0..MaxMessages /\ Local \notin Ids /\ Ids \subseteq DOMAIN view
      /\ Ids' = Ids /\ InQueue' = InQueue
  BY <1>1, PageShape DEF LVInv, Ids, InQueue
<1>4. view' \in [0..MaxMessages -> Nat] /\ \A k \in DOMAIN view' : view'[k] <= 1
  BY <1>1, <1>3
<1>5. Shown' = g.page
  <2>1. DOMAIN view' = 0..MaxMessages /\ \A k \in 0..MaxMessages : view'[k] > 0 <=> k \in g.page
    BY <1>1, <1>3
  <2>2. QED
    BY <1>2, <1>3, <2>1 DEF Shown
<1>6. LVTypeOK'
  <2>1. lost' \subseteq Ids
    BY <1>1 DEF LVInv, LVTypeOK
  <2>2. QED
    BY <1>1, <1>2, <1>3, <1>4, <1>5, <2>1 DEF LVInv, LVTypeOK
<1>7. ShownOnce' /\ LocalIsPosting'
  <2>1. Local \notin Shown'
    BY <1>2, <1>3, <1>5
  <2>2. QED
    BY <1>1, <1>4, <2>1 DEF LVInv, ShownOnce, LocalIsPosting
<1>8. MissingIsExpected'
  <2> SUFFICES ASSUME NEW i \in Ids, db[i].conv = active
               PROVE  \/ i \in g.page \cup lost' \cup unsent \cup InQueue
                      \/ \E h \in gets' : h.conv = active /\ (h.served => i \in h.page)
    BY <1>1, <1>3, <1>5 DEF MissingIsExpected
  <2>1. i # Local
    BY <1>3
  <2>2. CASE i \in Shown \cup lost \cup unsent \cup InQueue
    BY <1>1, <2>1, <2>2
  <2>3. CASE \E h \in gets : h.conv = active /\ (h.served => i \in h.page)
    <3>1. PICK h \in gets : h.conv = active /\ (h.served => i \in h.page)
      BY <2>3
    <3>2. QED
      BY <1>1, <3>1
  <2>4. QED
    BY <2>2, <2>3 DEF LVInv, MissingIsExpected
<1>9. QED
  BY <1>6, <1>7, <1>8 DEF LVInv

\* The optimistic message appears ...
LEMMA SubmitKeeps == LVInv /\ Submit => LVInv'
<1> SUFFICES ASSUME LVInv, Submit PROVE LVInv'
  OBVIOUS
<1>1. /\ posting.phase = "none" /\ view' = [view EXCEPT ![Local] = view[Local] + 1]
      /\ posting' = [phase |-> "sent", conv |-> active, id |-> 0]
      /\ UNCHANGED <<db, unsent, stream, queue, active, gets, opens, lost>>
  BY DEF Submit
<1>2. /\ DOMAIN view = 0..MaxMessages /\ Local \in DOMAIN view /\ Local \notin Ids
      /\ \A k \in DOMAIN view : view[k] \in Nat
      /\ Shown = {k \in 0..MaxMessages : view[k] > 0} /\ Ids' = Ids /\ InQueue' = InQueue
  BY <1>1, PageShape DEF LVInv, Ids, InQueue
<1>3. view[Local] = 0
  BY <1>1, <1>2 DEF LVInv, ShownOnce
<1>4. /\ view' \in [0..MaxMessages -> Nat]
      /\ \A k \in 0..MaxMessages : view'[k] = IF k = Local THEN 1 ELSE view[k]
  BY <1>1, <1>2, <1>3 DEF LVInv, LVTypeOK
<1>5. Shown' = Shown \cup {Local}
  <2>1. DOMAIN view' = 0..MaxMessages /\ \A k \in 0..MaxMessages : view'[k] > 0 <=> k \in Shown \cup {Local}
    BY <1>2, <1>4
  <2>2. QED
    BY <1>2, <2>1 DEF Shown
<1>6. LVTypeOK'
  <2>1. opens' \in opens..MaxOpens
    BY <1>1, LiveViewAssumption DEF LVInv, LVTypeOK
  <2>2. QED
    BY <1>1, <1>2, <1>4, <1>5, <2>1, PageTypes DEF LVInv, LVTypeOK
<1>7. ShownOnce' /\ LocalIsPosting'
  <2>1. \A k \in DOMAIN view' : view'[k] <= 1
    BY <1>2, <1>4 DEF LVInv, ShownOnce
  <2>2. QED
    BY <1>1, <2>1 DEF ShownOnce, LocalIsPosting
<1>8. MissingIsExpected'
  BY <1>1, <1>2, <1>5 DEF LVInv, MissingIsExpected
<1>9. QED
  BY <1>6, <1>7, <1>8 DEF LVInv

\* ... becomes its row, unless that is shown already ...
LEMMA MessageSentKeeps == LVInv /\ MessageSent => LVInv'
<1> SUFFICES ASSUME LVInv, MessageSent PROVE LVInv'
  OBVIOUS
<1>1. PICK id : id = posting.id
  OBVIOUS
<1>2. /\ posting.phase = "stored" /\ posting' = NotPosting
      /\ view' = [view EXCEPT ![id] = view[id] + view[Local], ![Local] = 0]
      /\ UNCHANGED <<db, unsent, stream, queue, active, gets, opens, lost>>
  BY <1>1 DEF MessageSent
<1>3. /\ DOMAIN view = 0..MaxMessages /\ Local \in DOMAIN view /\ Local \notin Ids
      /\ Ids \subseteq DOMAIN view /\ \A k \in DOMAIN view : view[k] \in Nat
      /\ Shown = {k \in 0..MaxMessages : view[k] > 0} /\ Ids' = Ids /\ InQueue' = InQueue
  BY <1>2, PageShape DEF LVInv, Ids, InQueue
<1>4. id \in Ids /\ id \in 0..MaxMessages /\ id # Local
  BY <1>1, <1>2, <1>3 DEF LVInv, LVTypeOK
<1>5. /\ view' \in [0..MaxMessages -> Nat] /\ view'[Local] = 0
      /\ \A k \in 0..MaxMessages : k # Local => view'[k] = IF k = id THEN view[id] + view[Local] ELSE view[k]
  <2>1. PICK mid : mid = [view EXCEPT ![id] = view[id] + view[Local]]
    OBVIOUS
  <2>2. view[id] + view[Local] \in Nat
    BY <1>3, <1>4
  <2>3. view \in [0..MaxMessages -> Nat]
    BY DEF LVInv, LVTypeOK
  <2>4. mid \in [0..MaxMessages -> Nat]
    BY <1>4, <2>1, <2>2, <2>3
  <2>5. view' = [mid EXCEPT ![Local] = 0]
    BY <1>2, <2>1
  <2>6. \A k \in 0..MaxMessages : mid[k] = IF k = id THEN view[id] + view[Local] ELSE view[k]
    BY <2>1, <2>3
  <2>7. QED
    BY <1>3, <2>4, <2>5, <2>6
<1>6. DOMAIN view' = 0..MaxMessages /\ Shown' = {k \in 0..MaxMessages : view'[k] > 0}
  <2>1. DOMAIN view' = 0..MaxMessages
    BY <1>5
  <2>2. QED
    BY <2>1 DEF Shown
<1>7. Local \notin Shown' /\ Shown' \subseteq Ids \cup {Local}
  <2>1. ASSUME NEW k \in Shown' PROVE k \in Ids
    <3>1. Shown \subseteq Ids \cup {Local}
      BY DEF LVInv, LVTypeOK
    <3>2. k \in 0..MaxMessages /\ view'[k] > 0 /\ k # Local
      BY <1>5, <1>6
    <3>3. CASE k = id
      BY <1>4, <3>3
    <3>4. CASE k # id
      <4>1. view'[k] = view[k]
        BY <1>5, <3>2, <3>4
      <4>2. QED
        BY <1>3, <3>1, <3>2, <4>1
    <3>5. QED
      BY <3>3, <3>4
  <2>2. Local \notin Shown'
    BY <1>5, <1>6
  <2>3. QED
    BY <2>1, <2>2
<1>8. LVTypeOK'
  <2>1. opens' \in opens..MaxOpens
    BY <1>2, LiveViewAssumption DEF LVInv, LVTypeOK
  <2>2. NotPosting \in [phase : {"none", "sent", "stored"}, conv : Convs, id : Ids \cup {0}] /\ NotPosting.phase = "none"
    BY LiveViewAssumption DEF NotPosting
  <2>3. QED
    BY <1>2, <1>5, <1>7, <2>1, <2>2, PageTypes DEF LVInv, LVTypeOK
\* The row was not shown beside the optimistic message.
<1>9. ShownOnce'
  <2>1. view[id] + view[Local] <= 1
    <3>1. view[id] <= 1 /\ view[Local] <= 1 /\ view[id] \in Nat /\ view[Local] \in Nat
      BY <1>3, <1>4 DEF LVInv, ShownOnce
    <3>2. view[Local] > 0 => ~(view[id] > 0)
      BY <1>1, <1>2, <1>3, <1>4 DEF LVInv, LocalIsPosting
    <3>3. QED
      BY <3>1, <3>2
  <2>2. \A k \in DOMAIN view' : view'[k] <= 1
    BY <1>3, <1>5, <1>6, <2>1 DEF LVInv, ShownOnce
  <2>3. QED
    BY <1>7, <2>2 DEF ShownOnce
<1>10. LocalIsPosting'
  BY <1>2 DEF LocalIsPosting, NotPosting
<1>11. MissingIsExpected'
  <2>1. ASSUME NEW k \in Shown, k # Local PROVE k \in Shown'
    <3>1. k \in 0..MaxMessages /\ view[k] > 0 /\ view[k] \in Nat /\ view[Local] \in Nat
      BY <1>3
    <3>2. view'[k] > 0
      BY <1>5, <2>1, <3>1
    <3>3. QED
      BY <1>6, <3>1, <3>2
  <2>2. \A k \in Ids : k # Local
    BY <1>3
  <2>3. QED
    BY <1>2, <1>3, <2>1, <2>2 DEF LVInv, MissingIsExpected
<1>12. QED
  BY <1>8, <1>9, <1>10, <1>11 DEF LVInv

\* ... or goes.
LEMMA SendFailsKeeps == LVInv /\ SendFails => LVInv'
<1> SUFFICES ASSUME LVInv, SendFails PROVE LVInv'
  OBVIOUS
<1>1. /\ view' = [view EXCEPT ![Local] = 0] /\ posting' = NotPosting
      /\ UNCHANGED <<db, unsent, stream, queue, active, gets, opens, lost>>
  BY DEF SendFails
<1>2. /\ DOMAIN view = 0..MaxMessages /\ Local \in DOMAIN view /\ Local \notin Ids
      /\ Shown = {k \in 0..MaxMessages : view[k] > 0} /\ Ids' = Ids /\ InQueue' = InQueue
  BY <1>1, PageShape DEF LVInv, Ids, InQueue
<1>3. /\ view' \in [0..MaxMessages -> Nat]
      /\ \A k \in 0..MaxMessages : view'[k] = IF k = Local THEN 0 ELSE view[k]
  BY <1>1, <1>2 DEF LVInv, LVTypeOK
<1>4. Shown' = Shown \ {Local}
  <2>1. DOMAIN view' = 0..MaxMessages /\ \A k \in 0..MaxMessages : view'[k] > 0 <=> k \in Shown \ {Local}
    BY <1>2, <1>3
  <2>2. QED
    BY <1>2, <2>1 DEF Shown
<1>5. LVTypeOK'
  <2>1. opens' \in opens..MaxOpens
    BY <1>1, LiveViewAssumption DEF LVInv, LVTypeOK
  <2>2. NotPosting \in [phase : {"none", "sent", "stored"}, conv : Convs, id : Ids \cup {0}] /\ NotPosting.phase = "none"
    BY LiveViewAssumption DEF NotPosting
  <2>3. QED
    BY <1>1, <1>3, <1>4, <2>1, <2>2, PageTypes DEF LVInv, LVTypeOK
<1>6. ShownOnce' /\ LocalIsPosting'
  <2>1. \A k \in DOMAIN view' : view'[k] <= 1
    BY <1>2, <1>3 DEF LVInv, ShownOnce
  <2>2. QED
    BY <1>1, <1>4, <2>1 DEF ShownOnce, LocalIsPosting, NotPosting
<1>7. MissingIsExpected'
  BY <1>1, <1>2, <1>4 DEF LVInv, MissingIsExpected
<1>8. QED
  BY <1>5, <1>6, <1>7 DEF LVInv

\* LVInv holds in every reachable state of the stream and the page.
THEOREM LVInvariant == LVSpec => []LVInv
<1>1. LVInit => LVInv
  BY LVInitEstablishes
<1>2. LVInv /\ [LVNext]_lvVars => LVInv'
  <2> SUFFICES ASSUME LVInv, [LVNext]_lvVars PROVE LVInv'
    OBVIOUS
  <2>1. CASE LVNext
    BY <2>1, GatewayKeeps, ReceiveKeeps, OpenKeeps, LoadKeeps, SubmitKeeps, MessageSentKeeps,
       SendFailsKeeps DEF LVNext
  <2>2. CASE UNCHANGED lvVars
    <3>1. /\ UNCHANGED <<db, unsent, stream, queue, active, view, gets, opens, posting, lost>>
          /\ Ids' = Ids /\ Shown' = Shown /\ InQueue' = InQueue
      BY <2>2 DEF lvVars, Ids, Shown, InQueue
    <3>2. QED
      BY <3>1 DEF LVInv, LVTypeOK, ShownOnce, LocalIsPosting, MissingIsExpected
  <2>3. QED
    BY <2>1, <2>2
<1>3. QED
  BY <1>1, <1>2, PTL DEF LVSpec

\* Type correctness: for any number of conversations, messages and requests; no queue
\* of the event stream is longer than its bound.
THEOREM LVTypeCorrect == LVSpec => []LVTypeOK
<1>1. LVInv => LVTypeOK
  BY DEF LVInv
<1>2. QED
  BY <1>1, LVInvariant, PTL

\* No message is shown twice and the optimistic one outlives neither its call nor its
\* page, in whatever order event, history and answer come.
THEOREM MessagesShownOnce == LVSpec => []ShownOnce
<1>1. LVInv => ShownOnce
  BY DEF LVInv
<1>2. QED
  BY <1>1, LVInvariant, PTL

\* When nothing is under way, the page misses only what was lost on the way or taken
\* away by a late answer of the history request.
THEOREM OnlyLostMissing == LVSpec => []OnlyLostIsMissing
<1>1. LVInv => OnlyLostIsMissing
  <2>1. LVTypeOK /\ Quiet => InQueue = {}
    BY DEF LVTypeOK, Quiet, InQueue
  <2>2. QED
    BY <2>1 DEF LVInv, MissingIsExpected, OnlyLostIsMissing, Quiet
<1>2. QED
  BY <1>1, LVInvariant, PTL
=============================================================================
