-------------------------- MODULE RuntimeRunProofs --------------------------
(***************************************************************************)
(* For any number of turns, calls, failed saves and lapsed leases: a turn  *)
(* that was overtaken leaves the checkpoint alone, a question is kept, an  *)
(* answer is worked on once, and results reach the model until the         *)
(* transcript is cut.                                                      *)
(***************************************************************************)
EXTENDS RuntimeRun, TLAPS

\* Of a turn that is over the fields that the invariant reads are left.
LEMMA LeftKeeps ==
    ASSUME NEW next \in Turn
    PROVE  /\ Left(next) \in Turn /\ Left(next).pc = next.pc
           /\ Left(next).resumes = next.resumes /\ Left(next).planned = next.planned
           /\ next.pc \notin Ended => Left(next) = next
<1> USE RuntimeAssumption
<1>1. CASE next.pc \notin Ended
  BY <1>1 DEF Left
<1>2. CASE next.pc \in Ended
  <2> DEFINE messages == IF next.pc = "asked" THEN next.messages ELSE {}
             left == [pc |-> next.pc, resumes |-> next.resumes, trimmed |-> FALSE,
                      messages |-> messages, planned |-> next.planned, plan |-> 0,
                      done |-> 0, calls |-> 0, since |-> 0, asker |-> next.asker,
                      then |-> "none"]
  <2>1. messages \in SUBSET Calls
    BY DEF Turn
  <2>2. left \in Turn
    BY <2>1 DEF Turn
  <2>3. Left(next) = left
    BY <1>2 DEF Left, NoTurn
  <2> QED
    BY <1>2, <2>2, <2>3
<1> QED
  BY <1>1, <1>2

LEMMA InitInv == Init => IInv
<1> SUFFICES ASSUME Init PROVE IInv
  OBVIOUS
<1> USE RuntimeAssumption
<1>1. NoTurn \in Turn
  BY DEF NoTurn, Turn
<1>2. TypeOK
  BY <1>1 DEF Init, TypeOK, NoCheckpoint, Checkpoint
<1>3. \A t \in Turns : turn[t].pc = "none" /\ turn[t].resumes = Nobody /\ ~turn[t].planned
  BY DEF Init, NoTurn
<1>4. WellFormed /\ QuestionKept /\ OwnerCurrent /\ CurrentOwns /\ AskedFirst /\ TakenUp
  BY <1>3 DEF Init, WellFormed, QuestionKept, OwnerCurrent, CurrentOwns, AskedFirst,
              TakenUp, Begins, NoCheckpoint, Checkpoint
<1> QED
  BY <1>2, <1>4 DEF IInv

-----------------------------------------------------------------------------
(* A step that leaves the checkpoint alone.                                *)

LEMMA BecomesInv ==
    ASSUME IInv, NEW t \in Turns, NEW next \in Turn, Becomes(t, next),
           turn[t].pc \notin Ended \cup {"none"},
           next.pc \notin {"asked", "none", "resuming", "starting"},
           next.pc # "gone" => turn[t].pc \notin Begins,
           next.pc = "gone" => next.planned = turn[t].planned,
           next.resumes = turn[t].resumes,
           next.pc = "calling" => next.done < next.plan
                                  /\ next.calls + next.plan - next.done <= MaxCalls,
           next.pc = "saving" => next.then # "none"
    PROVE  IInv'
<1> USE RuntimeAssumption
<1>1. /\ Left(next) \in Turn /\ Left(next).pc = next.pc
      /\ Left(next).resumes = next.resumes /\ Left(next).planned = next.planned
      /\ next.pc \notin Ended => Left(next) = next
  BY LeftKeeps
<1>2. /\ turn' = [turn EXCEPT ![t] = Left(next)]
      /\ UNCHANGED <<stored, current, owner, faults, lapses>>
  BY DEF Becomes
<1>3. TypeOK /\ TypeOK'
  BY <1>1, <1>2 DEF IInv, TypeOK
<1>4. turn'[t] = Left(next) /\ \A u \in Turns \ {t} : turn'[u] = turn[u]
  BY <1>2, <1>3 DEF TypeOK
<1>5. WellFormed'
  BY <1>1, <1>4 DEF IInv, WellFormed, Ended, Begins
<1>6. CurrentOwns' /\ OwnerCurrent'
  BY <1>1, <1>2, <1>3, <1>4
     DEF IInv, TypeOK, CurrentOwns, OwnerCurrent, Faultless, Begins, Ended
<1>7. QuestionKept' /\ AskedFirst'
  BY <1>1, <1>2, <1>3, <1>4
     DEF IInv, TypeOK, QuestionKept, AskedFirst, Faultless, Ended, Nobody, Turns
<1>8. TakenUp'
  BY <1>1, <1>2, <1>3, <1>4
     DEF IInv, TypeOK, TakenUp, Unsaved, WellFormed, Begins, Ended
<1> QED
  BY <1>3, <1>5, <1>6, <1>7, <1>8 DEF IInv

-----------------------------------------------------------------------------
(* A save, made or not.                                                    *)

SavePcs == {"resuming", "starting", "saving", "asking", "COMPLETED", "FAILED"}

\* A turn one of whose saves fails is not faultless.
LEMMA FaultNamesTurn ==
    ASSUME NEW t, NEW f, f = <<t, turn[t].pc>>, f \in faults'
    PROVE  ~Faultless(t)'
<1>1. f[1] = t
  OBVIOUS
<1> QED
  BY <1>1 DEF Faultless

\* What the five saving actions have in common.
IsSave(t, checkpoint, expected, next) ==
    /\ turn[t].pc \in SavePcs /\ next \in Turn
    /\ checkpoint \in [status : Statuses, question : Turns \cup {Nobody},
                       snapshot : SUBSET Calls]
    /\ expected = (turn[t].pc # "starting")
    /\ next.pc \notin {"none", "calling", "saving", "resuming", "gone"}
    /\ next.pc = "starting" <=> turn[t].pc = "resuming"
    /\ next.pc = "asked" <=> turn[t].pc = "asking"
    /\ checkpoint.question =
           IF checkpoint.status = "WAITING_HUMAN" THEN t ELSE Nobody
    /\ checkpoint.status = "WAITING_HUMAN" <=> turn[t].pc = "asking"
    /\ next.resumes = turn[t].resumes /\ next.planned = turn[t].planned

LEMMA SaveInv ==
    ASSUME IInv, NEW t \in Turns, NEW checkpoint, NEW expected, NEW next,
           IsSave(t, checkpoint, expected, next), Save(t, checkpoint, expected, next),
           UNCHANGED lapses
    PROVE  IInv'
<1> USE RuntimeAssumption
<1>1. /\ Left(next) \in Turn /\ Left(next).pc = next.pc
      /\ Left(next).resumes = next.resumes /\ Left(next).planned = next.planned
      /\ next.pc \notin Ended => Left(next) = next
  BY LeftKeeps DEF IsSave
<1>2. TypeOK /\ t # Nobody
  BY DEF IInv, Turns, Nobody
<1>3. turn' = [turn EXCEPT ![t] = Left(next)]
  BY DEF Save
<1>4. /\ turn' \in [Turns -> Turn]
      /\ turn'[t] = Left(next) /\ \A u \in Turns \ {t} : turn'[u] = turn[u]
  BY <1>1, <1>2, <1>3 DEF TypeOK
<1> DEFINE clashes == expected /\ stored # NoCheckpoint /\ t \notin current
           made == /\ ~clashes /\ stored' = checkpoint /\ current' \in {{t}, {}}
                   /\ current' = {t} \/ ~Faultless(t)'
                   /\ owner' = IF turn[t].pc \in {"resuming", "starting"}
                                  \/ stored = NoCheckpoint THEN t ELSE owner
           lost == /\ UNCHANGED <<stored, owner>>
                   /\ current' = IF expected THEN current ELSE current \ {t}
                   /\ \/ clashes /\ faults' = faults
                      \/ faults' = faults \cup {<<t, turn[t].pc>>}
           more == faults' = faults \/ faults' = faults \cup {<<t, turn[t].pc>>}
<1>5. checkpoint # NoCheckpoint
  BY DEF IsSave, NoCheckpoint, Checkpoint, Statuses
<1>6. (made \/ lost) /\ more
  <2>1. Fault(t) => ~Faultless(t)'
    BY FaultNamesTurn DEF Fault
  <2> QED
    BY <2>1 DEF Save, Write, Fault, IsSave
<1>7. /\ \A u \in Turns \ {t} : Faultless(u)' = Faultless(u)
      /\ \A u \in Turns : Faultless(u)' => Faultless(u)
      /\ \A u \in Turns : Unsaved(u) => Unsaved(u)'
      /\ faults \subseteq faults'
  BY <1>6 DEF Faultless, Unsaved
<1>8. TypeOK'
  BY <1>2, <1>4, <1>6 DEF IInv, TypeOK, IsSave, SavePcs
<1>9. WellFormed'
  <2> SUFFICES ASSUME NEW u \in Turns
               PROVE  /\ turn'[u].pc = "calling" =>
                           /\ turn'[u].done < turn'[u].plan
                           /\ turn'[u].calls + turn'[u].plan - turn'[u].done <= MaxCalls
                      /\ turn'[u].pc = "saving" => turn'[u].then # "none"
                      /\ turn'[u].pc = "none" => turn'[u].resumes = Nobody
                      /\ turn'[u].pc \in Begins => ~turn'[u].planned
    BY DEF WellFormed
  <2>1. CASE u = t
    BY <2>1, <1>1, <1>4 DEF IInv, WellFormed, IsSave, SavePcs, Begins
  <2>2. CASE u # t
    BY <2>2, <1>4 DEF IInv, WellFormed
  <2> QED
    BY <2>1, <2>2
<1>10. CurrentOwns'
  <2>1. CASE made
    <3> SUFFICES ASSUME current' = {t} PROVE owner' = t
      BY <2>1 DEF CurrentOwns
    <3>1. CASE turn[t].pc \in {"resuming", "starting"} \/ stored = NoCheckpoint
      BY <3>1, <2>1
    <3>2. CASE turn[t].pc \notin {"resuming", "starting"} /\ stored # NoCheckpoint
      <4>1. t \in current /\ turn[t].pc \notin Begins \cup Ended
        BY <3>2, <2>1 DEF IsSave, SavePcs, Begins, Ended
      <4> QED
        BY <4>1, <3>2, <2>1 DEF IInv, CurrentOwns
    <3> QED
      BY <3>1, <3>2
  <2>2. CASE lost
    BY <2>2, <1>1, <1>2, <1>4 DEF IInv, CurrentOwns, TypeOK, IsSave, SavePcs, Begins, Ended
  <2> QED
    BY <2>1, <2>2, <1>6
<1>11. OwnerCurrent'
  <2> SUFFICES ASSUME NEW u \in Turns, turn'[u].pc \notin Begins \cup Ended, owner' = u,
                      Faultless(u)'
               PROVE  u \in current' /\ stored' # NoCheckpoint
    BY DEF OwnerCurrent
  <2>1. CASE made
    <3>1. CASE u = t
      BY <3>1, <2>1, <1>5
    <3>2. CASE u # t
      <4>1. turn[t].pc \notin Begins /\ stored # NoCheckpoint /\ owner = u
        BY <3>2, <2>1 DEF IsSave, SavePcs, Begins
      <4>2. t \in current /\ turn[t].pc \notin Begins \cup Ended
        BY <4>1, <2>1 DEF IsSave, SavePcs, Begins, Ended
      <4> QED
        BY <4>1, <4>2, <3>2 DEF IInv, CurrentOwns
    <3> QED
      BY <3>1, <3>2
  <2>2. CASE lost
    <3>1. CASE u = t
      <4>1. clashes /\ faults' = faults
        <5>1. faults' # faults \cup {<<t, turn[t].pc>>}
          BY <3>1, FaultNamesTurn
        <5> QED
          BY <5>1, <2>2
      <4>2. turn[t].pc \notin {"starting", "resuming"}
        BY <4>1, <3>1, <1>1, <1>4 DEF IsSave, SavePcs, Begins
      <4>3. t \in current
        BY <4>1, <4>2, <3>1, <2>2, <1>7
           DEF IInv, OwnerCurrent, IsSave, SavePcs, Begins, Ended
      <4> QED
        BY <4>1, <4>3
    <3>2. CASE u # t
      BY <3>2, <2>2, <1>4, <1>7 DEF IInv, OwnerCurrent
    <3> QED
      BY <3>1, <3>2
  <2> QED
    BY <2>1, <2>2, <1>6
<1>12. QuestionKept'
  <2> SUFFICES ASSUME NEW u \in Turns, turn'[u].pc = "asked", owner' = u, Faultless(u)'
               PROVE  stored'.status = "WAITING_HUMAN" /\ stored'.question = u
    BY DEF QuestionKept
  <2>1. CASE u = t
    <3>1. turn[t].pc = "asking"
      BY <2>1, <1>1, <1>4 DEF IsSave
    <3>2. CASE made
      BY <3>1, <3>2, <2>1 DEF IsSave
    <3>3. CASE lost
      <4>1. owner = t /\ Faultless(t)
        BY <3>3, <2>1, <1>7
      <4>2. clashes
        <5>1. faults' # faults \cup {<<t, turn[t].pc>>}
          BY <2>1, FaultNamesTurn
        <5> QED
          BY <5>1, <3>3
      <4>3. t \in current
        BY <4>1, <3>1 DEF IInv, OwnerCurrent, Begins, Ended
      <4> QED
        BY <4>2, <4>3
    <3> QED
      BY <3>2, <3>3, <1>6
  <2>2. CASE u # t
    <3>1. turn[u].pc = "asked" /\ Faultless(u)
      BY <2>2, <1>4, <1>7
    <3>2. CASE made
      <4>1. turn[t].pc \notin Begins /\ stored # NoCheckpoint /\ owner = u
        BY <3>2, <2>2 DEF IsSave, SavePcs, Begins
      <4>2. t \in current /\ turn[t].pc \notin Begins \cup Ended
        BY <4>1, <3>2 DEF IsSave, SavePcs, Begins, Ended
      <4> QED
        BY <4>1, <4>2, <2>2 DEF IInv, CurrentOwns
    <3>3. CASE lost
      BY <3>1, <3>3 DEF IInv, QuestionKept
    <3> QED
      BY <3>2, <3>3, <1>6
  <2> QED
    BY <2>1, <2>2
<1>13. AskedFirst'
  <2>1. \A u \in Turns : turn[u].pc = "asked" => turn'[u].pc = "asked"
    BY <1>4 DEF IsSave, SavePcs
  <2>2. \A u \in Turns : turn'[u].resumes = turn[u].resumes
                         /\ turn[u].resumes \in Turns \cup {Nobody}
    BY <1>1, <1>2, <1>4 DEF TypeOK, Turn, IsSave
  <2>3. stored'.question = stored.question \/ stored'.question \in {Nobody, t}
    BY <1>6 DEF IsSave
  <2>4. stored'.question = t /\ stored' # stored => turn'[t].pc = "asked"
    BY <1>1, <1>2, <1>4, <1>6 DEF IsSave
  <2>5. stored.question \in Turns \cup {Nobody}
    BY <1>2 DEF TypeOK
  <2> QED
    BY <2>1, <2>2, <2>3, <2>4, <2>5 DEF IInv, AskedFirst
<1>14. TakenUp'
  <2> SUFFICES ASSUME NEW u \in Turns, turn'[u].resumes # Nobody,
                      turn'[u].resumes = stored'.question, ~Unsaved(u)'
               PROVE  \/ turn'[u].pc = "resuming" /\ u \in current'
                      \/ turn'[u].pc = "starting" /\ <<u, "resuming">> \in faults'
                      \/ turn'[u].pc = "gone" /\ ~turn'[u].planned
    BY DEF TakenUp
  <2>1. turn'[u].resumes = turn[u].resumes /\ ~Unsaved(u)
    BY <1>1, <1>4, <1>7 DEF IsSave
  <2>2. ~made
    <3> SUFFICES ASSUME made PROVE FALSE
      OBVIOUS
    <3>1. checkpoint.question = t /\ turn[t].pc = "asking"
      BY <2>1 DEF IsSave
    <3>2. turn[u].resumes = t
      BY <2>1, <3>1
    <3> QED
      BY <3>1, <3>2, <2>1, <1>2 DEF IInv, AskedFirst
  <2>3. lost
    BY <2>2, <1>6
  <2>4. \/ turn[u].pc = "resuming" /\ u \in current
        \/ turn[u].pc = "starting" /\ <<u, "resuming">> \in faults
        \/ turn[u].pc = "gone" /\ ~turn[u].planned
    BY <2>1, <2>3 DEF IInv, TakenUp
  <2>5. CASE u = t
    <3>1. CASE turn[t].pc = "resuming"
      <4>1. faults' = faults \cup {<<t, "resuming">>}
        BY <3>1, <2>3, <2>4, <2>5
      <4> QED
        BY <4>1, <3>1, <2>5, <1>1, <1>4 DEF IsSave
    <3>2. CASE turn[t].pc = "starting"
      <4>1. faults' = faults \cup {<<t, "starting">>}
        BY <3>2, <2>3 DEF IsSave
      <4>2. <<t, "resuming">> \in faults
        BY <3>2, <2>4, <2>5
      <4> QED
        BY <4>1, <4>2, <2>5 DEF Unsaved
    <3> QED
      BY <3>1, <3>2, <2>4, <2>5 DEF IsSave, SavePcs
  <2>6. CASE u # t
    BY <2>6, <2>3, <2>4, <1>4, <1>7
  <2> QED
    BY <2>5, <2>6
<1> QED
  BY <1>8, <1>9, <1>10, <1>11, <1>12, <1>13, <1>14 DEF IInv

-----------------------------------------------------------------------------
(* The actions.                                                            *)

LEMMA LoadInv == ASSUME IInv, NEW t \in Turns, Load(t) PROVE IInv'
<1> USE RuntimeAssumption
<1>1. TypeOK /\ t # Nobody
  BY DEF IInv, Turns, Nobody
<1>2. /\ UNCHANGED <<stored, owner, faults>> /\ turn[t].pc = "none"
      /\ lapses' \in 0..MaxLapses
  BY <1>1 DEF Load, TypeOK
<1> DEFINE resuming(q) == [NoTurn EXCEPT !.pc = "resuming", !.resumes = q,
                                         !.messages = stored.snapshot]
           starting == [NoTurn EXCEPT !.pc = "starting"]
<1>n. NoTurn \in Turn /\ NoTurn.resumes = Nobody /\ NoTurn.planned = FALSE
  BY DEF Turn, NoTurn
<1>3. starting \in Turn /\ starting.pc = "starting" /\ starting.resumes = Nobody
      /\ ~starting.planned
  BY <1>n DEF Turn
<1>4. \A q \in Turns : /\ resuming(q) \in Turn /\ resuming(q).pc = "resuming"
                       /\ resuming(q).resumes = q /\ ~resuming(q).planned
  <2>1. stored.snapshot \in SUBSET Calls
    BY <1>1 DEF TypeOK
  <2> QED
    BY <2>1, <1>n DEF Turn
<1>5. \E next \in Turn :
        /\ turn' = [turn EXCEPT ![t] = next] /\ next.pc \in {"resuming", "starting"}
        /\ next.resumes # Nobody => next.pc = "resuming" /\ next.resumes = stored.question
        /\ ~next.planned
  <2>1. PICK q \in Questions \cup {Nobody} :
          turn' = [turn EXCEPT ![t] = IF Matches(stored, q) THEN resuming(q) ELSE starting]
    BY DEF Load
  <2>2. CASE Matches(stored, q)
    <3>1. q \in Turns /\ q = stored.question
      BY <2>2 DEF Matches, Questions
    <3> QED
      BY <3>1, <2>1, <2>2, <1>4
  <2>3. CASE ~Matches(stored, q)
    BY <2>1, <2>3, <1>3
  <2> QED
    BY <2>2, <2>3
<1>6. PICK next \in Turn :
        /\ turn' = [turn EXCEPT ![t] = next] /\ next.pc \in {"resuming", "starting"}
        /\ next.resumes # Nobody => next.pc = "resuming" /\ next.resumes = stored.question
        /\ ~next.planned
  BY <1>5
<1>7. /\ turn' \in [Turns -> Turn] /\ turn'[t] = next
      /\ \A u \in Turns \ {t} : turn'[u] = turn[u]
  BY <1>1, <1>6 DEF TypeOK
<1>8. current' = IF next.pc = "resuming" THEN current \cup {t} ELSE current
  BY <1>7 DEF Load
<1>9. TypeOK'
  BY <1>1, <1>2, <1>7, <1>8 DEF TypeOK
<1>10. WellFormed'
  BY <1>6, <1>7 DEF IInv, WellFormed, Begins
<1>11. CurrentOwns' /\ OwnerCurrent'
  BY <1>2, <1>6, <1>7, <1>8 DEF IInv, CurrentOwns, OwnerCurrent, Faultless, Begins
<1>12. QuestionKept'
  BY <1>2, <1>6, <1>7 DEF IInv, QuestionKept, Faultless
<1>13. AskedFirst'
  <2>1. \A u \in Turns : turn[u].pc = "asked" => turn'[u].pc = "asked"
    BY <1>2, <1>7
  <2>2. stored.question \in Turns \cup {Nobody}
    BY <1>1 DEF TypeOK
  <2>3. \A u \in Turns : turn[u].resumes \in Turns \cup {Nobody}
    BY <1>1 DEF TypeOK, Turn
  <2>4. stored.question # Nobody => turn'[stored.question].pc = "asked"
    BY <2>1, <2>2 DEF IInv, AskedFirst
  <2>5. \A u \in Turns : turn'[u].resumes # Nobody => turn'[turn'[u].resumes].pc = "asked"
    <3> SUFFICES ASSUME NEW u \in Turns, turn'[u].resumes # Nobody
                 PROVE  turn'[turn'[u].resumes].pc = "asked"
      OBVIOUS
    <3>1. CASE u = t
      BY <3>1, <2>4, <1>6, <1>7
    <3>2. CASE u # t
      BY <3>2, <2>1, <2>3, <1>7 DEF IInv, AskedFirst
    <3> QED
      BY <3>1, <3>2
  <2> QED
    BY <2>4, <2>5, <1>2 DEF AskedFirst
<1>14. TakenUp'
  BY <1>2, <1>6, <1>7, <1>8 DEF IInv, TakenUp, Unsaved
<1> QED
  BY <1>9, <1>10, <1>11, <1>12, <1>13, <1>14 DEF IInv

LEMMA SavesInv ==
    ASSUME IInv, NEW t \in Turns,
           Resume(t) \/ Start(t) \/ SavePlan(t) \/ SaveQuestion(t) \/ Finish(t)
    PROVE  IInv'
<1> USE RuntimeAssumption
<1>1. turn[t] \in Turn /\ t # Nobody
  BY DEF IInv, TypeOK, Turns, Nobody
<1>2. CASE Resume(t)
  <2> DEFINE next == [turn[t] EXCEPT !.pc = "starting"]
  <2>1. IsSave(t, Checkpoint("RUNNING", Nobody, {}), TRUE, next)
    BY <1>1, <1>2 DEF Resume, IsSave, SavePcs, Checkpoint, Statuses, Turn
  <2> QED
    BY <2>1, <1>2, SaveInv DEF Resume
<1>3. CASE Start(t)
  <2>1. PICK trimmed \in BOOLEAN, pc \in {"planning", "COMPLETED"} :
          Save(t, Checkpoint("RUNNING", Nobody, {}), FALSE,
               [turn[t] EXCEPT !.pc = pc, !.trimmed = trimmed,
                               !.messages = IF trimmed THEN {} ELSE @])
    BY <1>3 DEF Start
  <2> DEFINE next == [turn[t] EXCEPT !.pc = pc, !.trimmed = trimmed,
                                     !.messages = IF trimmed THEN {} ELSE @]
  <2>2. /\ next \in Turn /\ next.pc = pc
        /\ next.resumes = turn[t].resumes /\ next.planned = turn[t].planned
    BY <1>1 DEF Turn
  <2>3. IsSave(t, Checkpoint("RUNNING", Nobody, {}), FALSE, next)
    BY <2>2, <1>1, <1>3 DEF Start, IsSave, SavePcs, Checkpoint, Statuses
  <2> QED
    BY <2>1, <2>3, <1>3, SaveInv DEF Start
<1>4. CASE SavePlan(t)
  <2> DEFINE next == [turn[t] EXCEPT !.pc = turn[t].then, !.then = "none"]
  <2>1. turn[t].then \in {"planning", "asking", "answered"}
    BY <1>1, <1>4 DEF SavePlan, IInv, WellFormed, Turn
  <2>2. /\ next \in Turn /\ next.pc = turn[t].then
        /\ next.resumes = turn[t].resumes /\ next.planned = turn[t].planned
    BY <2>1, <1>1 DEF Turn
  <2>3. IsSave(t, Checkpoint("RUNNING", Nobody, {}), TRUE, next)
    BY <2>1, <2>2, <1>1, <1>4 DEF SavePlan, IsSave, SavePcs, Checkpoint, Statuses
  <2> QED
    BY <2>3, <1>4, SaveInv DEF SavePlan
<1>5. CASE SaveQuestion(t)
  <2> DEFINE next == [turn[t] EXCEPT !.pc = "asked"]
  <2>1. PICK snapshot \in SUBSET turn[t].messages :
          Save(t, Checkpoint("WAITING_HUMAN", t, snapshot), TRUE, next)
    BY <1>5 DEF SaveQuestion
  <2>2. snapshot \in SUBSET Calls
    BY <1>1 DEF Turn
  <2>3. IsSave(t, Checkpoint("WAITING_HUMAN", t, snapshot), TRUE, next)
    BY <2>2, <1>1, <1>5 DEF SaveQuestion, IsSave, SavePcs, Checkpoint, Statuses, Turn
  <2> QED
    BY <2>1, <2>3, <1>5, SaveInv DEF SaveQuestion
<1>6. CASE Finish(t)
  <2> DEFINE next == [turn[t] EXCEPT !.pc = "answered"]
  <2>1. IsSave(t, Checkpoint(turn[t].pc, Nobody, {}), TRUE, next)
    BY <1>1, <1>6 DEF Finish, IsSave, SavePcs, Checkpoint, Statuses, Turn
  <2> QED
    BY <2>1, <1>6, SaveInv DEF Finish
<1> QED
  BY <1>2, <1>3, <1>4, <1>5, <1>6

\* A round that begins with a cut transcript is else the turn as it is.
LEMMA RoundKeeps ==
    ASSUME NEW t \in Turns, turn[t] \in Turn, NEW round \in Rounds(t)
    PROVE  /\ round \in Turn /\ round.pc = turn[t].pc /\ round.resumes = turn[t].resumes
           /\ round.calls = turn[t].calls /\ round.asker = turn[t].asker
BY DEF Rounds, Cut, Turn

LEMMA WorkInv ==
    ASSUME IInv, NEW t \in Turns, Plan(t) \/ RunBatch(t) \/ Abandon(t)
    PROVE  IInv'
<1> USE RuntimeAssumption
<1>1. turn[t] \in Turn /\ Concurrency \in Nat \ {0} /\ MaxCalls \in Nat
  BY DEF IInv, TypeOK
<1>2. CASE PlanWithoutCalls(t)
  <2>1. PICK round \in Rounds(t), pc \in {"planning", "answered", "FAILED", "COMPLETED"} :
          Becomes(t, [round EXCEPT !.pc = pc, !.planned = TRUE])
    BY <1>2 DEF PlanWithoutCalls
  <2> DEFINE next == [round EXCEPT !.pc = pc, !.planned = TRUE]
  <2>k. round \in Turn /\ round.resumes = turn[t].resumes /\ round.calls = turn[t].calls
    BY <1>1, RoundKeeps
  <2>2. next \in Turn /\ next.pc = pc /\ next.resumes = turn[t].resumes
    BY <2>k DEF Turn
  <2> QED
    BY <2>1, <2>2, <1>2, BecomesInv DEF PlanWithoutCalls, Ended, Begins
<1>3. CASE PlanCalls(t)
  <2>1. PICK round \in Rounds(t), n \in 1 .. MaxCalls - turn[t].calls :
          Becomes(t, [round EXCEPT !.pc = "calling", !.planned = TRUE, !.plan = n,
                                   !.done = 0])
    BY <1>3 DEF PlanCalls
  <2> DEFINE next == [round EXCEPT !.pc = "calling", !.planned = TRUE, !.plan = n,
                                     !.done = 0]
  <2>2. turn[t].calls \in 0..MaxCalls
    BY <1>1 DEF Turn
  <2>n. n \in 0..MaxCalls /\ 0 \in 0..MaxCalls
    BY <2>2, <1>1
  <2>k. round \in Turn /\ round.resumes = turn[t].resumes /\ round.calls = turn[t].calls
    BY <1>1, RoundKeeps
  <2>3. /\ next \in Turn /\ next.pc = "calling" /\ next.resumes = turn[t].resumes
        /\ next.done = 0 /\ next.plan = n /\ next.calls = turn[t].calls
    BY <2>n, <2>k DEF Turn
  <2>4. next.done < next.plan /\ next.calls + next.plan - next.done <= MaxCalls
    BY <2>2, <2>3, <1>1
  <2> QED
    BY <2>1, <2>3, <2>4, <1>3, BecomesInv DEF PlanCalls, Ended, Begins
<1>4. CASE PlanRepeated(t)
  <2>1. PICK round \in Rounds(t), then \in {"planning", "answered"} :
          Becomes(t, [round EXCEPT !.pc = "saving", !.then = then])
    BY <1>4 DEF PlanRepeated
  <2> DEFINE next == [round EXCEPT !.pc = "saving", !.then = then]
  <2>k. round \in Turn /\ round.resumes = turn[t].resumes /\ round.calls = turn[t].calls
    BY <1>1, RoundKeeps
  <2>2. /\ next \in Turn /\ next.pc = "saving" /\ next.then = then
        /\ next.resumes = turn[t].resumes
    BY <2>k DEF Turn
  <2> QED
    BY <2>1, <2>2, <1>4, BecomesInv DEF PlanRepeated, Ended, Begins
<1>5. CASE RunBatch(t)
  <2> DEFINE size == BatchSize(t)
             batch == turn[t].calls + 1 .. turn[t].calls + size
             over == turn[t].done + size
             results(a) == {<<t, c>> : c \in {d \in batch : a = 0 \/ d <= a}}
             next(a) == [turn[t] EXCEPT
                !.pc = IF a = 0 /\ over < turn[t].plan THEN "calling" ELSE "saving",
                !.then = IF a > 0 THEN "asking" ELSE "planning",
                !.done = over, !.calls = @ + size, !.asker = a,
                !.messages = @ \cup results(a)]
  <2>1. PICK a \in batch \cup {0} : Becomes(t, next(a))
    BY <1>5 DEF RunBatch
  <2>2. /\ turn[t].calls \in 0..MaxCalls /\ turn[t].done \in 0..MaxCalls
        /\ turn[t].plan \in 0..MaxCalls /\ turn[t].messages \in SUBSET Calls
    BY <1>1 DEF Turn
  <2>3. /\ turn[t].done < turn[t].plan
        /\ turn[t].calls + turn[t].plan - turn[t].done <= MaxCalls
    BY <1>5 DEF RunBatch, IInv, WellFormed
  <2>4. size \in Nat /\ size > 0 /\ size <= turn[t].plan - turn[t].done
    BY <2>2, <2>3, <1>1 DEF BatchSize
  <2>5. /\ over \in 0..MaxCalls /\ turn[t].calls + size \in 0..MaxCalls
        /\ a \in 0..MaxCalls /\ batch \subseteq Nat
    <3> HIDE DEF size
    <3> QED
      BY <2>2, <2>3, <2>4, <1>1
  <2>6. results(a) \subseteq Calls
    BY <2>5 DEF Calls
  <2>7. /\ next(a) \in Turn /\ next(a).resumes = turn[t].resumes
        /\ next(a).pc = IF a = 0 /\ over < turn[t].plan THEN "calling" ELSE "saving"
        /\ next(a).then # "none" /\ next(a).done = over
        /\ next(a).calls = turn[t].calls + size /\ next(a).plan = turn[t].plan
    <3> HIDE DEF size, results
    <3> QED
      BY <2>2, <2>5, <2>6, <1>1 DEF Turn
  <2>8. next(a).pc = "calling" => /\ next(a).done < next(a).plan
                                  /\ next(a).calls + next(a).plan - next(a).done <= MaxCalls
    <3> HIDE DEF size, next
    <3> QED
      BY <2>2, <2>3, <2>4, <2>7, <1>1
  <2> QED
    <3> HIDE DEF next
    <3> QED
      BY <2>1, <2>7, <2>8, <1>5, BecomesInv DEF RunBatch, Ended, Begins
<1>6. CASE Abandon(t)
  <2> DEFINE next == [turn[t] EXCEPT !.pc = "gone"]
  <2>1. /\ next \in Turn /\ next.pc = "gone" /\ next.resumes = turn[t].resumes
        /\ next.planned = turn[t].planned
    BY <1>1 DEF Turn
  <2> QED
    BY <2>1, <1>6, BecomesInv DEF Abandon, Live, Ended
<1> QED
  BY <1>2, <1>3, <1>4, <1>5, <1>6 DEF Plan

LEMMA NextInv == IInv /\ [Next]_vars => IInv'
<1> SUFFICES ASSUME IInv, [Next]_vars PROVE IInv'
  OBVIOUS
<1>1. CASE Next
  BY <1>1, LoadInv, SavesInv, WorkInv DEF Next
<1>2. CASE UNCHANGED vars
  BY <1>2 DEF vars, IInv, TypeOK, WellFormed, CurrentOwns, OwnerCurrent, QuestionKept,
              AskedFirst, TakenUp, Faultless, Unsaved
<1> QED
  BY <1>1, <1>2

-----------------------------------------------------------------------------
(* The theorems.                                                           *)

\* Every reachable state satisfies the inductive invariant.
THEOREM Invariant == Spec => []IInv
<1> QED
  BY InitInv, NextInv, PTL DEF Spec

\* The variables keep their types.
THEOREM Typed == Spec => []TypeOK
<1>1. IInv => TypeOK
  BY DEF IInv
<1> QED
  BY <1>1, Invariant, PTL

\* A question that ended its turn waits in the checkpoint, unless a save failed or
\* another run has begun.
THEOREM QuestionsAreKept == Spec => []QuestionKept
<1>1. IInv => QuestionKept
  BY DEF IInv
<1> QED
  BY <1>1, Invariant, PTL

\* Only Save writes the checkpoint, and a late save only where it is the owner's.
LEMMA LateSave ==
    ASSUME IInv, [Next]_vars, NEW t \in Turns,
           turn[t].pc \in {"saving", "asking", "COMPLETED", "FAILED"}, turn'[t] # turn[t]
    PROVE  UNCHANGED <<stored, current>> \/ stored = NoCheckpoint \/ owner = t
<1>1. PICK u \in Turns :
        \/ Load(u) \/ Resume(u) \/ Start(u) \/ Plan(u) \/ RunBatch(u) \/ SavePlan(u)
        \/ SaveQuestion(u) \/ Finish(u) \/ Abandon(u)
  BY DEF Next, vars
<1>2. turn' = [turn EXCEPT ![u] = turn'[u]]
  <2>1. turn \in [Turns -> Turn]
    BY DEF IInv, TypeOK
  <2>2. \E next : turn' = [turn EXCEPT ![u] = next]
    BY <1>1 DEF Load, Resume, Start, Plan, PlanWithoutCalls, PlanCalls, PlanRepeated,
                RunBatch, SavePlan, SaveQuestion, Finish, Abandon, Becomes, Save
  <2> QED
    BY <2>1, <2>2
<1>3. u = t
  BY <1>2 DEF IInv, TypeOK
<1>4. CASE Abandon(t)
  BY <1>4 DEF Abandon, Becomes
<1>5. CASE SavePlan(t) \/ SaveQuestion(t) \/ Finish(t)
  <2>1. \/ stored = NoCheckpoint \/ t \in current \/ UNCHANGED <<stored, current>>
    BY <1>5 DEF SavePlan, SaveQuestion, Finish, Save
  <2>2. t \in current => owner = t
    BY DEF IInv, CurrentOwns, Begins, Ended
  <2> QED
    BY <2>1, <2>2
<1> QED
  BY <1>1, <1>3, <1>4, <1>5
     DEF Load, Resume, Start, Plan, PlanWithoutCalls, PlanCalls, PlanRepeated, RunBatch

\* A turn that another one has overtaken leaves the checkpoint of the later one alone.
THEOREM OverlapIsHarmless == Spec => OverlapHarmless
<1>1. IInv /\ [Next]_vars =>
        [\A t \in Turns :
           turn[t].pc \in {"saving", "asking", "COMPLETED", "FAILED"} /\ turn'[t] # turn[t]
             => UNCHANGED <<stored, current>> \/ stored = NoCheckpoint \/ owner = t]_vars
  BY LateSave
<1> QED
  BY <1>1, Invariant, PTL DEF Spec, OverlapHarmless

\* A question that is taken up is the one in the checkpoint.
LEMMA TakesStored ==
    ASSUME IInv, [Next]_vars, NEW t \in Turns,
           turn[t].pc = "none", turn'[t].resumes # Nobody
    PROVE  turn'[t].resumes = stored.question
<1>1. turn[t].resumes = Nobody /\ turn \in [Turns -> Turn]
  BY DEF IInv, WellFormed, TypeOK
<1>2. PICK u \in Turns :
        \/ Load(u) \/ Resume(u) \/ Start(u) \/ Plan(u) \/ RunBatch(u) \/ SavePlan(u)
        \/ SaveQuestion(u) \/ Finish(u) \/ Abandon(u)
  BY <1>1 DEF Next, vars
<1>3. \E next : turn' = [turn EXCEPT ![u] = next]
  BY <1>2 DEF Load, Resume, Start, Plan, PlanWithoutCalls, PlanCalls, PlanRepeated,
              RunBatch, SavePlan, SaveQuestion, Finish, Abandon, Becomes, Save
<1>4. u = t
  BY <1>1, <1>3
<1>5. Load(t)
  BY <1>2, <1>4 DEF Resume, Start, Plan, PlanWithoutCalls, PlanCalls, PlanRepeated,
              RunBatch, SavePlan, SaveQuestion, Finish, Abandon, Live
<1>6. PICK q \in Questions \cup {Nobody} :
        turn' = [turn EXCEPT ![t] =
            IF Matches(stored, q)
            THEN [NoTurn EXCEPT !.pc = "resuming", !.resumes = q,
                                !.messages = stored.snapshot]
            ELSE [NoTurn EXCEPT !.pc = "starting"]]
  BY <1>5 DEF Load
<1>7. CASE Matches(stored, q)
  <2>1. turn'[t].resumes = q
    BY <1>1, <1>6, <1>7 DEF NoTurn
  <2> QED
    BY <2>1, <1>7 DEF Matches
<1>8. CASE ~Matches(stored, q)
  BY <1>1, <1>6, <1>8 DEF NoTurn
<1> QED
  BY <1>7, <1>8

\* No turn takes up a question on which another one has begun to plan.
THEOREM QuestionsAreResumedOnce == Spec => ResumedOnce
<1>1. IInv /\ [Next]_vars =>
        [\A t, u \in Turns :
           /\ turn[t].pc = "none" /\ turn'[t].resumes # Nobody
           /\ turn[u].resumes = turn'[t].resumes
           => ~turn[u].planned \/ Unsaved(u)]_vars
  <2> SUFFICES ASSUME IInv, [Next]_vars, NEW t \in Turns, NEW u \in Turns,
                      turn[t].pc = "none", turn'[t].resumes # Nobody,
                      turn[u].resumes = turn'[t].resumes
               PROVE  ~turn[u].planned \/ Unsaved(u)
    OBVIOUS
  <2>1. turn[u].resumes = stored.question /\ turn[u].resumes # Nobody
    BY TakesStored
  <2> QED
    BY <2>1 DEF IInv, TakenUp, WellFormed, Begins
<1> QED
  BY <1>1, Invariant, PTL DEF Spec, ResumedOnce

-----------------------------------------------------------------------------
(* What the transcript has.                                                *)

\* Where a turn is whose call has asked.
AsksNow(next) == next.pc = "asking" \/ (next.pc = "saving" /\ next.then = "asking")

\* What the invariant of the transcripts asks of a turn that goes on.
Fits(t, next) ==
    /\ next.asker > 0 => AsksNow(next)
    /\ AsksNow(next) => <<t, next.asker>> \in next.messages
    /\ next.pc \in Begins => next.calls = 0 /\ ~next.trimmed
    /\ \A c \in next.since + 1 .. next.calls :
         \/ <<t, c>> \in next.messages
         \/ next.asker > 0 /\ c \in next.asker + 1 .. next.asker + Concurrency - 1
    /\ next.resumes # Nobody /\ ~next.trimmed =>
         /\ <<next.resumes, turn[next.resumes].asker>> \in next.messages
         /\ Newest(turn[next.resumes].messages \cap next.messages,
                   turn[next.resumes].messages)

\* A live turn does.
LEMMA LiveFits ==
    ASSUME TranscriptInv, NEW t \in Turns, Live(t)
    PROVE  Fits(t, turn[t])
BY DEF TranscriptInv, AskerAsks, Asks, AsksNow, BeginsFresh, ResultsReachModel, Fits

\* Where no call of the turn asks, none has asked before.
LEMMA NobodyAsked ==
    ASSUME IInv, TranscriptInv, NEW t \in Turns, Live(t), turn[t].pc \notin {"asking", "saving"}
    PROVE  /\ turn[t].asker = 0
           /\ \A c \in turn[t].since + 1 .. turn[t].calls : <<t, c>> \in turn[t].messages
<1> USE RuntimeAssumption
<1>1. turn[t] \in Turn
  BY DEF IInv, TypeOK
<1>2. turn[t].asker \in Nat
  BY <1>1 DEF Turn
<1>3. ~(turn[t].asker > 0)
  BY DEF TranscriptInv, AskerAsks, Asks
<1>4. \A c \in turn[t].since + 1 .. turn[t].calls :
        <<t, c>> \in turn[t].messages \/ turn[t].asker > 0
  BY DEF TranscriptInv, ResultsReachModel
<1> QED
  BY <1>2, <1>3, <1>4

\* What is left of a turn that is over, of its transcript and its question.
LEMMA LeftTranscript ==
    ASSUME NEW next \in Turn
    PROVE  /\ Left(next).asker = next.asker /\ Left(next).messages \subseteq next.messages
           /\ next.pc = "asked" => Left(next).messages = next.messages
<1>1. CASE next.pc \notin Ended
  BY <1>1 DEF Left, Ended
<1>2. CASE next.pc \in Ended
  BY <1>2 DEF Left, NoTurn
<1> QED
  BY <1>1, <1>2

\* One turn goes on, or ends; the checkpoint may keep its transcript.
LEMMA TranscriptStep ==
    ASSUME IInv, TranscriptInv, NEW t \in Turns, NEW next,
           turn' = [turn EXCEPT ![t] = next], turn[t].pc # "asked", next.pc # "none",
           next.pc \in Ended \/ Fits(t, next),
           next.pc \in Begins => next.calls = 0 /\ ~next.trimmed,
           \/ next.resumes = turn[t].resumes
           \/ turn[t].pc = "none" /\ next.resumes \in {stored.question, Nobody},
           \A r \in next.messages :
             \/ r \in turn[t].messages
             \/ r[1] = t
             \/ stored.question # Nobody /\ r \in stored.snapshot,
           \/ stored' = stored
           \/ stored'.question = Nobody
           \/ /\ stored'.question = t /\ Newest(stored'.snapshot, next.messages)
              /\ <<t, next.asker>> \in stored'.snapshot
    PROVE  TranscriptInv'
<1>1. /\ turn \in [Turns -> Turn] /\ stored.question \in Turns \cup {Nobody}
      /\ \A u \in Turns : turn[u].resumes \in Turns \cup {Nobody}
      /\ t # Nobody
  BY DEF IInv, TypeOK, Turn, Turns, Nobody
<1>2. turn'[t] = next /\ \A u \in Turns \ {t} : turn'[u] = turn[u]
  BY <1>1
<1>3. /\ stored.question # Nobody => stored.question \in Turns \ {t}
      /\ \A u \in Turns : turn[u].resumes # Nobody => turn[u].resumes \in Turns \ {t}
  BY <1>1 DEF IInv, AskedFirst
<1>4. ASSUME NEW u \in Turns \ {t} PROVE Live(u)' => Live(u)
  BY <1>2 DEF Live
<1>5. Live(t)' => Fits(t, next)
  BY <1>2 DEF Live
<1>6. AskerAsks'
  <2> SUFFICES ASSUME NEW u \in Turns, Live(u)'
               PROVE  /\ turn'[u].asker > 0 => AsksNow(turn'[u])
                      /\ AsksNow(turn'[u]) => <<u, turn'[u].asker>> \in turn'[u].messages
    BY DEF AskerAsks, Asks, AsksNow
  <2>1. CASE u = t
    BY <2>1, <1>2, <1>5 DEF Fits
  <2>2. CASE u # t
    BY <2>2, <1>2, <1>4 DEF TranscriptInv, AskerAsks, Asks, AsksNow
  <2> QED
    BY <2>1, <2>2
<1>7. BeginsFresh'
  BY <1>2 DEF TranscriptInv, BeginsFresh
<1>8. OwnResults'
  <2> SUFFICES ASSUME NEW v \in Turns, NEW u \in Turns,
                      turn'[v].pc = "none" \/ turn'[v].resumes = u,
                      NEW r \in turn'[u].messages
               PROVE  r[1] # v
    BY DEF OwnResults
  <2>1. CASE u = t
    <3>0. next.resumes # t
      BY <1>1, <1>3
    <3>1. v # t /\ turn[v].pc = "none"
      BY <2>1, <3>0, <1>1, <1>2, <1>3
    <3>2. r \in turn[t].messages => r[1] # v
      BY <3>1 DEF TranscriptInv, OwnResults
    <3>3. stored.question # Nobody /\ r \in stored.snapshot => r[1] # v
      <4> SUFFICES ASSUME stored.question # Nobody, r \in stored.snapshot PROVE r[1] # v
        OBVIOUS
      <4>1. r \in turn[stored.question].messages
        BY DEF TranscriptInv, SnapshotIsNewest, Newest
      <4> QED
        BY <4>1, <3>1, <1>3 DEF TranscriptInv, OwnResults
    <3>4. r \in next.messages
      BY <2>1, <1>2
    <3> QED
      BY <3>1, <3>2, <3>3, <3>4
  <2>2. CASE u # t
    <3>1. turn'[u] = turn[u]
      BY <2>2, <1>2
    <3>2. turn[v].pc = "none" \/ turn[v].resumes = u
      BY <2>2, <1>2
    <3> QED
      BY <3>1, <3>2 DEF TranscriptInv, OwnResults
  <2> QED
    BY <2>1, <2>2
<1>9. SnapshotIsNewest'
  <2>1. CASE stored' = stored
    <3> SUFFICES ASSUME stored.question # Nobody
                 PROVE  /\ Newest(stored.snapshot, turn'[stored.question].messages)
                        /\ <<stored.question, turn'[stored.question].asker>>
                             \in stored.snapshot
      BY <2>1 DEF SnapshotIsNewest, Newest
    <3>1. turn'[stored.question] = turn[stored.question]
      BY <1>2, <1>3
    <3> QED
      BY <3>1 DEF TranscriptInv, SnapshotIsNewest
  <2>2. CASE stored'.question = Nobody
    BY <2>2 DEF SnapshotIsNewest
  <2>3. CASE /\ stored'.question = t /\ Newest(stored'.snapshot, next.messages)
             /\ <<t, next.asker>> \in stored'.snapshot
    BY <2>3, <1>2 DEF SnapshotIsNewest, Newest
  <2> QED
    BY <2>1, <2>2, <2>3
<1>10. ResultsReachModel'
  <2> DEFINE Complete(u, one) ==
        \A c \in one.since + 1 .. one.calls :
          \/ <<u, c>> \in one.messages
          \/ one.asker > 0 /\ c \in one.asker + 1 .. one.asker + Concurrency - 1
             Resumes(one, asked) ==
        /\ <<one.resumes, asked.asker>> \in one.messages
        /\ Newest(asked.messages \cap one.messages, asked.messages)
  <2> SUFFICES ASSUME NEW u \in Turns, Live(u)'
               PROVE  /\ Complete(u, turn'[u])
                      /\ turn'[u].resumes # Nobody /\ ~turn'[u].trimmed
                           => Resumes(turn'[u], turn'[turn'[u].resumes])
    BY DEF ResultsReachModel, Newest
  <2>1. turn'[u].resumes # Nobody => turn'[turn'[u].resumes] = turn[turn'[u].resumes]
    <3> SUFFICES ASSUME turn'[u].resumes # Nobody PROVE turn'[u].resumes \in Turns \ {t}
      BY <1>2
    <3> QED
      BY <1>2, <1>3
  <2>2. CASE u = t
    BY <2>1, <2>2, <1>2, <1>5 DEF Fits
  <2>3. CASE u # t
    BY <2>1, <2>3, <1>2, <1>4 DEF TranscriptInv, ResultsReachModel
  <2> QED
    BY <2>2, <2>3
<1> QED
  BY <1>6, <1>7, <1>8, <1>9, <1>10 DEF TranscriptInv

\* A turn that ends has no later need of its transcript; else the turn goes on.
LEMMA BecomesTranscript ==
    ASSUME IInv, TranscriptInv, NEW t \in Turns, NEW next \in Turn, Becomes(t, next),
           turn[t].pc # "asked", next.pc # "none", next.resumes = turn[t].resumes,
           \A r \in next.messages : r \in turn[t].messages \/ r[1] = t,
           next.pc \in Ended \/ Fits(t, next)
    PROVE  TranscriptInv'
<1>1. /\ Left(next).pc = next.pc /\ Left(next).resumes = next.resumes
      /\ next.pc \notin Ended => Left(next) = next
  BY LeftKeeps
<1>2. Left(next).pc \in Begins => next.pc \notin Ended
  BY <1>1 DEF Begins, Ended
<1>3. \A r \in Left(next).messages : r \in turn[t].messages \/ r[1] = t
  BY LeftTranscript
<1>4. turn' = [turn EXCEPT ![t] = Left(next)] /\ stored' = stored
  BY DEF Becomes
<1>5. Left(next).pc \in Ended \/ Fits(t, Left(next))
  BY <1>1
<1>6. Left(next).pc \in Begins => Left(next).calls = 0 /\ ~Left(next).trimmed
  BY <1>1, <1>2 DEF Fits
<1> DEFINE left == Left(next)
<1>7. left.pc # "none" /\ left.resumes = turn[t].resumes
  BY <1>1
<1> HIDE DEF left
<1> QED
  BY <1>3, <1>4, <1>5, <1>6, <1>7, TranscriptStep DEF left

LEMMA SaveTranscript ==
    ASSUME IInv, TranscriptInv, NEW t \in Turns, NEW next \in Turn,
           NEW checkpoint, NEW expected, Save(t, checkpoint, expected, next),
           turn[t].pc # "asked", next.pc # "none", next.resumes = turn[t].resumes,
           next.messages \subseteq turn[t].messages,
           next.pc \in Ended \/ Fits(t, next),
           \/ checkpoint.question = Nobody
           \/ /\ checkpoint.question = t /\ next.pc = "asked"
              /\ Newest(checkpoint.snapshot, next.messages)
              /\ <<t, next.asker>> \in checkpoint.snapshot
    PROVE  TranscriptInv'
<1>1. /\ Left(next).pc = next.pc /\ Left(next).resumes = next.resumes
      /\ next.pc \notin Ended => Left(next) = next
  BY LeftKeeps
<1>2. Left(next).pc \in Begins => next.pc \notin Ended
  BY <1>1 DEF Begins, Ended
<1>3. /\ Left(next).asker = next.asker
      /\ \A r \in Left(next).messages : r \in turn[t].messages
      /\ next.pc = "asked" => Left(next).messages = next.messages
  BY LeftTranscript
<1>4. turn' = [turn EXCEPT ![t] = Left(next)] /\ stored' \in {stored, checkpoint}
  BY DEF Save, Write, Fault
<1>5. Left(next).pc \in Ended \/ Fits(t, Left(next))
  BY <1>1
<1>6. Left(next).pc \in Begins => Left(next).calls = 0 /\ ~Left(next).trimmed
  BY <1>1, <1>2 DEF Fits
<1>7. \/ stored' = stored
      \/ stored'.question = Nobody
      \/ /\ stored'.question = t /\ Newest(stored'.snapshot, Left(next).messages)
         /\ <<t, Left(next).asker>> \in stored'.snapshot
  BY <1>3, <1>4
<1> QED
  BY <1>1, <1>3, <1>4, <1>5, <1>6, <1>7, TranscriptStep

LEMMA InitTranscript == Init => TranscriptInv
<1> SUFFICES ASSUME Init PROVE TranscriptInv
  OBVIOUS
<1>1. \A t \in Turns : /\ turn[t].pc = "none" /\ turn[t].calls = 0
                       /\ ~turn[t].trimmed /\ turn[t].messages = {}
  BY DEF Init, NoTurn
<1>2. stored.question = Nobody
  BY DEF Init, NoCheckpoint, Checkpoint
<1> QED
  BY <1>1, <1>2 DEF TranscriptInv, AskerAsks, BeginsFresh, OwnResults,
                    SnapshotIsNewest, ResultsReachModel, Live

LEMMA LoadTranscript ==
    ASSUME IInv, TranscriptInv, NEW t \in Turns, Load(t) PROVE TranscriptInv'
<1>1. PICK q \in Questions \cup {Nobody} :
        turn' = [turn EXCEPT ![t] =
            IF Matches(stored, q)
            THEN [NoTurn EXCEPT !.pc = "resuming", !.resumes = q,
                                !.messages = stored.snapshot]
            ELSE [NoTurn EXCEPT !.pc = "starting"]]
  BY DEF Load
<1>2. turn[t].pc = "none" /\ stored' = stored
  BY DEF Load
<1>3. CASE Matches(stored, q)
  <2> DEFINE next == [NoTurn EXCEPT !.pc = "resuming", !.resumes = q,
                                    !.messages = stored.snapshot]
  <2>1. /\ next.pc = "resuming" /\ next.calls = 0 /\ next.asker = 0 /\ next.resumes = q
        /\ next.messages = stored.snapshot /\ ~next.trimmed /\ next.since = 0
    BY DEF NoTurn
  <2>2. q = stored.question /\ q # Nobody
    BY <1>3 DEF Matches
  <2>3. /\ Newest(turn[q].messages \cap stored.snapshot, turn[q].messages)
        /\ <<q, turn[q].asker>> \in stored.snapshot
    <3>1. /\ Newest(stored.snapshot, turn[q].messages)
          /\ <<q, turn[q].asker>> \in stored.snapshot
      BY <2>2 DEF TranscriptInv, SnapshotIsNewest
    <3>2. turn[q].messages \cap stored.snapshot = stored.snapshot
      BY <3>1 DEF Newest
    <3> QED
      BY <3>1, <3>2
  <2>4. Fits(t, next)
    <3> HIDE DEF next
    <3> QED
      BY <2>1, <2>3 DEF Fits, AsksNow
  <2>5. turn' = [turn EXCEPT ![t] = next]
    BY <1>1, <1>3
  <2> QED
    <3> HIDE DEF next
    <3> QED
      BY <1>2, <2>1, <2>2, <2>4, <2>5, TranscriptStep
<1>4. CASE ~Matches(stored, q)
  <2> DEFINE next == [NoTurn EXCEPT !.pc = "starting"]
  <2>1. /\ next.pc = "starting" /\ next.calls = 0 /\ next.asker = 0
        /\ next.resumes = Nobody /\ ~next.trimmed /\ next.since = 0
        /\ next.messages = {}
    BY DEF NoTurn
  <2>2. Fits(t, next)
    <3> HIDE DEF next
    <3> QED
      BY <2>1 DEF Fits, AsksNow
  <2>3. turn' = [turn EXCEPT ![t] = next]
    BY <1>1, <1>4
  <2> QED
    <3> HIDE DEF next
    <3> QED
      BY <1>2, <2>1, <2>2, <2>3, TranscriptStep
<1> QED
  BY <1>3, <1>4

LEMMA SavesTranscript ==
    ASSUME IInv, TranscriptInv, NEW t \in Turns,
           Resume(t) \/ Start(t) \/ SavePlan(t) \/ SaveQuestion(t) \/ Finish(t)
    PROVE  TranscriptInv'
<1>1. turn[t] \in Turn
  BY DEF IInv, TypeOK
<1>2. turn[t].pc \in SavePcs /\ turn[t].pc # "asked" /\ Fits(t, turn[t])
  BY LiveFits DEF Resume, Start, SavePlan, SaveQuestion, Finish, Live, Ended, SavePcs
<1>n. /\ Checkpoint("RUNNING", Nobody, {}).question = Nobody
      /\ Checkpoint(turn[t].pc, Nobody, {}).question = Nobody
  BY DEF Checkpoint
<1>3. CASE Resume(t)
  <2> DEFINE next == [turn[t] EXCEPT !.pc = "starting"]
  <2>1. next \in Turn /\ next.resumes = turn[t].resumes
    BY <1>1 DEF Turn
  <2>a. turn[t].pc = "resuming"
    BY <1>3 DEF Resume
  <2>2. turn[t].asker = 0 /\ turn[t].calls = 0 /\ ~turn[t].trimmed
    BY <2>a, <1>2, NobodyAsked DEF Fits, Begins, Live, Ended
  <2>3. /\ next.pc = "starting" /\ next.asker = 0 /\ next.calls = 0
        /\ next.messages = turn[t].messages /\ ~next.trimmed
        /\ next.since = turn[t].since
    BY <1>1, <2>2 DEF Turn
  <2>4. Fits(t, next)
    <3>1. turn[t].since \in Nat
      BY <1>1 DEF Turn
    <3> HIDE DEF next
    <3> QED
      BY <1>2, <2>1, <2>2, <2>3, <3>1 DEF Fits, AsksNow
  <2>5. Save(t, Checkpoint("RUNNING", Nobody, {}), TRUE, next)
    BY <1>3 DEF Resume
  <2> QED
    BY <1>2, <1>n, <2>1, <2>3, <2>4, <2>5, SaveTranscript
<1>4. CASE Start(t)
  <2>1. PICK trimmed \in BOOLEAN, pc \in {"planning", "COMPLETED"} :
          Save(t, Checkpoint("RUNNING", Nobody, {}), FALSE,
               [turn[t] EXCEPT !.pc = pc, !.trimmed = trimmed,
                               !.messages = IF trimmed THEN {} ELSE @])
    BY <1>4 DEF Start
  <2> DEFINE next == [turn[t] EXCEPT !.pc = pc, !.trimmed = trimmed,
                                     !.messages = IF trimmed THEN {} ELSE @]
  <2>a. turn[t].pc = "starting"
    BY <1>4 DEF Start
  <2>2. turn[t].asker = 0 /\ turn[t].calls = 0 /\ ~turn[t].trimmed
    BY <2>a, <1>2, NobodyAsked DEF Fits, Begins, Live, Ended
  <2> DEFINE messages == IF trimmed THEN {} ELSE turn[t].messages
  <2>b. messages \in SUBSET Calls /\ next.messages = messages
    BY <1>1 DEF Turn
  <2>3. /\ next \in Turn /\ next.pc = pc /\ next.asker = 0 /\ next.calls = 0
        /\ next.resumes = turn[t].resumes /\ next.trimmed = trimmed
        /\ next.since \in Nat
    <3> DEFINE same == [turn[t] EXCEPT !.pc = pc, !.trimmed = trimmed, !.messages = messages]
    <3>1. next = same
      BY <1>1 DEF Turn
    <3> HIDE DEF next, messages
    <3>2. same \in Turn
      BY <1>1, <2>b DEF Turn
    <3>3. /\ same.pc = pc /\ same.asker = 0 /\ same.calls = 0
          /\ same.resumes = turn[t].resumes /\ same.trimmed = trimmed
          /\ same.since = turn[t].since
      BY <1>1, <2>2 DEF Turn
    <3>4. turn[t].since \in Nat
      BY <1>1 DEF Turn
    <3> HIDE DEF same
    <3> QED
      BY <3>1, <3>2, <3>3, <3>4
  <2>4. turn[t].resumes # Nobody =>
          /\ <<turn[t].resumes, turn[turn[t].resumes].asker>> \in turn[t].messages
          /\ Newest(turn[turn[t].resumes].messages \cap turn[t].messages,
                    turn[turn[t].resumes].messages)
    BY <1>2, <2>2 DEF Fits
  <2>5. Fits(t, next)
    <3>1. ~trimmed => next.messages = turn[t].messages
      BY <2>b
    <3> HIDE DEF next, messages
    <3>2. next.pc \notin Begins /\ ~AsksNow(next) /\ ~(next.asker > 0)
      BY <2>3 DEF AsksNow, Begins
    <3>3. \A c \in next.since + 1 .. next.calls : FALSE
      BY <2>3
    <3> QED
      BY <2>3, <2>4, <3>1, <3>2, <3>3 DEF Fits
  <2> QED
    <3> HIDE DEF next
    <3>1. Save(t, Checkpoint("RUNNING", Nobody, {}), FALSE, next)
      BY <2>1 DEF next
    <3>2. messages \subseteq turn[t].messages
      BY DEF messages
    <3> QED
      BY <1>2, <1>n, <2>b, <2>3, <2>5, <3>1, <3>2, SaveTranscript
<1>5. CASE SavePlan(t)
  <2> DEFINE next == [turn[t] EXCEPT !.pc = turn[t].then, !.then = "none"]
  <2>1. turn[t].then \in {"planning", "asking", "answered"} /\ turn[t].pc = "saving"
    BY <1>1, <1>5 DEF SavePlan, IInv, WellFormed, Turn
  <2>2. /\ next \in Turn /\ next.pc = turn[t].then /\ next.asker = turn[t].asker
        /\ next.resumes = turn[t].resumes /\ next.trimmed = turn[t].trimmed
        /\ next.calls = turn[t].calls /\ next.messages = turn[t].messages
        /\ next.since = turn[t].since
    BY <2>1, <1>1 DEF Turn
  <2>3. next.pc \in Ended \/ Fits(t, next)
    <3> HIDE DEF next
    <3>1. AsksNow(next) <=> turn[t].then = "asking"
      BY <2>1, <2>2 DEF AsksNow
    <3>2. AsksNow(turn[t]) <=> turn[t].then = "asking"
      BY <2>1 DEF AsksNow
    <3> QED
      BY <2>1, <2>2, <3>1, <3>2, <1>2 DEF Fits, Begins
  <2>4. Save(t, Checkpoint("RUNNING", Nobody, {}), TRUE, next)
    BY <1>5 DEF SavePlan
  <2> QED
    <3> HIDE DEF next
    <3> QED
      BY <1>2, <1>n, <2>1, <2>2, <2>3, <2>4, SaveTranscript
<1>6. CASE SaveQuestion(t)
  <2> DEFINE next == [turn[t] EXCEPT !.pc = "asked"]
             checkpoint(snapshot) == Checkpoint("WAITING_HUMAN", t, snapshot)
  <2>0. PICK snapshot \in SUBSET turn[t].messages :
          /\ Newest(snapshot, turn[t].messages) /\ <<t, turn[t].asker>> \in snapshot
          /\ Save(t, checkpoint(snapshot), TRUE, next)
    BY <1>6 DEF SaveQuestion
  <2>1. /\ next \in Turn /\ next.pc = "asked" /\ next.resumes = turn[t].resumes
        /\ next.messages = turn[t].messages /\ next.asker = turn[t].asker
    BY <1>1 DEF Turn
  <2>2. checkpoint(snapshot).question = t /\ checkpoint(snapshot).snapshot = snapshot
    BY DEF Checkpoint
  <2>3. /\ Save(t, checkpoint(snapshot), TRUE, next)
        /\ Newest(checkpoint(snapshot).snapshot, next.messages)
        /\ <<t, next.asker>> \in checkpoint(snapshot).snapshot
    BY <2>0, <2>1, <2>2
  <2> QED
    <3> HIDE DEF next, checkpoint
    <3> QED
      BY <1>2, <2>1, <2>2, <2>3, SaveTranscript DEF Ended
<1>7. CASE Finish(t)
  <2> DEFINE next == [turn[t] EXCEPT !.pc = "answered"]
  <2>1. /\ next \in Turn /\ next.pc = "answered" /\ next.resumes = turn[t].resumes
        /\ next.messages = turn[t].messages
    BY <1>1 DEF Turn
  <2>2. Save(t, Checkpoint(turn[t].pc, Nobody, {}), TRUE, next)
    BY <1>7 DEF Finish
  <2> QED
    <3> HIDE DEF next
    <3> QED
      BY <1>2, <1>n, <2>1, <2>2, SaveTranscript DEF Ended
<1> QED
  BY <1>3, <1>4, <1>5, <1>6, <1>7

LEMMA WorkTranscript ==
    ASSUME IInv, TranscriptInv, NEW t \in Turns, Plan(t) \/ RunBatch(t) \/ Abandon(t)
    PROVE  TranscriptInv'
<1> USE RuntimeAssumption
<1>1. turn[t] \in Turn /\ Concurrency \in Nat \ {0} /\ MaxCalls \in Nat
  BY DEF IInv, TypeOK
<1>2. Live(t) /\ turn[t].pc # "asked" /\ Fits(t, turn[t])
  BY LiveFits DEF Plan, PlanWithoutCalls, PlanCalls, PlanRepeated, RunBatch, Abandon,
                  Live, Ended
<1>3. CASE Plan(t)
  <2>1. turn[t].pc = "planning" /\ turn[t].asker = 0
    BY <1>2, <1>3, NobodyAsked DEF Plan, PlanWithoutCalls, PlanCalls, PlanRepeated
\* A round begins with the transcript, or without all that it had.
  <2>2. ASSUME NEW round \in Rounds(t), NEW next \in Turn, Becomes(t, next),
               next.pc \notin Begins \cup {"asking"}, ~AsksNow(next),
               next.asker = round.asker, next.resumes = round.resumes,
               next.trimmed = round.trimmed, next.calls = round.calls,
               next.since = round.since, next.messages = round.messages
        PROVE  TranscriptInv'
    <3>1. next.asker = 0 /\ next.resumes = turn[t].resumes
      BY <1>1, <2>1, <2>2, RoundKeeps
    <3>2. Fits(t, next) /\ next.messages \subseteq turn[t].messages
      <4>0. ~(next.asker > 0) /\ ~(turn[t].asker > 0)
        BY <2>1, <3>1
      <4>1. CASE round = turn[t]
        <5>1. /\ next.messages = turn[t].messages /\ next.since = turn[t].since
              /\ next.calls = turn[t].calls /\ next.trimmed = turn[t].trimmed
              /\ next.resumes = turn[t].resumes
          BY <2>2, <4>1
        <5>2. Fits(t, turn[t]) /\ next.pc \notin Begins /\ ~AsksNow(next)
          BY <1>2, <2>2
        <5> QED
          BY <4>0, <5>1, <5>2 DEF Fits
      <4>2. CASE round = Cut(t)
        <5>1. /\ round.since = turn[t].calls /\ round.calls = turn[t].calls
              /\ round.messages = {} /\ round.trimmed = (turn[t].resumes # Nobody)
              /\ turn[t].calls \in Nat
          BY <1>1, <4>2 DEF Cut, Turn
        <5>2. \A c \in next.since + 1 .. next.calls : FALSE
          BY <2>2, <5>1
        <5>3. ~(next.resumes # Nobody /\ ~next.trimmed) /\ next.messages = {}
          BY <2>2, <3>1, <5>1
        <5> QED
          BY <2>2, <4>0, <5>2, <5>3 DEF Fits
      <4> QED
        BY <4>1, <4>2 DEF Rounds
    <3>3. next.pc # "none"
      BY <2>2 DEF Begins
    <3> QED
      BY <1>2, <2>2, <3>1, <3>2, <3>3, BecomesTranscript
  <2>3. CASE PlanWithoutCalls(t)
    <3>1. PICK round \in Rounds(t), pc \in {"planning", "answered", "FAILED", "COMPLETED"} :
            Becomes(t, [round EXCEPT !.pc = pc, !.planned = TRUE])
      BY <2>3 DEF PlanWithoutCalls
    <3>2. round \in Turn
      BY <1>1, RoundKeeps
    <3> QED
      BY <2>2, <3>1, <3>2 DEF Turn, Begins, AsksNow
  <2>4. CASE PlanCalls(t)
    <3>1. PICK round \in Rounds(t), n \in 1 .. MaxCalls - turn[t].calls :
            Becomes(t, [round EXCEPT !.pc = "calling", !.planned = TRUE, !.plan = n,
                                     !.done = 0])
      BY <2>4 DEF PlanCalls
    <3>2. turn[t].calls \in 0..MaxCalls
      BY <1>1 DEF Turn
    <3>3. n \in 0..MaxCalls /\ 0 \in 0..MaxCalls
      BY <1>1, <3>2
    <3>4. round \in Turn
      BY <1>1, RoundKeeps
    <3> DEFINE next == [round EXCEPT !.pc = "calling", !.planned = TRUE, !.plan = n,
                                     !.done = 0]
    <3>5. next \in Turn
      BY <3>3, <3>4 DEF Turn
    <3>6. /\ next.pc = "calling" /\ next.then = round.then /\ next.asker = round.asker
          /\ next.resumes = round.resumes /\ next.trimmed = round.trimmed
          /\ next.calls = round.calls /\ next.since = round.since
          /\ next.messages = round.messages
      BY <3>4 DEF Turn
    <3>7. next.pc \notin Begins \cup {"asking"} /\ ~AsksNow(next)
      BY <3>6 DEF Begins, AsksNow
    <3> HIDE DEF next
    <3> QED
      BY <2>2, <3>1, <3>5, <3>6, <3>7 DEF next
  <2>5. CASE PlanRepeated(t)
    <3>1. PICK round \in Rounds(t), then \in {"planning", "answered"} :
            Becomes(t, [round EXCEPT !.pc = "saving", !.then = then])
      BY <2>5 DEF PlanRepeated
    <3>2. round \in Turn
      BY <1>1, RoundKeeps
    <3> QED
      BY <2>2, <3>1, <3>2 DEF Turn, Begins, AsksNow
  <2> QED
    BY <1>3, <2>3, <2>4, <2>5 DEF Plan
\* Of a batch, what is not in the transcript comes after the call that asked, and is
\* in the same batch.
<1>4. CASE RunBatch(t)
  <2> DEFINE size == BatchSize(t)
             batch == turn[t].calls + 1 .. turn[t].calls + size
             over == turn[t].done + size
             results(a) == {<<t, c>> : c \in {d \in batch : a = 0 \/ d <= a}}
             next(a) == [turn[t] EXCEPT
                !.pc = IF a = 0 /\ over < turn[t].plan THEN "calling" ELSE "saving",
                !.then = IF a > 0 THEN "asking" ELSE "planning",
                !.done = over, !.calls = @ + size, !.asker = a,
                !.messages = @ \cup results(a)]
  <2>1. PICK a \in batch \cup {0} : Becomes(t, next(a))
    BY <1>4 DEF RunBatch
  <2>2. /\ turn[t].calls \in 0..MaxCalls /\ turn[t].done \in 0..MaxCalls
        /\ turn[t].plan \in 0..MaxCalls /\ turn[t].messages \in SUBSET Calls
        /\ turn[t].since \in 0..MaxCalls
    BY <1>1 DEF Turn
  <2>a. turn[t].pc = "calling"
    BY <1>4 DEF RunBatch
  <2>b. \A c \in turn[t].since + 1 .. turn[t].calls : <<t, c>> \in turn[t].messages
    BY <2>a, <1>2, NobodyAsked
  <2>3. /\ turn[t].done < turn[t].plan
        /\ turn[t].calls + turn[t].plan - turn[t].done <= MaxCalls
    BY <1>4 DEF RunBatch, IInv, WellFormed
  <2>4. size \in Nat /\ size > 0 /\ size <= turn[t].plan - turn[t].done /\ size <= Concurrency
    BY <2>2, <2>3, <1>1 DEF BatchSize
  <2>5. /\ over \in 0..MaxCalls /\ turn[t].calls + size \in 0..MaxCalls
        /\ a \in 0..MaxCalls /\ batch \subseteq Nat
    <3> HIDE DEF size
    <3> QED
      BY <2>2, <2>3, <2>4, <1>1
  <2>6. results(a) \subseteq Calls
    BY <2>5 DEF Calls
  <2>7. /\ next(a) \in Turn /\ next(a).resumes = turn[t].resumes
        /\ next(a).pc = (IF a = 0 /\ over < turn[t].plan THEN "calling" ELSE "saving")
        /\ next(a).then = (IF a > 0 THEN "asking" ELSE "planning")
        /\ next(a).calls = turn[t].calls + size /\ next(a).asker = a
        /\ next(a).trimmed = turn[t].trimmed /\ next(a).since = turn[t].since
        /\ next(a).messages = turn[t].messages \cup results(a)
    <3> HIDE DEF size, results
    <3> QED
      BY <2>2, <2>5, <2>6, <1>1 DEF Turn
  <2>8. ASSUME NEW c \in turn[t].since + 1 .. turn[t].calls + size
        PROVE  \/ <<t, c>> \in turn[t].messages \cup results(a)
               \/ a > 0 /\ c \in a + 1 .. a + Concurrency - 1
    <3>1. CASE c <= turn[t].calls
      <4> HIDE DEF size, results
      <4>1. c \in turn[t].since + 1 .. turn[t].calls
        BY <3>1, <2>2, <2>4
      <4> QED
        BY <4>1, <2>b
    <3>2. CASE c > turn[t].calls /\ (a = 0 \/ c <= a)
      <4>1. c \in batch
        <5> HIDE DEF size
        <5> QED
          BY <3>2, <2>2, <2>4
      <4>2. <<t, c>> \in results(a)
        <5> HIDE DEF batch
        <5> QED
          BY <3>2, <4>1
      <4> HIDE DEF results
      <4> QED
        BY <4>2
    <3>3. CASE a > 0 /\ c > a
      <4>1. a \in batch
        BY <3>3
      <4> HIDE DEF size
      <4> QED
        BY <3>3, <4>1, <2>2, <2>4, <1>1
    <3> HIDE DEF size
    <3> QED
      BY <3>1, <3>2, <3>3, <2>2, <2>4, <2>5, <1>1
\* The result that asks is one of the batch's; what the turn resumed with is as it was.
  <2>9. AsksNow(next(a)) <=> a > 0
    <3>1. a \in Nat
      BY <2>5, <1>1
    <3> HIDE DEF size, results, next
    <3> QED
      BY <2>7, <3>1 DEF AsksNow
  <2>10. a > 0 => <<t, a>> \in results(a)
    <3> HIDE DEF size
    <3> QED
      BY <2>2, <2>4, <2>5, <1>1
  <2>11. turn[t].resumes # Nobody =>
           turn[turn[t].resumes].messages \cap (turn[t].messages \cup results(a))
             = turn[turn[t].resumes].messages \cap turn[t].messages
    <3> SUFFICES ASSUME turn[t].resumes # Nobody,
                        NEW r \in turn[turn[t].resumes].messages
                 PROVE  r \notin results(a)
      OBVIOUS
    <3>1. turn[t].resumes \in Turns
      BY <1>1 DEF Turn
    <3>2. r[1] # t
      BY <3>1 DEF TranscriptInv, OwnResults
    <3> QED
      BY <3>2
  <2>12. Fits(t, next(a))
    <3> HIDE DEF size, results, next
    <3>1. /\ next(a).pc \notin Begins
          /\ next(a).asker > 0 => AsksNow(next(a))
          /\ AsksNow(next(a)) => <<t, next(a).asker>> \in next(a).messages
      BY <2>7, <2>9, <2>10 DEF Begins
    <3>2. \A c \in next(a).since + 1 .. next(a).calls :
            \/ <<t, c>> \in next(a).messages
            \/ next(a).asker > 0
               /\ c \in next(a).asker + 1 .. next(a).asker + Concurrency - 1
      BY <2>7, <2>8
    <3>3. next(a).resumes # Nobody /\ ~next(a).trimmed =>
            /\ <<next(a).resumes, turn[next(a).resumes].asker>> \in next(a).messages
            /\ Newest(turn[next(a).resumes].messages \cap next(a).messages,
                      turn[next(a).resumes].messages)
      BY <2>7, <2>11, <1>2 DEF Fits
    <3> QED
      BY <3>1, <3>2, <3>3 DEF Fits
  <2>13. next(a).pc # "none" /\ \A r \in next(a).messages : r \in turn[t].messages \/ r[1] = t
    <3>1. \A r \in results(a) : r[1] = t
      OBVIOUS
    <3> HIDE DEF size, results, next
    <3> QED
      BY <2>7, <3>1
  <2> QED
    <3> HIDE DEF next
    <3> QED
      BY <2>1, <2>7, <2>12, <2>13, <1>2, BecomesTranscript
<1>5. CASE Abandon(t)
  <2> DEFINE next == [turn[t] EXCEPT !.pc = "gone"]
  <2>1. /\ next \in Turn /\ next.pc = "gone" /\ next.resumes = turn[t].resumes
        /\ next.messages = turn[t].messages
    BY <1>1 DEF Turn
  <2> QED
    <3> HIDE DEF next
    <3>1. Becomes(t, next)
      BY <1>5 DEF Abandon, next
    <3> QED
      BY <2>1, <3>1, <1>2, BecomesTranscript DEF Ended
<1> QED
  BY <1>3, <1>4, <1>5

LEMMA NextTranscript == IInv /\ TranscriptInv /\ [Next]_vars => TranscriptInv'
<1> SUFFICES ASSUME IInv, TranscriptInv, [Next]_vars PROVE TranscriptInv'
  OBVIOUS
<1>1. CASE Next
  BY <1>1, LoadTranscript, SavesTranscript, WorkTranscript DEF Next
<1>2. CASE UNCHANGED vars
  BY <1>2 DEF vars, TranscriptInv, AskerAsks, Asks, BeginsFresh, OwnResults,
              SnapshotIsNewest, ResultsReachModel, Newest, Live
<1> QED
  BY <1>1, <1>2

\* Of the calls of a turn since its transcript was last cut, the transcript lacks only
\* those that ran beside the one that asked the user; a turn that resumes has the newest
\* of what the asking turn had, the result that asked among it, until it is cut.
THEOREM TranscriptsAreComplete == Spec => []ResultsReachModel
<1>1. Spec => [](IInv /\ TranscriptInv)
  BY InitInv, NextInv, InitTranscript, NextTranscript, PTL DEF Spec
<1>2. TranscriptInv => ResultsReachModel
  BY DEF TranscriptInv
<1> QED
  BY <1>1, <1>2, PTL
=============================================================================
