--------------------------- MODULE MissionRunProofs ---------------------------
(***************************************************************************)
(* Proofs about MissionRun: its types, what a completed mission and a      *)
(* gated task show, how far a task climbs the repair ladder, when run      *)
(* rejects, and that it gets nearer its end, for every plan and policy.    *)
(***************************************************************************)
EXTENDS MissionRun, FiniteSetTheorems, TLAPS

InHand == pc \in {"gate", "dispatch", "harness"}
Busy == InHand \/ pc = "repair"
Bad(t) == state[t] \in {"FAILED", "BLOCKED"}
Fresh(t) == attempts[t] = 0 /\ count[t] = 0 /\ runs[t] = 0 /\ t \notin advised

(* The task in hand is not one that waits for its turn; what waits in a wave *)
(* is pending, what waits for a switch has failed.                           *)
TurnInv ==
  /\ nested => InHand
  /\ InHand => state[cur] \in {"PENDING", "RUNNING"}
  /\ pc = "repair" => Bad(cur)
  /\ \A t \in advice : Bad(t) /\ t \in advised
  /\ \A t \in queue : state[t] = "PENDING"
  /\ Busy => cur \notin queue \cup advice
  /\ Busy /\ from = "wave" => advice = {}
  /\ pc \in {"loop", "turn", "wave"} => advice = {}

(* COMPLETED is the last thing a run sets.                                   *)
EndInv == status = "COMPLETED" => pc = "ended" /\ IsDone /\ ~doubt

(* A delivery that was not verified leaves its doubt.                        *)
DoubtInv == ~doubt => \A t \in Tasks : state[t] = "DONE" => grade[t] = "verified"

(* An approval is spent by the dispatch that follows it.                     *)
GateInv ==
  /\ EachRunApproved
  /\ pc = "dispatch" /\ cur \in Gated => runs[cur] < granted[cur]

(* A task at rest: pending and untouched, or tried once for its wave, and    *)
(* once more if the supervisor's switch for it was executed.                 *)
RestInv(t) ==
  /\ state[t] = "PENDING" => Fresh(t)
  /\ t \in advised => state[t] # "PENDING"
  /\ t \notin advised \/ t \in advice => count[t] <= 1 /\ runs[t] <= 2
  /\ count[t] <= 2 /\ runs[t] <= 3

(* The task in hand, by what sent it there.                                  *)
HandInv(t) ==
  LET now == IF pc = "harness" THEN 1 ELSE 0
  IN  /\ pc = "repair" /\ from = "wave" => count[t] = 0 /\ runs[t] <= 1 /\ t \notin advised
      /\ pc = "repair" /\ from = "advice" => count[t] <= 1 /\ runs[t] <= 2 /\ t \in advised
      /\ InHand /\ from = "wave" /\ ~nested => count[t] = 0 /\ runs[t] <= now /\ t \notin advised
      /\ InHand /\ from = "wave" /\ nested => count[t] <= 1 /\ runs[t] <= 1 + now /\ t \notin advised
      /\ InHand /\ from = "advice" =>
           count[t] <= 2 /\ runs[t] <= 2 + now /\ t \in advised /\ nested

RungInv == \A t \in Tasks : IF Busy /\ t = cur THEN HandInv(t) ELSE RestInv(t)

(* A mission that is blocked without a ceiling has a task that failed or     *)
(* waits, and a paused one was paused.                                       *)
BlockInv ==
  /\ status = "PAUSED" => everPaused
  /\ status = "BLOCKED" =>
       \/ capped \/ everPaused \/ pc = "ended"
       \/ \E t \in live : Bad(t)
       \/ pc = "finish" /\ ~IsDone

-------------------------------------------------------------------------------

LEMMA LegalStates == DOMAIN Legal = {"RUNNING", "PAUSED", "BLOCKED", "COMPLETED"}
  BY DEF Legal

LEMMA CanRepair ==
  ASSUME status \in DOMAIN Legal
  PROVE  CanTransition("REPAIRING") <=> status \in {"RUNNING", "BLOCKED"}
  BY LegalStates DEF CanTransition, Legal

LEMMA CanVerify ==
  ASSUME status \in DOMAIN Legal
  PROVE  CanTransition("VERIFYING") <=> status = "RUNNING"
  BY LegalStates DEF CanTransition, Legal

(* The type invariant is inductive.                                          *)
LEMMA TypeInit == Init => TypeOK
<1> SUFFICES ASSUME Init PROVE TypeOK
  OBVIOUS
<1>1. cur \in live
  BY MissionAssumption DEF Init
<1>2. /\ state \in [Tasks -> TaskStates] /\ attempts \in [Tasks -> Nat]
      /\ count \in [Tasks -> Nat] /\ runs \in [Tasks -> Nat] /\ granted \in [Tasks -> Nat]
      /\ grade \in [Tasks -> {"none", "verified", "unmeasured", "simulated"}]
  BY DEF Init, TaskStates
<1>3. status \in DOMAIN Legal /\ pc \in Places /\ turn \in 0 .. MaxTurns
  BY LegalStates, MissionAssumption DEF Init, Places
<1> QED
  BY <1>1, <1>2, <1>3 DEF Init, TypeOK

LEMMA MarkType ==
  ASSUME TypeOK, NEW t, NEW s \in TaskStates, Mark(t, s)
  PROVE  /\ state' \in [Tasks -> TaskStates]
         /\ \A u \in Tasks : state'[u] = IF u = t THEN s ELSE state[u]
  BY DEF Mark, TypeOK

LEMMA CurIsTask == TypeOK => cur \in Tasks /\ live \subseteq Tasks
  BY DEF TypeOK, Tasks

LEMMA BumpType ==
  ASSUME NEW f \in [Tasks -> Nat], NEW t \in Tasks
  PROVE  /\ [f EXCEPT ![t] = @ + 1] \in [Tasks -> Nat]
         /\ \A u \in Tasks : [f EXCEPT ![t] = @ + 1][u] = IF u = t THEN f[u] + 1 ELSE f[u]
  OBVIOUS

LEMMA FailedType ==
  ASSUME TypeOK, Failed
  PROVE  /\ state' \in [Tasks -> TaskStates] /\ attempts' \in [Tasks -> Nat]
         /\ pc' \in {"wave", "advice", "repair"} /\ nested' \in BOOLEAN
         /\ cur' = cur /\ from' = from
<1>1. state' \in [Tasks -> TaskStates]
  BY MarkType DEF Failed, TaskStates
<1>2. attempts' \in [Tasks -> Nat]
  BY BumpType, CurIsTask DEF Failed, TypeOK
<1>3. pc' \in {"wave", "advice", "repair"} /\ nested' \in BOOLEAN /\ cur' = cur /\ from' = from
  BY DEF Failed, Return, place, TypeOK
<1> QED
  BY <1>1, <1>2, <1>3

LEMMA TypeStep == TypeOK /\ [Next]_vars => TypeOK'
<1> SUFFICES ASSUME TypeOK, [Next]_vars PROVE TypeOK'
  OBVIOUS
<1> USE DEF env, plan, place, table, ladder, result, history, TypeOK, Places
<1>1. CASE LoopHead
  BY <1>1, MissionAssumption DEF LoopHead
<1>2. CASE OverBudget
  BY <1>2, LegalStates DEF OverBudget
<1>3. CASE Detect
  <2>1. advice' \subseteq live /\ advised' \subseteq live
    BY <1>3 DEF Detect, Repeated
  <2>2. stall' \in {"none", "raised", "executed"}
    BY <1>3 DEF Detect, MayStall
  <2> QED
    BY <1>3, <2>1, <2>2 DEF Detect
<1>4. CASE \E t \in Tasks : SwitchHarness(t)
  BY <1>4 DEF SwitchHarness
<1>5. CASE PauseMission
  BY <1>5, LegalStates DEF PauseMission
<1>6. CASE OpenWave
  BY <1>6 DEF OpenWave, Wave
<1>7. CASE AllDone
  BY <1>7 DEF AllDone
<1>8. CASE Reorganize
  BY <1>8, LegalStates DEF Reorganize, Tasks
<1>9. CASE GiveUp
  BY <1>9, LegalStates DEF GiveUp
<1>10. CASE NextOfWave
  BY <1>10 DEF NextOfWave, Enter, Tasks
<1>11. CASE Denied
  BY <1>11 DEF Denied, Mark, Return, TaskStates
<1>12. CASE Invoke
  <2>1. state' \in [Tasks -> TaskStates] /\ runs' \in [Tasks -> Nat]
    BY <1>12, MarkType, BumpType, CurIsTask DEF Invoke, TaskStates
  <2> QED
    BY <1>12, <2>1 DEF Invoke
<1>13. CASE NoHarness
  BY <1>13, FailedType DEF NoHarness
<1>14. CASE \E what \in {"verified", "unmeasured", "simulated"} : Deliver(what)
  <2> PICK what \in {"verified", "unmeasured", "simulated"} : Deliver(what)
    BY <1>14
  <2>1. state' \in [Tasks -> TaskStates]
    BY MarkType DEF Deliver, TaskStates
  <2>2. pc' \in Places /\ nested' \in BOOLEAN /\ cur' = cur /\ from' = from
    BY DEF Deliver, Return
  <2>3. grade' \in [Tasks -> {"none", "verified", "unmeasured", "simulated"}] /\ doubt' \in BOOLEAN
    BY DEF Deliver
  <2> QED
    BY <2>1, <2>2, <2>3 DEF Deliver
<1>15. CASE WorkFails
  BY <1>15, FailedType DEF WorkFails
<1>16. CASE RepairExhausted
  <2>1. count' \in [Tasks -> Nat]
    BY <1>16, BumpType, CurIsTask DEF RepairExhausted
  <2> QED
    BY <1>16, <2>1, LegalStates DEF RepairExhausted, Return
<1>17. CASE RepairRung
  <2>1. state' \in [Tasks -> TaskStates] /\ count' \in [Tasks -> Nat]
    BY <1>17, MarkType, BumpType, CurIsTask DEF RepairRung, TaskStates
  <2> QED
    BY <1>17, <2>1, LegalStates DEF RepairRung, Enter
<1>18. CASE RepairThrows
  <2>1. count' \in [Tasks -> Nat]
    BY <1>18, BumpType, CurIsTask DEF RepairThrows
  <2> QED
    BY <1>18, <2>1 DEF RepairThrows
<1>19. CASE Finish
  BY <1>19, LegalStates DEF Finish
<1>20. CASE Approve
  <2>1. granted' \in [Tasks -> Nat]
    BY <1>20, BumpType, CurIsTask DEF Approve
  <2> QED
    BY <1>20, <2>1 DEF Approve
<1>21. CASE Pause
  BY <1>21, LegalStates DEF Pause
<1>22. CASE Resume
  <2>1. status' \in DOMAIN Legal
    BY <1>22, LegalStates DEF Resume
  <2>2. paused' \in BOOLEAN
    BY <1>22 DEF Resume
  <2>3. UNCHANGED <<policy, cancelled, pc, turn, plan, place, table, ladder, result,
                    history>>
    BY <1>22 DEF Resume
  <2> QED
    BY <2>1, <2>2, <2>3
<1>23. CASE Cancel
  BY <1>23 DEF Cancel
<1>24. CASE UNCHANGED vars
  BY <1>24 DEF vars
<1> QED
  BY <1>1, <1>2, <1>3, <1>4, <1>5, <1>6, <1>7, <1>8, <1>9, <1>10, <1>11, <1>12, <1>13,
     <1>14, <1>15, <1>16, <1>17, <1>18, <1>19, <1>20, <1>21, <1>22, <1>23, <1>24 DEF Next,
     Step, Person

THEOREM TypeCorrect == Spec => []TypeOK
  BY TypeInit, TypeStep, PTL DEF Spec

(* Where a task is in its turn: the rung it is on, the queue it is in.       *)
LEMMA TurnInit == Init => TurnInv
  BY MissionAssumption DEF Init, TurnInv, InHand, Busy, Bad

LEMMA TurnInvStep == TypeOK /\ TurnInv /\ [Next]_vars => TurnInv'
<1> SUFFICES ASSUME TypeOK, TurnInv, [Next]_vars PROVE TurnInv'
  OBVIOUS
<1> USE DEF env, plan, place, table, ladder, result, history, TurnInv, InHand, Busy, Bad
<1>t. cur \in Tasks /\ live \subseteq Tasks
  BY CurIsTask
<1>1. CASE LoopHead
  BY <1>1, <1>t DEF LoopHead, TypeOK, TaskStates
<1>2. CASE OverBudget
  BY <1>2, <1>t DEF OverBudget, Awake, TypeOK, TaskStates
<1>3. CASE Detect
  BY <1>3, <1>t DEF Detect, Awake, Repeated, TypeOK, TaskStates
<1>4. CASE \E t \in Tasks : SwitchHarness(t)
  <2>1. PICK t \in Tasks : SwitchHarness(t)
    BY <1>4
  <2>2. ~nested /\ queue = queue' /\ state' = state /\ advised' = advised
    BY <2>1 DEF SwitchHarness
  <2>3. CASE t \in exhausted
    BY <2>1, <2>2, <2>3 DEF SwitchHarness
  <2>4. CASE t \notin exhausted
    BY <2>1, <2>2, <2>4 DEF SwitchHarness
  <2> QED
    BY <2>3, <2>4
<1>5. CASE PauseMission
  BY <1>5, <1>t DEF PauseMission, TypeOK, TaskStates
<1>6. CASE OpenWave
  BY <1>6, <1>t DEF OpenWave, Advised, Wave, TypeOK, TaskStates
<1>7. CASE AllDone
  BY <1>7, <1>t DEF AllDone, Advised, TypeOK, TaskStates
<1>8. CASE Reorganize
  BY <1>8, <1>t DEF Reorganize, Stuck, Advised, HasUnrecoverable, TypeOK, TaskStates
<1>9. CASE GiveUp
  BY <1>9, <1>t DEF GiveUp, Stuck, Advised, TypeOK, TaskStates
<1>10. CASE NextOfWave
  BY <1>10, <1>t DEF NextOfWave, Enter, TypeOK, TaskStates
<1>11. CASE Denied
  <2>1. \A u \in Tasks : state'[u] = IF u = cur THEN "BLOCKED" ELSE state[u]
    BY <1>11, MarkType DEF Denied, TaskStates
  <2> QED
    BY <1>11, <1>t, <2>1 DEF Denied, Return, TypeOK
<1>12. CASE Invoke
  BY <1>12, <1>t, MarkType DEF Invoke, TypeOK, TaskStates
<1>13. CASE NoHarness
  <2>1. \A u \in Tasks : state'[u] = IF u = cur THEN "FAILED" ELSE state[u]
    BY <1>13, MarkType DEF NoHarness, Failed, TaskStates
  <2> QED
    BY <1>13, <1>t, <2>1 DEF NoHarness, Failed, Return, TypeOK
<1>14. CASE \E what \in {"verified", "unmeasured", "simulated"} : Deliver(what)
  <2>1. \A u \in Tasks : state'[u] = IF u = cur THEN "DONE" ELSE state[u]
    BY <1>14, MarkType DEF Deliver, TaskStates
  <2> QED
    BY <1>14, <1>t, <2>1 DEF Deliver, Return, TypeOK
<1>15. CASE WorkFails
  <2>1. \A u \in Tasks : state'[u] = IF u = cur THEN "FAILED" ELSE state[u]
    BY <1>15, MarkType DEF WorkFails, Failed, TaskStates
  <2> QED
    BY <1>15, <1>t, <2>1 DEF WorkFails, Failed, Return, TypeOK
<1>16. CASE RepairExhausted
  BY <1>16, <1>t DEF RepairExhausted, Return, TypeOK, TaskStates
<1>17. CASE RepairRung
  BY <1>17, <1>t, MarkType DEF RepairRung, Enter, TypeOK, TaskStates
<1>18. CASE RepairThrows
  BY <1>18, <1>t DEF RepairThrows, TypeOK, TaskStates
<1>19. CASE Finish
  BY <1>19, <1>t DEF Finish, CanTransition, Verified, TypeOK, TaskStates
<1>20. CASE Approve
  BY <1>20, <1>t DEF Approve, TypeOK, TaskStates
<1>21. CASE Pause
  BY <1>21, <1>t DEF Pause, Waiting, TypeOK, TaskStates
<1>22. CASE Resume
  BY <1>22, <1>t DEF Resume, Waiting, TypeOK, TaskStates
<1>23. CASE Cancel
  BY <1>23, <1>t DEF Cancel, Waiting, TypeOK, TaskStates
<1>24. CASE UNCHANGED vars
  BY <1>24, <1>t DEF vars, TypeOK, TaskStates
<1> QED
  BY <1>1, <1>2, <1>3, <1>4, <1>5, <1>6, <1>7, <1>8, <1>9, <1>10, <1>11, <1>12, <1>13,
     <1>14, <1>15, <1>16, <1>17, <1>18, <1>19, <1>20, <1>21, <1>22, <1>23, <1>24 DEF Next,
     Step, Person

(* COMPLETED is only set on an ended run.                                    *)
LEMMA EndInit == Init => EndInv
  BY DEF Init, EndInv

LEMMA EndInvStep == TypeOK /\ EndInv /\ [Next]_vars => EndInv'
<1> SUFFICES ASSUME TypeOK, EndInv, [Next]_vars PROVE EndInv'
  OBVIOUS
<1> USE DEF env, plan, place, table, ladder, result, history, EndInv
<1>t. cur \in Tasks /\ live \subseteq Tasks
  BY CurIsTask
<1>1. CASE LoopHead
  BY <1>1, <1>t DEF LoopHead
<1>2. CASE OverBudget
  BY <1>2, <1>t DEF OverBudget, Awake
<1>3. CASE Detect
  BY <1>3, <1>t DEF Detect, Awake
<1>4. CASE \E t \in Tasks : SwitchHarness(t)
  BY <1>4, <1>t DEF SwitchHarness
<1>5. CASE PauseMission
  BY <1>5, <1>t DEF PauseMission
<1>6. CASE OpenWave
  BY <1>6, <1>t DEF OpenWave, Advised
<1>7. CASE AllDone
  BY <1>7, <1>t DEF AllDone, Advised
<1>8. CASE Reorganize
  BY <1>8, <1>t DEF Reorganize, Stuck, Advised
<1>9. CASE GiveUp
  BY <1>9, <1>t DEF GiveUp, Stuck, Advised
<1>10. CASE NextOfWave
  BY <1>10, <1>t DEF NextOfWave, Enter
<1>11. CASE Denied
  BY <1>11, <1>t DEF Denied, Return
<1>12. CASE Invoke
  BY <1>12, <1>t DEF Invoke
<1>13. CASE NoHarness
  BY <1>13, <1>t DEF NoHarness, Failed, Return
<1>14. CASE \E what \in {"verified", "unmeasured", "simulated"} : Deliver(what)
  BY <1>14, <1>t DEF Deliver, Return
<1>15. CASE WorkFails
  BY <1>15, <1>t DEF WorkFails, Failed, Return
<1>16. CASE RepairExhausted
  BY <1>16, <1>t DEF RepairExhausted, Return
<1>17. CASE RepairRung
  BY <1>17, <1>t DEF RepairRung, Enter
<1>18. CASE RepairThrows
  BY <1>18, <1>t DEF RepairThrows
<1>19. CASE Finish
  BY <1>19, <1>t DEF Finish, IsDone, Over, Verified
<1>20. CASE Approve
  BY <1>20, <1>t DEF Approve
<1>21. CASE Pause
  BY <1>21, <1>t DEF Pause, Waiting, CanTransition
<1>22. CASE Resume
  BY <1>22, <1>t DEF Resume, Waiting
<1>23. CASE Cancel
  BY <1>23, <1>t DEF Cancel, Waiting
<1>24. CASE UNCHANGED vars
  BY <1>24, <1>t DEF vars, IsDone, Over
<1> QED
  BY <1>1, <1>2, <1>3, <1>4, <1>5, <1>6, <1>7, <1>8, <1>9, <1>10, <1>11, <1>12, <1>13,
     <1>14, <1>15, <1>16, <1>17, <1>18, <1>19, <1>20, <1>21, <1>22, <1>23, <1>24 DEF Next,
     Step, Person

(* Doubts about a delivery are kept.                                         *)
LEMMA DoubtInit == Init => DoubtInv
  BY DEF Init, DoubtInv

LEMMA DoubtInvStep == TypeOK /\ DoubtInv /\ [Next]_vars => DoubtInv'
<1> SUFFICES ASSUME TypeOK, DoubtInv, [Next]_vars PROVE DoubtInv'
  OBVIOUS
<1> USE DEF env, plan, place, table, ladder, result, history, DoubtInv
<1>t. cur \in Tasks /\ live \subseteq Tasks
  BY CurIsTask
<1>1. CASE LoopHead
  BY <1>1, <1>t DEF LoopHead
<1>2. CASE OverBudget
  BY <1>2, <1>t DEF OverBudget, Awake
<1>3. CASE Detect
  BY <1>3, <1>t DEF Detect, Awake
<1>4. CASE \E t \in Tasks : SwitchHarness(t)
  BY <1>4, <1>t DEF SwitchHarness
<1>5. CASE PauseMission
  BY <1>5, <1>t DEF PauseMission
<1>6. CASE OpenWave
  BY <1>6, <1>t DEF OpenWave, Advised
<1>7. CASE AllDone
  BY <1>7, <1>t DEF AllDone, Advised
<1>8. CASE Reorganize
  BY <1>8, <1>t DEF Reorganize, Stuck, Advised
<1>9. CASE GiveUp
  BY <1>9, <1>t DEF GiveUp, Stuck, Advised
<1>10. CASE NextOfWave
  BY <1>10, <1>t DEF NextOfWave, Enter
<1>11. CASE Denied
  <2>1. \A u \in Tasks : state'[u] = IF u = cur THEN "BLOCKED" ELSE state[u]
    BY <1>11, MarkType DEF Denied, TaskStates
  <2> QED
    BY <1>11, <1>t, <2>1 DEF Denied, Return
<1>12. CASE Invoke
  <2>1. \A u \in Tasks : state'[u] = IF u = cur THEN "RUNNING" ELSE state[u]
    BY <1>12, MarkType DEF Invoke, TaskStates
  <2> QED
    BY <1>12, <1>t, <2>1 DEF Invoke, Return
<1>13. CASE NoHarness
  <2>1. \A u \in Tasks : state'[u] = IF u = cur THEN "FAILED" ELSE state[u]
    BY <1>13, MarkType DEF NoHarness, Failed, TaskStates
  <2> QED
    BY <1>13, <1>t, <2>1 DEF NoHarness, Failed, Return
<1>14. CASE \E what \in {"verified", "unmeasured", "simulated"} : Deliver(what)
  <2>1. PICK what \in {"verified", "unmeasured", "simulated"} : Deliver(what)
    BY <1>14
  <2>2. \A u \in Tasks : state'[u] = IF u = cur THEN "DONE" ELSE state[u]
    BY <2>1, MarkType DEF Deliver, TaskStates
  <2>3. \A u \in Tasks : grade'[u] = IF u = cur THEN what ELSE grade[u]
    BY <2>1 DEF Deliver, TypeOK
  <2> QED
    BY <2>1, <2>2, <2>3 DEF Deliver
<1>15. CASE WorkFails
  <2>1. \A u \in Tasks : state'[u] = IF u = cur THEN "FAILED" ELSE state[u]
    BY <1>15, MarkType DEF WorkFails, Failed, TaskStates
  <2> QED
    BY <1>15, <1>t, <2>1 DEF WorkFails, Failed, Return
<1>16. CASE RepairExhausted
  BY <1>16, <1>t DEF RepairExhausted, Return
<1>17. CASE RepairRung
  <2>1. \A u \in Tasks : state'[u] = IF u = cur THEN "PENDING" ELSE state[u]
    BY <1>17, MarkType DEF RepairRung, TaskStates
  <2> QED
    BY <1>17, <1>t, <2>1 DEF RepairRung, Return
<1>18. CASE RepairThrows
  BY <1>18, <1>t DEF RepairThrows
<1>19. CASE Finish
  BY <1>19, <1>t DEF Finish
<1>20. CASE Approve
  BY <1>20, <1>t DEF Approve
<1>21. CASE Pause
  BY <1>21, <1>t DEF Pause, Waiting
<1>22. CASE Resume
  BY <1>22, <1>t DEF Resume, Waiting
<1>23. CASE Cancel
  BY <1>23, <1>t DEF Cancel, Waiting
<1>24. CASE UNCHANGED vars
  BY <1>24, <1>t DEF vars
<1> QED
  BY <1>1, <1>2, <1>3, <1>4, <1>5, <1>6, <1>7, <1>8, <1>9, <1>10, <1>11, <1>12, <1>13,
     <1>14, <1>15, <1>16, <1>17, <1>18, <1>19, <1>20, <1>21, <1>22, <1>23, <1>24 DEF Next,
     Step, Person

(* Approvals are spent one by one.                                           *)
LEMMA GateInit == Init => GateInv
  BY MissionAssumption DEF Init, GateInv, EachRunApproved, Tasks

LEMMA GateInvStep == TypeOK /\ GateInv /\ [Next]_vars => GateInv'
<1> SUFFICES ASSUME TypeOK, GateInv, [Next]_vars PROVE GateInv'
  OBVIOUS
<1> USE DEF env, plan, place, table, ladder, result, history, GateInv, EachRunApproved
<1>t. cur \in Tasks /\ live \subseteq Tasks
  BY CurIsTask
<1>f. from \in {"wave", "advice"}
  BY DEF TypeOK
<1>1. CASE LoopHead
  BY <1>1, <1>t DEF LoopHead
<1>2. CASE OverBudget
  BY <1>2, <1>t DEF OverBudget, Awake
<1>3. CASE Detect
  BY <1>3, <1>t DEF Detect, Awake
<1>4. CASE \E t \in Tasks : SwitchHarness(t)
  BY <1>4, <1>t DEF SwitchHarness
<1>5. CASE PauseMission
  BY <1>5, <1>t DEF PauseMission
<1>6. CASE OpenWave
  BY <1>6, <1>t DEF OpenWave, Advised
<1>7. CASE AllDone
  BY <1>7, <1>t DEF AllDone, Advised
<1>8. CASE Reorganize
  BY <1>8, <1>t DEF Reorganize, Stuck, Advised
<1>9. CASE GiveUp
  BY <1>9, <1>t DEF GiveUp, Stuck, Advised
<1>10. CASE NextOfWave
  BY <1>10, <1>t DEF NextOfWave, Enter, AskFirst, Enter
<1>11. CASE Denied
  BY <1>11, <1>f DEF Denied, Return
<1>12. CASE Invoke
  <2>1. \A u \in Tasks : runs'[u] = IF u = cur THEN runs[u] + 1 ELSE runs[u]
    BY <1>12, <1>t, BumpType DEF Invoke, TypeOK
  <2> QED
    BY <1>12, <1>t, <2>1, MissionAssumption DEF Invoke, TypeOK, Tasks
<1>13. CASE NoHarness
  BY <1>13, <1>f DEF NoHarness, Failed, Return
<1>14. CASE \E what \in {"verified", "unmeasured", "simulated"} : Deliver(what)
  BY <1>14, <1>f DEF Deliver, Return
<1>15. CASE WorkFails
  BY <1>15, <1>f DEF WorkFails, Failed, Return
<1>16. CASE RepairExhausted
  BY <1>16, <1>f DEF RepairExhausted, Return
<1>17. CASE RepairRung
  BY <1>17, <1>t DEF RepairRung, Enter, AskFirst, Enter
<1>18. CASE RepairThrows
  BY <1>18, <1>t DEF RepairThrows
<1>19. CASE Finish
  BY <1>19, <1>t DEF Finish
<1>20. CASE Approve
  <2>1. \A u \in Tasks : granted'[u] = IF u = cur THEN granted[u] + 1 ELSE granted[u]
    BY <1>20, <1>t, BumpType DEF Approve, TypeOK
  <2> QED
    BY <1>20, <1>t, <2>1, MissionAssumption DEF Approve, TypeOK, Tasks
<1>21. CASE Pause
  BY <1>21, <1>t DEF Pause, Waiting
<1>22. CASE Resume
  BY <1>22, <1>t DEF Resume, Waiting
<1>23. CASE Cancel
  BY <1>23, <1>t DEF Cancel, Waiting
<1>24. CASE UNCHANGED vars
  BY <1>24, <1>t DEF vars
<1> QED
  BY <1>1, <1>2, <1>3, <1>4, <1>5, <1>6, <1>7, <1>8, <1>9, <1>10, <1>11, <1>12, <1>13,
     <1>14, <1>15, <1>16, <1>17, <1>18, <1>19, <1>20, <1>21, <1>22, <1>23, <1>24 DEF Next,
     Step, Person

(* Why a mission is blocked or paused.                                       *)
LEMMA BlockInit == Init => BlockInv
  BY DEF Init, BlockInv

LEMMA BlockInvStep == TypeOK /\ TurnInv /\ BlockInv /\ [Next]_vars => BlockInv'
<1> SUFFICES ASSUME TypeOK, TurnInv, BlockInv, [Next]_vars PROVE BlockInv'
  OBVIOUS
<1> USE DEF env, plan, place, table, ladder, result, history, BlockInv, Bad
<1>t. cur \in Tasks /\ live \subseteq Tasks
  BY CurIsTask
<1>1. CASE LoopHead
  BY <1>1, <1>t DEF LoopHead
<1>2. CASE OverBudget
  BY <1>2, <1>t DEF OverBudget, Awake
<1>3. CASE Detect
  BY <1>3, <1>t DEF Detect, Awake
<1>4. CASE \E t \in Tasks : SwitchHarness(t)
  BY <1>4, <1>t DEF SwitchHarness
<1>5. CASE PauseMission
  BY <1>5, <1>t DEF PauseMission
<1>6. CASE OpenWave
  BY <1>6, <1>t DEF OpenWave, Advised
<1>7. CASE AllDone
  BY <1>7, <1>t DEF AllDone, Advised
<1>8. CASE Reorganize
  BY <1>8, <1>t DEF Reorganize, Stuck, Advised, HasUnrecoverable
<1>9. CASE GiveUp
  BY <1>9, <1>t DEF GiveUp, Stuck, Advised, HasUnrecoverable, IsDone, Over, TypeOK, TaskStates
<1>10. CASE NextOfWave
  BY <1>10, <1>t DEF NextOfWave, Enter
<1>11. CASE Denied
  <2>1. \A u \in Tasks : state'[u] = IF u = cur THEN "BLOCKED" ELSE state[u]
    BY <1>11, MarkType DEF Denied, TaskStates
  <2> QED
    BY <1>11, <1>t, <2>1 DEF Denied, Return, TurnInv, InHand, TypeOK
<1>12. CASE Invoke
  <2>1. \A u \in Tasks : state'[u] = IF u = cur THEN "RUNNING" ELSE state[u]
    BY <1>12, MarkType DEF Invoke, TaskStates
  <2> QED
    BY <1>12, <1>t, <2>1 DEF Invoke, Return, TurnInv, InHand, TypeOK
<1>13. CASE NoHarness
  <2>1. \A u \in Tasks : state'[u] = IF u = cur THEN "FAILED" ELSE state[u]
    BY <1>13, MarkType DEF NoHarness, Failed, TaskStates
  <2> QED
    BY <1>13, <1>t, <2>1 DEF NoHarness, Failed, Return, TurnInv, InHand, TypeOK
<1>14. CASE \E what \in {"verified", "unmeasured", "simulated"} : Deliver(what)
  <2>1. \A u \in Tasks : state'[u] = IF u = cur THEN "DONE" ELSE state[u]
    BY <1>14, MarkType DEF Deliver, TaskStates
  <2> QED
    BY <1>14, <1>t, <2>1 DEF Deliver, TurnInv, InHand
<1>15. CASE WorkFails
  <2>1. \A u \in Tasks : state'[u] = IF u = cur THEN "FAILED" ELSE state[u]
    BY <1>15, MarkType DEF WorkFails, Failed, TaskStates
  <2> QED
    BY <1>15, <1>t, <2>1 DEF WorkFails, Failed, Return, TurnInv, InHand, TypeOK
<1>16. CASE RepairExhausted
  BY <1>16 DEF RepairExhausted, TurnInv, TypeOK
<1>17. CASE RepairRung
  BY <1>17 DEF RepairRung
<1>18. CASE RepairThrows
  BY <1>18, <1>t DEF RepairThrows
<1>19. CASE Finish
  BY <1>19, <1>t DEF Finish
<1>20. CASE Approve
  BY <1>20, <1>t DEF Approve
<1>21. CASE Pause
  BY <1>21, <1>t DEF Pause, Waiting
<1>22. CASE Resume
  BY <1>22, <1>t DEF Resume, Waiting
<1>23. CASE Cancel
  BY <1>23, <1>t DEF Cancel, Waiting
<1>24. CASE UNCHANGED vars
  BY <1>24, <1>t DEF vars, IsDone, Over
<1> QED
  BY <1>1, <1>2, <1>3, <1>4, <1>5, <1>6, <1>7, <1>8, <1>9, <1>10, <1>11, <1>12, <1>13,
     <1>14, <1>15, <1>16, <1>17, <1>18, <1>19, <1>20, <1>21, <1>22, <1>23, <1>24 DEF Next,
     Step, Person

(* A completed task table can be verified unless somebody stopped the run.   *)
LEMMA RejectStep ==
  TypeOK /\ EndInv /\ BlockInv /\ RejectsOnlyIfStopped /\ [Next]_vars => RejectsOnlyIfStopped'
<1> SUFFICES ASSUME TypeOK, EndInv, BlockInv, RejectsOnlyIfStopped, [Next]_vars
             PROVE  RejectsOnlyIfStopped'
  OBVIOUS
<1> USE DEF env, plan, place, table, ladder, result, history, RejectsOnlyIfStopped
<1>f. from \in {"wave", "advice"} /\ status \in DOMAIN Legal
  BY DEF TypeOK
<1>1. CASE RepairThrows
  <2>1. status = "PAUSED"
    BY <1>1, <1>f, CanRepair, LegalStates DEF RepairThrows, EndInv
  <2> QED
    BY <1>1, <2>1 DEF RepairThrows, BlockInv
<1>2. CASE Finish
  <2>1. CASE pc' = "threw"
    <3>1. IsDone /\ status \in {"PAUSED", "BLOCKED"}
      BY <1>2, <1>f, <2>1, CanVerify, LegalStates DEF Finish, EndInv
    <3>2. ~ \E t \in live : Bad(t)
      BY <3>1 DEF IsDone, Over, Bad
    <3> QED
      BY <1>2, <3>1, <3>2 DEF Finish, BlockInv
  <2> QED
    BY <2>1
<1>3. CASE LoopHead
  BY <1>3, <1>f DEF LoopHead
<1>4. CASE OverBudget
  BY <1>4, <1>f DEF OverBudget, Awake
<1>5. CASE Detect
  BY <1>5, <1>f DEF Detect, Awake
<1>6. CASE \E t \in Tasks : SwitchHarness(t)
  BY <1>6, <1>f DEF SwitchHarness
<1>7. CASE PauseMission
  BY <1>7, <1>f DEF PauseMission
<1>8. CASE OpenWave
  BY <1>8, <1>f DEF OpenWave, Advised
<1>9. CASE AllDone
  BY <1>9, <1>f DEF AllDone, Advised
<1>10. CASE Reorganize
  BY <1>10, <1>f DEF Reorganize, Stuck, Advised
<1>11. CASE GiveUp
  BY <1>11, <1>f DEF GiveUp, Stuck, Advised
<1>12. CASE NextOfWave
  BY <1>12, <1>f DEF NextOfWave, Enter
<1>13. CASE Denied
  BY <1>13, <1>f DEF Denied, Return
<1>14. CASE Invoke
  BY <1>14, <1>f DEF Invoke
<1>15. CASE NoHarness
  BY <1>15, <1>f DEF NoHarness, Failed, Return
<1>16. CASE \E what \in {"verified", "unmeasured", "simulated"} : Deliver(what)
  BY <1>16, <1>f DEF Deliver, Return
<1>17. CASE WorkFails
  BY <1>17, <1>f DEF WorkFails, Failed, Return
<1>18. CASE RepairExhausted
  BY <1>18, <1>f DEF RepairExhausted, Return
<1>19. CASE RepairRung
  BY <1>19, <1>f DEF RepairRung, Enter
<1>20. CASE Approve
  BY <1>20, <1>f DEF Approve
<1>21. CASE Pause
  BY <1>21, <1>f DEF Pause, Waiting
<1>22. CASE Resume
  BY <1>22, <1>f DEF Resume, Waiting
<1>23. CASE Cancel
  BY <1>23, <1>f DEF Cancel, Waiting
<1>24. CASE UNCHANGED vars
  BY <1>24, <1>f DEF vars
<1> QED
  BY <1>1, <1>2, <1>3, <1>4, <1>5, <1>6, <1>7, <1>8, <1>9, <1>10, <1>11, <1>12, <1>13,
     <1>14, <1>15, <1>16, <1>17, <1>18, <1>19, <1>20, <1>21, <1>22, <1>23, <1>24 DEF Next,
     Step, Person

(* How far a task has climbed, at rest and in hand.                          *)
LEMMA RungInit == Init => RungInv
<1> SUFFICES ASSUME Init PROVE RungInv
  OBVIOUS
<1>1. ~Busy
  BY DEF Init, Busy, InHand
<1>2. \A t \in Tasks : RestInv(t)
  BY DEF Init, RestInv, Fresh
<1> QED
  BY <1>1, <1>2 DEF RungInv

LEMMA RungInvStep == TypeOK /\ TurnInv /\ RungInv /\ [Next]_vars => RungInv'
<1> SUFFICES ASSUME TypeOK, TurnInv, RungInv, [Next]_vars PROVE RungInv'
  OBVIOUS
<1> USE DEF env, plan, place, table, ladder, result, history, RungInv, TurnInv, Busy,
            InHand, Bad, Fresh, RestInv, HandInv
<1>t. cur \in Tasks /\ live \subseteq Tasks
  BY CurIsTask
<1>n. \A u \in Tasks : count[u] \in Nat /\ runs[u] \in Nat
  BY DEF TypeOK
<1>f. from \in {"wave", "advice"}
  BY DEF TypeOK
<1>1. CASE LoopHead
  BY <1>1, <1>t DEF LoopHead
<1>2. CASE OverBudget
  BY <1>2, <1>t DEF OverBudget, Awake
<1>3. CASE Detect
  BY <1>3, <1>t DEF Detect, Awake, Repeated
<1>4. CASE \E t \in Tasks : SwitchHarness(t)
  <2>1. PICK t \in Tasks : SwitchHarness(t)
    BY <1>4
  <2>2. ~Busy /\ t \in advised /\ (t \in exhausted => ~Busy')
    BY <2>1 DEF SwitchHarness
  <2>3. \A u \in Tasks : RestInv(u)
    BY <2>2
  <2>4. \A u \in Tasks : RestInv(u)'
    BY <2>1, <2>3 DEF SwitchHarness
  <2>5. t \notin exhausted => HandInv(t)' /\ cur' = t
    BY <2>1, <2>2, <2>3 DEF SwitchHarness
  <2> QED
    BY <2>2, <2>4, <2>5
<1>5. CASE PauseMission
  BY <1>5, <1>t DEF PauseMission
<1>6. CASE OpenWave
  BY <1>6, <1>t DEF OpenWave, Advised, Wave
<1>7. CASE AllDone
  BY <1>7, <1>t DEF AllDone, Advised
<1>8. CASE Reorganize
  BY <1>8, <1>t DEF Reorganize, Stuck, Advised
<1>9. CASE GiveUp
  BY <1>9, <1>t DEF GiveUp, Stuck, Advised
<1>10. CASE NextOfWave
  <2>1. \A u \in Tasks : RestInv(u)
    BY <1>10 DEF NextOfWave
  <2>2. \A u \in Tasks : RestInv(u)'
    BY <1>10, <2>1 DEF NextOfWave
  <2>3. CASE queue = {} \/ cancelled
    BY <1>10, <2>2, <2>3 DEF NextOfWave
  <2>4. CASE ~(queue = {} \/ cancelled)
    <3>1. PICK t \in queue : from' = "wave" /\ Enter(t)
      BY <1>10, <2>4 DEF NextOfWave
    <3>2. t \in Tasks /\ Fresh(t) /\ cur' = t /\ ~nested' /\ pc' \in {"gate", "dispatch"}
      BY <1>10, <1>t, <2>1, <2>4, <3>1 DEF NextOfWave, Enter, TypeOK
    <3>3. HandInv(t)'
      BY <1>10, <2>4, <3>1, <3>2 DEF NextOfWave
    <3> QED
      BY <2>2, <3>2, <3>3
  <2> QED
    BY <2>3, <2>4
<1>11. CASE Denied
  <2>1. \A u \in Tasks : state'[u] = IF u = cur THEN "BLOCKED" ELSE state[u]
    BY <1>11, MarkType DEF Denied, TaskStates
  <2>2. ASSUME NEW u \in Tasks, u # cur PROVE RestInv(u)'
    BY <1>11, <1>n, <2>2, <2>1 DEF Denied, Return
  <2>3. (IF Busy THEN HandInv(cur) ELSE RestInv(cur))'
    BY <1>11, <1>t, <1>n, <1>f, <2>1 DEF Denied, Return
  <2> QED
    BY <1>11, <1>t, <2>2, <2>3 DEF Denied, Return
<1>12. CASE Invoke
  <2>1. \A u \in Tasks : state'[u] = IF u = cur THEN "RUNNING" ELSE state[u]
    BY <1>12, MarkType DEF Invoke, TaskStates
  <2>2. \A u \in Tasks : runs'[u] = IF u = cur THEN runs[u] + 1 ELSE runs[u]
    BY <1>12, <1>t, BumpType DEF Invoke, TypeOK
  <2>3. ASSUME NEW u \in Tasks, u # cur PROVE RestInv(u)'
    BY <1>12, <1>n, <2>3, <2>1, <2>2 DEF Invoke
  <2>4. (IF Busy THEN HandInv(cur) ELSE RestInv(cur))'
    BY <1>12, <1>t, <1>n, <1>f, <2>1, <2>2 DEF Invoke
  <2> QED
    BY <1>12, <1>t, <2>3, <2>4 DEF Invoke
<1>13. CASE NoHarness
  <2>1. \A u \in Tasks : state'[u] = IF u = cur THEN "FAILED" ELSE state[u]
    BY <1>13, MarkType DEF NoHarness, Failed, TaskStates
  <2>2. ASSUME NEW u \in Tasks, u # cur PROVE RestInv(u)'
    BY <1>13, <1>n, <2>2, <2>1 DEF NoHarness, Failed, Return
  <2>3. (IF Busy THEN HandInv(cur) ELSE RestInv(cur))'
    BY <1>13, <1>t, <1>n, <1>f, <2>1 DEF NoHarness, Failed, Return
  <2> QED
    BY <1>13, <1>t, <2>2, <2>3 DEF NoHarness, Failed, Return
<1>14. CASE \E what \in {"verified", "unmeasured", "simulated"} : Deliver(what)
  <2>1. \A u \in Tasks : state'[u] = IF u = cur THEN "DONE" ELSE state[u]
    BY <1>14, MarkType DEF Deliver, TaskStates
  <2>2. ASSUME NEW u \in Tasks, u # cur PROVE RestInv(u)'
    BY <1>14, <1>n, <2>2, <2>1 DEF Deliver, Return
  <2>3. (IF Busy THEN HandInv(cur) ELSE RestInv(cur))'
    BY <1>14, <1>t, <1>n, <1>f, <2>1 DEF Deliver, Return
  <2> QED
    BY <1>14, <1>t, <2>2, <2>3 DEF Deliver, Return
<1>15. CASE WorkFails
  <2>1. \A u \in Tasks : state'[u] = IF u = cur THEN "FAILED" ELSE state[u]
    BY <1>15, MarkType DEF WorkFails, Failed, TaskStates
  <2>2. ASSUME NEW u \in Tasks, u # cur PROVE RestInv(u)'
    BY <1>15, <1>n, <2>2, <2>1 DEF WorkFails, Failed, Return
  <2>3. (IF Busy THEN HandInv(cur) ELSE RestInv(cur))'
    BY <1>15, <1>t, <1>n, <1>f, <2>1 DEF WorkFails, Failed, Return
  <2> QED
    BY <1>15, <1>t, <2>2, <2>3 DEF WorkFails, Failed, Return
<1>16. CASE RepairExhausted
  <2>1. \A u \in Tasks : count'[u] = IF u = cur THEN count[u] + 1 ELSE count[u]
    BY <1>16, <1>t, BumpType DEF RepairExhausted, TypeOK
  <2>2. ASSUME NEW u \in Tasks, u # cur PROVE RestInv(u)'
    BY <1>16, <1>n, <2>2, <2>1 DEF RepairExhausted, Return
  <2>3. (IF Busy THEN HandInv(cur) ELSE RestInv(cur))'
    BY <1>16, <1>t, <1>n, <1>f, <2>1 DEF RepairExhausted, Return
  <2> QED
    BY <1>16, <1>t, <2>2, <2>3 DEF RepairExhausted, Return
<1>17. CASE RepairRung
  <2>1. \A u \in Tasks : state'[u] = IF u = cur THEN "PENDING" ELSE state[u]
    BY <1>17, MarkType DEF RepairRung, TaskStates
  <2>2. \A u \in Tasks : count'[u] = IF u = cur THEN count[u] + 1 ELSE count[u]
    BY <1>17, <1>t, BumpType DEF RepairRung, TypeOK
  <2>3. ASSUME NEW u \in Tasks, u # cur PROVE RestInv(u)'
    BY <1>17, <1>n, <2>3, <2>1, <2>2 DEF RepairRung, Enter
  <2>4. (IF Busy THEN HandInv(cur) ELSE RestInv(cur))'
    BY <1>17, <1>t, <1>n, <1>f, <2>1, <2>2 DEF RepairRung, Enter
  <2> QED
    BY <1>17, <1>t, <2>3, <2>4 DEF RepairRung, Enter
<1>18. CASE RepairThrows
  <2>1. \A u \in Tasks : count'[u] = IF u = cur THEN count[u] + 1 ELSE count[u]
    BY <1>18, <1>t, BumpType DEF RepairThrows, TypeOK
  <2>2. ASSUME NEW u \in Tasks, u # cur PROVE RestInv(u)'
    BY <1>18, <1>n, <2>2, <2>1 DEF RepairThrows
  <2>3. (IF Busy THEN HandInv(cur) ELSE RestInv(cur))'
    BY <1>18, <1>t, <1>n, <1>f, <2>1 DEF RepairThrows
  <2> QED
    BY <1>18, <1>t, <2>2, <2>3 DEF RepairThrows
<1>19. CASE Finish
  BY <1>19, <1>t DEF Finish
<1>20. CASE Approve
  BY <1>20, <1>t DEF Approve
<1>21. CASE Pause
  BY <1>21, <1>t DEF Pause, Waiting
<1>22. CASE Resume
  BY <1>22, <1>t DEF Resume, Waiting
<1>23. CASE Cancel
  BY <1>23, <1>t DEF Cancel, Waiting
<1>24. CASE UNCHANGED vars
  BY <1>24, <1>t DEF vars
<1> QED
  BY <1>1, <1>2, <1>3, <1>4, <1>5, <1>6, <1>7, <1>8, <1>9, <1>10, <1>11, <1>12, <1>13,
     <1>14, <1>15, <1>16, <1>17, <1>18, <1>19, <1>20, <1>21, <1>22, <1>23, <1>24 DEF Next,
     Step, Person
-------------------------------------------------------------------------------
(* The theorems.                                                             *)
LEMMA TurnAlways == Spec => []TurnInv
<1>1. TypeOK /\ TurnInv /\ [Next]_vars => TurnInv'
  BY TurnInvStep
<1> QED
  BY <1>1, TurnInit, TypeCorrect, PTL DEF Spec

(* "No fake success" (finish): a completed mission is one whose every task   *)
(* was delivered and verified.                                               *)
THEOREM Honest == Spec => []NoFakeSuccess
<1>1. TypeOK /\ EndInv /\ DoubtInv => NoFakeSuccess
  BY DEF TypeOK, EndInv, DoubtInv, NoFakeSuccess, IsDone, Over, Tasks
<1>2. Init => EndInv /\ DoubtInv
  BY EndInit, DoubtInit
<1>3. TypeOK /\ (EndInv /\ DoubtInv) /\ [Next]_vars => (EndInv /\ DoubtInv)'
  BY EndInvStep, DoubtInvStep
<1> QED
  BY <1>1, <1>2, <1>3, TypeCorrect, PTL DEF Spec

(* Each invocation of a harness for a gated task spends an approval given    *)
(* for it (requestApproval, waitFor): none is used twice.                    *)
THEOREM ApprovalsSpent == Spec => []EachRunApproved
<1>1. GateInv => EachRunApproved
  BY DEF GateInv
<1>2. TypeOK /\ GateInv /\ [Next]_vars => GateInv'
  BY GateInvStep
<1> QED
  BY <1>1, <1>2, GateInit, TypeCorrect, PTL DEF Spec

(* No task is run more than three times or climbs past the second rung of    *)
(* the ladder, whatever its retry budget (repair, recommend).                *)
THEOREM TwoRungsOnly == Spec => []TwoRungs
<1>1. TypeOK /\ RungInv => TwoRungs
  <2> SUFFICES ASSUME TypeOK, RungInv, NEW t \in Tasks PROVE runs[t] <= 3 /\ count[t] <= 2
    BY DEF TwoRungs
  <2>1. count[t] \in Nat /\ runs[t] \in Nat /\ from \in {"wave", "advice"}
    BY DEF TypeOK
  <2>2. CASE Busy /\ t = cur
    BY <2>1, <2>2 DEF RungInv, HandInv, Busy, InHand
  <2>3. CASE ~(Busy /\ t = cur)
    BY <2>3 DEF RungInv, RestInv
  <2> QED
    BY <2>2, <2>3
<1>2. TypeOK /\ TurnInv /\ RungInv /\ [Next]_vars => RungInv'
  BY RungInvStep
<1> QED
  BY <1>1, <1>2, RungInit, TypeCorrect, TurnAlways, PTL DEF Spec

(* run rejects only for a mission that was paused or passed a budget         *)
(* ceiling (transition, finish).                                             *)
THEOREM Rejections == Spec => []RejectsOnlyIfStopped
<1>1. Init => BlockInv /\ RejectsOnlyIfStopped
  BY BlockInit DEF Init, RejectsOnlyIfStopped
<1>2. TypeOK /\ EndInv /\ [Next]_vars => EndInv'
  BY EndInvStep
<1>3. TypeOK /\ TurnInv /\ BlockInv /\ [Next]_vars => BlockInv'
  BY BlockInvStep
<1>4. TypeOK /\ EndInv /\ BlockInv /\ RejectsOnlyIfStopped /\ [Next]_vars
        => RejectsOnlyIfStopped'
  BY RejectStep
<1> QED
  BY <1>1, <1>2, <1>3, <1>4, EndInit, TypeCorrect, TurnAlways, PTL DEF Spec

-------------------------------------------------------------------------------
(* A run gets nearer to its end with every step of its own.                  *)

(* What is ahead of a run in one turn of the loop: its phases, where a task  *)
(* in hand belongs to the phase that took it; in a phase, the tasks and      *)
(* recommendations not yet taken; for the task in hand, its stages, those of *)
(* a first attempt before those of its repair.                               *)
PhaseOf == [turn |-> 6, advice |-> 5, wave |-> 4, loop |-> 3, finish |-> 2, ended |-> 1, threw |-> 1]
Phase == PhaseOf[IF Busy THEN from ELSE pc]
Left == Cardinality(queue) + Cardinality(advice) + (IF stall = "raised" THEN 1 ELSE 0)
StageOf == [gate |-> 3, dispatch |-> 2, harness |-> 1]
Stage ==
  IF pc = "repair" THEN 4
  ELSE IF InHand THEN StageOf[pc] + (IF nested THEN 0 ELSE 4)
  ELSE 0

Measured ==
  /\ turn \in 0 .. MaxTurns /\ Phase \in 1 .. 6 /\ Stage \in 0 .. 7
  /\ Left \in 0 .. 2 * Cardinality(Tasks) + 1

(* A turn passes, or within it what is ahead becomes less.                   *)
Descends ==
  \/ turn' > turn
  \/ turn' = turn /\ Phase' < Phase
  \/ turn' = turn /\ Phase' = Phase /\ Left' < Left
  \/ turn' = turn /\ Phase' = Phase /\ Left' = Left /\ Stage' < Stage

Interrupts == (Pause \/ Resume \/ Cancel) /\ UNCHANGED <<turn, Phase, Left, Stage>>

LEMMA TasksFinite == IsFiniteSet(Tasks)
  BY MissionAssumption, FS_Union DEF Tasks

LEMMA PartsFinite ==
  ASSUME TypeOK
  PROVE  /\ IsFiniteSet(queue) /\ Cardinality(queue) \in 0 .. Cardinality(Tasks)
         /\ IsFiniteSet(advice) /\ Cardinality(advice) \in 0 .. Cardinality(Tasks)
         /\ Cardinality(Tasks) \in Nat
<1>1. queue \subseteq Tasks /\ advice \subseteq Tasks
  BY CurIsTask DEF TypeOK
<1>2. Cardinality(Tasks) \in Nat
  BY TasksFinite, FS_CardinalityType
<1>3. ASSUME NEW S, S \subseteq Tasks
      PROVE  IsFiniteSet(S) /\ Cardinality(S) \in 0 .. Cardinality(Tasks)
  <2>1. IsFiniteSet(S) /\ Cardinality(S) <= Cardinality(Tasks)
    BY <1>3, TasksFinite, FS_Subset
  <2> QED
    BY <1>2, <2>1, FS_CardinalityType
<1> QED
  BY <1>1, <1>2, <1>3

LEMMA MeasuredAlways == ASSUME TypeOK PROVE Measured
<1>1. Left \in 0 .. 2 * Cardinality(Tasks) + 1
  BY PartsFinite DEF Left
<1>2. Phase \in 1 .. 6 /\ Stage \in 0 .. 7
  BY DEF TypeOK, Places, Phase, PhaseOf, Stage, StageOf, Busy, InHand
<1> QED
  BY <1>1, <1>2 DEF TypeOK, Measured

LEMMA OneLess ==
  ASSUME NEW S, IsFiniteSet(S), NEW t \in S
  PROVE  Cardinality(S \ {t}) < Cardinality(S)
<1>1. Cardinality(S \ {t}) = Cardinality(S) - 1 /\ Cardinality(S) \in Nat
  BY FS_RemoveElement, FS_CardinalityType
<1> QED
  BY <1>1

(* A task that leaves the hand, or turns to its repair.                      *)
LEMMA ReturnDescends ==
  ASSUME TypeOK, TurnInv, Return, Busy, UNCHANGED <<turn, plan>>
  PROVE  Descends
<1> USE DEF plan
<1>1. Phase' = Phase /\ Left' = Left
  BY DEF Return, Phase, Left, Busy, InHand, TypeOK
<1>2. Stage' = 0 /\ Stage > 0
  BY DEF Return, Stage, StageOf, Busy, InHand, TypeOK
<1> QED
  BY <1>1, <1>2 DEF Descends

LEMMA FailedDescends ==
  ASSUME TypeOK, TurnInv, Failed, pc \in {"dispatch", "harness"}, UNCHANGED <<turn, plan>>
  PROVE  Descends
<1>1. CASE nested \/ cur \in exhausted
  BY <1>1, ReturnDescends DEF Failed, Busy, InHand
<1>2. CASE ~(nested \/ cur \in exhausted)
  <2>1. pc' = "repair" /\ UNCHANGED place
    BY <1>2 DEF Failed
  <2>2. Phase' = Phase /\ Left' = Left
    BY <2>1 DEF place, plan, Phase, Left, Busy, InHand
  <2>3. Stage' = 4 /\ Stage > 4
    BY <1>2, <2>1 DEF Stage, StageOf, InHand
  <2> QED
    BY <2>2, <2>3 DEF Descends
<1> QED
  BY <1>1, <1>2

LEMMA StepDescends ==
  ASSUME TypeOK, TurnInv, Step \/ Approve
  PROVE  Descends
<1> USE DEF place, plan
<1>t. turn \in Nat /\ from \in {"wave", "advice"} /\ nested \in BOOLEAN
  BY MissionAssumption DEF TypeOK
<1>c. IsFiniteSet(queue) /\ IsFiniteSet(advice) /\ Cardinality(queue) \in Nat /\ Cardinality(advice) \in Nat
  BY PartsFinite
<1>p. ASSUME turn' = turn, ~Busy, ~Busy', pc \in DOMAIN PhaseOf, pc' \in DOMAIN PhaseOf,
             PhaseOf[pc'] < PhaseOf[pc]
      PROVE  Descends
  BY <1>p DEF Phase, Descends
<1>1. CASE LoopHead
  BY <1>1, <1>t, <1>p DEF LoopHead, Busy, InHand, PhaseOf, Descends
<1>2. CASE OverBudget \/ Detect
  <2>1. pc = "turn" /\ pc' \in {"finish", "advice"} /\ turn' = turn
    BY <1>2 DEF OverBudget, Detect, Awake
  <2> QED
    BY <1>p, <2>1 DEF Busy, InHand, PhaseOf
<1>3. CASE \E t \in Tasks : SwitchHarness(t)
  <2> PICK t \in Tasks : SwitchHarness(t)
    BY <1>3
  <2>1. Phase = 5 /\ Phase' = 5
    BY DEF SwitchHarness, Phase, PhaseOf, Busy, InHand
  <2>2. Cardinality(advice') < Cardinality(advice) /\ Cardinality(advice') \in Nat
    <3>1. t \in advice /\ advice' = advice \ {t}
      BY DEF SwitchHarness
    <3> QED
      BY <1>c, <3>1, OneLess, FS_RemoveElement, FS_CardinalityType
  <2>3. Left' < Left
    BY <1>c, <2>2 DEF SwitchHarness, Left
  <2> QED
    BY <2>1, <2>3 DEF SwitchHarness, Descends
<1>4. CASE PauseMission
  <2>1. Phase' = Phase
    BY <1>4 DEF PauseMission, Phase, Busy, InHand
  <2>2. Left' < Left
    BY <1>4, <1>c DEF PauseMission, Left
  <2> QED
    BY <1>4, <2>1, <2>2 DEF PauseMission, Descends
<1>5. CASE OpenWave \/ AllDone \/ Reorganize \/ GiveUp
  BY <1>5, <1>p DEF OpenWave, AllDone, Reorganize, GiveUp, Stuck, Advised, Busy, InHand, PhaseOf
<1>6. CASE NextOfWave
  <2>1. CASE queue = {} \/ cancelled
    BY <1>6, <1>p, <2>1 DEF NextOfWave, Busy, InHand, PhaseOf
  <2>2. CASE ~(queue = {} \/ cancelled)
    <3>1. PICK t \in queue : queue' = queue \ {t} /\ from' = "wave" /\ Enter(t)
      BY <1>6, <2>2 DEF NextOfWave
    <3>2. Phase = 4 /\ Phase' = 4
      BY <1>6, <3>1 DEF NextOfWave, Enter, Phase, PhaseOf, Busy, InHand
    <3>3. Cardinality(queue') < Cardinality(queue) /\ Cardinality(queue') \in Nat
      BY <1>c, <3>1, OneLess, FS_RemoveElement, FS_CardinalityType
    <3>4. Left' < Left
      BY <1>6, <1>c, <3>3 DEF NextOfWave, Left
    <3> QED
      BY <1>6, <3>2, <3>4 DEF NextOfWave, Descends
  <2> QED
    BY <2>1, <2>2
<1>7. CASE Denied
  BY <1>7, ReturnDescends DEF Denied, Busy, InHand
<1>8. CASE Invoke \/ Approve
  <2>1. Phase' = Phase /\ Left' = Left
    BY <1>8 DEF Invoke, Approve, Phase, Left, Busy, InHand
  <2>2. Stage' < Stage
    BY <1>8, <1>t DEF Invoke, Approve, Stage, StageOf, InHand
  <2> QED
    BY <1>8, <2>1, <2>2 DEF Invoke, Approve, Descends
<1>9. CASE NoHarness \/ WorkFails
  BY <1>9, FailedDescends DEF NoHarness, WorkFails
<1>10. CASE \E what \in {"verified", "unmeasured", "simulated"} : Deliver(what)
  BY <1>10, ReturnDescends DEF Deliver, Busy, InHand
<1>11. CASE RepairExhausted
  BY <1>11, ReturnDescends DEF RepairExhausted, Busy
<1>12. CASE RepairRung
  <2>1. Phase' = Phase /\ Left' = Left
    BY <1>12 DEF RepairRung, Enter, Phase, Left, Busy, InHand
  <2>2. Stage = 4 /\ Stage' < 4
    BY <1>12 DEF RepairRung, Enter, Stage, StageOf, InHand
  <2> QED
    BY <1>12, <2>1, <2>2 DEF RepairRung, Descends
<1>13. CASE RepairThrows
  <2>1. Phase \in {4, 5} /\ Phase' = 1
    BY <1>13, <1>t DEF RepairThrows, Phase, PhaseOf, Busy, InHand
  <2> QED
    BY <1>13, <2>1 DEF RepairThrows, Descends
<1>14. CASE Finish
  BY <1>14, <1>p DEF Finish, Busy, InHand, PhaseOf
<1> QED
  BY <1>1, <1>2, <1>3, <1>4, <1>5, <1>6, <1>7, <1>8, <1>9, <1>10, <1>11, <1>12, <1>13, <1>14
  DEF Step

LEMMA InterruptsKeep ==
  ASSUME Pause \/ Resume \/ Cancel
  PROVE  Interrupts
<1>1. UNCHANGED <<pc, turn, queue, advice, stall, nested, from>>
  BY DEF Pause, Resume, Cancel, plan, place
<1>2. Phase' = Phase /\ Left' = Left /\ Stage' = Stage
  BY <1>1 DEF Phase, Left, Stage, Busy, InHand
<1> QED
  BY <1>1, <1>2 DEF Interrupts

(* The safety half of RunEnds, for every plan, policy and retry budget: what *)
(* is ahead of a run is bounded, every step of the run and every approval    *)
(* makes it less, and a pause, a resume or a cancel leaves it as it is.  So  *)
(* failing tasks, refused reorganizations and repairs cannot keep a run      *)
(* going: only people who interrupt it again and again can.                  *)
THEOREM RunsDescend == Spec => []Measured /\ [][Descends \/ Interrupts]_vars
<1>1. TypeOK => Measured
  BY MeasuredAlways
<1>2. TypeOK /\ TurnInv /\ [Next]_vars => [Descends \/ Interrupts]_vars
  BY StepDescends, InterruptsKeep DEF Next, Person
<1> QED
  BY <1>1, <1>2, TypeCorrect, TurnAlways, PTL DEF Spec
===============================================================================
