---------------------------- MODULE TeamRunProofs -----------------------------
(***************************************************************************)
(* Proofs about TeamRun: its types, what it spends, what its reviewers and *)
(* its merge gate have seen, and that it gets nearer its end, for every    *)
(* team, wave plan and price.                                              *)
(***************************************************************************)
EXTENDS TeamRun, FiniteSetTheorems, TLAPS

(* What an outcome record and a step record become, point by point.          *)
LEMMA RecordedFacts ==
  ASSUME outcome \in [Seats -> Outcomes], NEW who, NEW what \in Outcomes
  PROVE  /\ Recorded(who, what) \in [Seats -> Outcomes]
         /\ \A s \in Seats : Recorded(who, what)[s] = IF s \in who THEN what ELSE outcome[s]
  BY DEF Recorded

LEMMA BackFacts ==
  ASSUME TypeOK, NEW s \in Seats, NEW what \in Outcomes, Back(s, what)
  PROVE  /\ step' \in [Seats -> Steps] /\ outcome' \in [Seats -> Outcomes]
         /\ \A r \in Seats : step'[r] = IF r = s THEN "back" ELSE step[r]
         /\ \A r \in Seats : outcome'[r] = IF r = s THEN what ELSE outcome[r]
  BY DEF Back, TypeOK, Steps

(* A wave of a plan is a set of seats, so the crew and its readers are seats. *)
LEMMA WaveFacts ==
  ASSUME TypeOK
  PROVE  /\ shape \in Seq(SUBSET Seats) /\ Len(shape) \in Nat
         /\ \A i \in 1 .. Len(shape) : shape[i] \subseteq Seats
         /\ \A i, j \in 1 .. Len(shape) : i # j => shape[i] \cap shape[j] = {}
         /\ Crew(shape) \subseteq Seats /\ Deferred(shape) \subseteq Crew(shape)
         /\ Deferred(shape) \subseteq Seats \ Writers
<1>1. shape \in Seq(SUBSET Seats) /\ \A i, j \in 1 .. Len(shape) : i # j => shape[i] \cap shape[j] = {}
  BY RequestAssumption DEF TypeOK
<1>2. Len(shape) \in Nat /\ \A i \in 1 .. Len(shape) : shape[i] \subseteq Seats
  BY <1>1
<1>3. Crew(shape) \subseteq Seats
  BY <1>2 DEF Crew
<1> QED
  BY <1>1, <1>2, <1>3 DEF Deferred

LEMMA BlockedIsOutcome == \A s : Blocked(s) \in Outcomes \cup {"no"}
  BY DEF Blocked, Outcomes

(* The type invariant is inductive.                                          *)
LEMMA TypeInit == Init => TypeOK
<1> SUFFICES ASSUME Init PROVE TypeOK
  OBVIOUS
<1>1. Len(shape) \in Nat
  BY RequestAssumption DEF Init
<1>2. snap \in [built : BOOLEAN, sha : Nat, no : Nat, branches : SUBSET Seats]
  BY DEF Init, EmptySnapshot
<1>3. wave \in 1 .. Len(shape) + 1 /\ (pc \in {"admit", "running"} => wave <= Len(shape))
  BY <1>1 DEF Init
<1>4. /\ step \in [Seats -> Steps] /\ turn \in [Seats -> Nat]
      /\ outcome \in [Seats -> Outcomes] /\ charged \in [Seats -> Nat]
      /\ sha \in [Seats -> Nat] /\ seen \in [Seats -> SUBSET Seats]
  BY DEF Init, Steps, Outcomes
<1>5. /\ ran \subseteq Seats /\ unsettled \subseteq ran /\ runnable \subseteq Seats
      /\ notRun \subseteq Seats /\ setupFailed \subseteq Seats /\ trees \subseteq Seats
      /\ committed \subseteq Seats /\ commits \subseteq Seats
  BY DEF Init
<1>6. spent \in Nat /\ reserved \in Int /\ share \in Nat /\ overrun \in Nat /\ reported \in Nat
  BY DEF Init
<1>7. /\ shape \in Shapes /\ authority \in Authorities /\ waveFailed \in BOOLEAN
      /\ budgetStop \in BOOLEAN /\ merge \in BOOLEAN /\ status = "none"
      /\ pc = "preflight" /\ checkout = "base"
  BY DEF Init
<1> QED
  BY <1>2, <1>3, <1>4, <1>5, <1>6, <1>7 DEF TypeOK

LEMMA TypeStep == TypeOK /\ [Next]_vars => TypeOK'
<1> SUFFICES ASSUME TypeOK, [Next]_vars PROVE TypeOK'
  OBVIOUS
<1> USE DEF request, flow, setupVars, gitVars, seatVars, money, report
<1>w. /\ Len(shape) \in Nat /\ Crew(shape) \subseteq Seats /\ Deferred(shape) \subseteq Seats
      /\ \A i \in 1 .. Len(shape) : shape[i] \subseteq Seats
  BY WaveFacts
<1>1. CASE Refused
  BY <1>1 DEF Refused, Finish, TypeOK
<1>2. CASE Setup
  <2>1. runnable' \subseteq Seats /\ setupFailed' \subseteq Seats /\ notRun' \subseteq Seats
    BY <1>2, <1>w DEF Setup
  <2>2. pc' \in {"done", "wave"} /\ status' \in {"none", "aborted", "blocked", "partial", "completed"} /\ merge' \in BOOLEAN
    BY <1>2 DEF Setup, Finish, TypeOK
  <2> QED
    BY <1>2, <2>1, <2>2 DEF Setup, TypeOK
<1>3. CASE SkipWave
  <2>0. wave' \in 1 .. Len(shape)' + 1 /\ (pc' \in {"admit", "running"} => wave' <= Len(shape)')
    BY <1>3, <1>w DEF SkipWave, OpenWave, TypeOK
  <2>2. outcome' \in [Seats -> Outcomes]
    BY <1>3, RecordedFacts DEF SkipWave, TypeOK, Outcomes
  <2>3. notRun' \subseteq Seats
    BY <1>3, <1>w DEF SkipWave, OpenWave, TypeOK
  <2> QED
    BY <1>3, <1>w, <2>0, <2>2, <2>3 DEF SkipWave, TypeOK
<1>4. CASE BuildFails
  <2>0. wave' \in 1 .. Len(shape)' + 1 /\ (pc' \in {"admit", "running"} => wave' <= Len(shape)')
    BY <1>4, <1>w DEF BuildFails, OpenWave, TypeOK
  <2>1. outcome' \in [Seats -> Outcomes]
    BY <1>4, RecordedFacts DEF BuildFails, HoldReaders, TypeOK, Outcomes
  <2>2. snap' \in [built : BOOLEAN, sha : Nat, no : Nat, branches : SUBSET Seats]
    BY <1>4 DEF BuildFails, HoldReaders, TypeOK
  <2>3. setupFailed' \subseteq Seats /\ trees' \subseteq Seats /\ checkout' \in {"base", "snapshot", "conflict"}
    BY <1>4, <1>w DEF BuildFails, BackToBase, TypeOK
  <2>4. notRun' \subseteq Seats
    BY <1>4, <1>w DEF BuildFails, HoldReaders, TypeOK
  <2> QED
    BY <1>4, <2>0, <2>1, <2>2, <2>3, <2>4 DEF BuildFails, TypeOK
<1>5. CASE BuildSucceeds
  <2>0. wave' \in 1 .. Len(shape)' + 1 /\ (pc' \in {"admit", "running"} => wave' <= Len(shape)')
    BY <1>5, <1>w DEF BuildSucceeds, OpenWave, TypeOK
  <2>1. snap' \in [built : BOOLEAN, sha : Nat, no : Nat, branches : SUBSET Seats]
    BY <1>5 DEF BuildSucceeds, TypeOK
  <2>2. seen' \in [Seats -> SUBSET Seats]
    BY <1>5 DEF BuildSucceeds, TypeOK
  <2>3. trees' \subseteq Seats
    BY <1>5, <1>w DEF BuildSucceeds, TypeOK
  <2> QED
    BY <1>5, <2>0, <2>1, <2>2, <2>3 DEF BuildSucceeds, BackToBase, TypeOK
<1>6. CASE NoSnapshotNeeded
  <2>1. wave' \in 1 .. Len(shape)' + 1 /\ (pc' \in {"admit", "running"} => wave' <= Len(shape)')
    BY <1>6, <1>w DEF NoSnapshotNeeded, OpenWave, TypeOK
  <2> QED
    BY <1>6, <2>1 DEF NoSnapshotNeeded, TypeOK
<1>7. CASE Admit
  <2>1. Waiting \subseteq Seats /\ Cardinality(Waiting) \in Nat
    <3>1. Waiting \subseteq Seats
      BY <1>7, <1>w DEF Admit, Waiting, TypeOK
    <3> QED
      BY <3>1, RequestAssumption, FS_Subset, FS_CardinalityType
  <2>2. step' \in [Seats -> Steps] /\ sha' \in [Seats -> Nat]
    BY <1>7 DEF Admit, TypeOK, Steps
  <2>3. Waiting # {} => Cardinality(Waiting) > 0
    BY <2>1, RequestAssumption, FS_Subset, FS_EmptySet
  <2>4. Budgeted => authority \in Nat
    BY RequestAssumption DEF TypeOK, Budgeted
  <2>5. share' \in Nat /\ reserved' \in Int
    <3>1. CASE Budgeted /\ Waiting # {}
      <4>1. Remaining \in Nat
        BY <2>4, <3>1 DEF Remaining, TypeOK
      <4>2. share' = Remaining \div Cardinality(Waiting) /\ reserved' = reserved + Cardinality(Waiting) * share'
        BY <1>7, <3>1 DEF Admit, ShareOf
      <4>3. share' \in Nat
        BY <2>1, <2>3, <3>1, <4>1, <4>2
      <4> QED
        BY <2>1, <4>2, <4>3 DEF TypeOK
    <3>2. CASE ~(Budgeted /\ Waiting # {})
      BY <1>7, <3>2 DEF Admit, TypeOK
    <3> QED
      BY <3>1, <3>2
  <2> QED
    BY <1>7, <2>1, <2>2, <2>5 DEF Admit, TypeOK
<1>8. CASE \E s \in Seats : Settle(s)
  <2> PICK s \in Seats : Settle(s)
    BY <1>8
  <2>1. Over(s) \in Nat /\ charged[s] \in Nat
    BY DEF Over, TypeOK
  <2>2. reported' \in Nat /\ reserved' \in Int /\ overrun' \in Nat
    BY <2>1, SMTT(30) DEF Settle, TypeOK
  <2> QED
    BY <2>2, SMTT(30) DEF Settle, TypeOK
<1>9. CASE CloseWave
  <2>1. wave' \in 1 .. Len(shape) + 1
    BY <1>9, <1>w DEF CloseWave, AllBack, TypeOK
  <2> QED
    BY <1>9, <2>1 DEF CloseWave, TypeOK
<1>10. CASE FinishRun
  BY <1>10 DEF FinishRun, Finish, FinalStatus, TypeOK
<1>11. CASE \E s \in Seats : SeatStep(s)
  <2> PICK s \in Seats : SeatStep(s)
    BY <1>11
  <2>1. CASE StartTurn(s)
    <3>1. ASSUME NEW what \in Outcomes, Back(s, what), UNCHANGED turn PROVE TypeOK'
      <4>1. step' \in [Seats -> Steps] /\ outcome' \in [Seats -> Outcomes]
        BY <3>1, BackFacts
      <4> QED
        BY <2>1, <3>1, <4>1 DEF StartTurn, TypeOK
    <3>2. CASE step' = [step EXCEPT ![s] = "cli"] /\ turn' = [turn EXCEPT ![s] = @ + 1] /\ UNCHANGED outcome
      <4>1. step' \in [Seats -> Steps] /\ turn' \in [Seats -> Nat]
        BY <3>2 DEF TypeOK, Steps
      <4> QED
        BY <2>1, <3>2, <4>1 DEF StartTurn, TypeOK
    <3>3. "blocked_budget" \in Outcomes
      BY DEF Outcomes
    <3>4. Blocked(s) # "no" => Blocked(s) \in Outcomes
      BY BlockedIsOutcome
    <3> QED
      BY <2>1, <3>1, <3>2, <3>3, <3>4 DEF StartTurn
  <2>2. CASE CliTimeout(s)
    BY <2>2, BackFacts DEF CliTimeout, TypeOK, Outcomes
  <2>3. CASE ResumeFails(s)
    BY <2>3, BackFacts DEF ResumeFails, TypeOK, Outcomes
  <2>4. ASSUME NEW c \in Charges, NEW ok \in BOOLEAN, CliReturns(s, c, ok) PROVE TypeOK'
    <3>1. c \in Nat /\ spent' \in Nat /\ charged' \in [Seats -> Nat]
      BY <2>4, RequestAssumption, SMTT(30) DEF CliReturns, TypeOK
    <3>2. step' \in [Seats -> Steps] /\ outcome' \in [Seats -> Outcomes]
      BY <2>4, BackFacts DEF CliReturns, TypeOK, Steps, Outcomes
    <3> QED
      BY <2>4, <3>1, <3>2 DEF CliReturns, TypeOK
  <2>5. CASE Complete(s)
    <3>1. step' \in [Seats -> Steps] /\ outcome' \in [Seats -> Outcomes]
      BY <2>5, BackFacts DEF Complete, Outcomes
    <3> QED
      BY <2>5, <3>1, SMTT(30) DEF Complete, TypeOK
  <2> QED
    BY <2>1, <2>2, <2>3, <2>4, <2>5 DEF SeatStep, OwnStep
<1>12. CASE UNCHANGED vars
  BY <1>12 DEF vars, TypeOK
<1> QED
  BY <1>1, <1>2, <1>3, <1>4, <1>5, <1>6, <1>7, <1>8, <1>9, <1>10, <1>11, <1>12 DEF Next, Orchestrate

(* Every variable of a run keeps to its type, whatever the team and the      *)
(* answers of git and the CLIs.                                              *)
THEOREM TypeCorrect == Spec => []TypeOK
  BY TypeInit, TypeStep, PTL DEF Spec

-------------------------------------------------------------------------------
(* Where a run is, and where its seats are.                                  *)

(* Seats work only while their wave runs, and waves that fail admit no one.  *)
FlowOK ==
  /\ pc = "preflight" => wave = 1 /\ ~waveFailed
  /\ pc # "running" => ran = {} /\ unsettled = {}
  /\ pc \in {"admit", "running"} => ~waveFailed
  /\ pc = "running" => ran \subseteq shape[wave]
  /\ budgetStop => waveFailed
  /\ status # "none" => pc = "done"

(* A seat at work was admitted and has no record; one with a completed       *)
(* record has come back.                                                     *)
SeatOK ==
  \A s \in Seats :
    /\ step[s] \in {"start", "cli", "worked"} => s \in ran /\ outcome[s] = "none"
    /\ s \in ran => step[s] # "idle"
    /\ outcome[s] = "completed" => step[s] = "back"
    /\ step[s] \in {"cli", "worked"} => turn[s] > 0
    /\ step[s] = "idle" => turn[s] = 0

(* The seats of the waves to come are idle.                                  *)
AheadIdle ==
  \A j \in 1 .. Len(shape) : \A s \in shape[j] :
    j > wave \/ (j = wave /\ (pc # "running" \/ s \notin ran)) => step[s] = "idle"

(* What one step of a seat may change.                                       *)
Moved(s) ==
  /\ step[s] \in {"start", "cli", "worked"}
  /\ UNCHANGED <<request, flow, setupVars, notRun, gitVars, sha, seen, reserved, share, overrun,
                 reported, report>>
  /\ \A r \in Seats \ {s} :
       step'[r] = step[r] /\ outcome'[r] = outcome[r] /\ turn'[r] = turn[r]
  /\ commits \subseteq commits' /\ commits' \subseteq commits \cup ({s} \cap Writers)
  /\ \/ step'[s] = "back" /\ outcome'[s] \notin {"none", "completed"} /\ turn'[s] = turn[s]
     \/ /\ step[s] = "start" /\ step'[s] = "cli" /\ turn'[s] = turn[s] + 1
        /\ outcome'[s] = outcome[s] /\ (turn[s] > 0 \/ Blocked(s) = "no")
     \/ /\ step[s] = "cli" /\ step'[s] \in {"start", "worked"} /\ turn'[s] = turn[s]
        /\ outcome'[s] = outcome[s] /\ (step'[s] = "start" => turn[s] < Turns(s))
     \/ step[s] = "worked" /\ step'[s] = "back" /\ outcome'[s] = "completed" /\ turn'[s] = turn[s]

LEMMA SeatMoves ==
  ASSUME TypeOK, NEW s \in Seats, SeatStep(s)
  PROVE  Moved(s)
<1> USE DEF request, flow, setupVars, gitVars, seatVars, money, report
<1>b. ASSUME NEW what \in Outcomes, Back(s, what)
      PROVE  /\ \A r \in Seats \ {s} : step'[r] = step[r] /\ outcome'[r] = outcome[r]
             /\ step'[s] = "back" /\ outcome'[s] = what
  BY <1>b, BackFacts
<1>1. CASE StartTurn(s)
  <2>1. CASE /\ turn[s] = 0 /\ Blocked(s) # "no" /\ Back(s, Blocked(s)) /\ UNCHANGED turn
    <3>1. Blocked(s) \in Outcomes /\ Blocked(s) \notin {"none", "completed"}
      BY <2>1 DEF Blocked, Outcomes
    <3> QED
      BY <1>1, <2>1, <3>1, <1>b DEF StartTurn, Moved
  <2>2. CASE Back(s, "blocked_budget") /\ UNCHANGED turn
    <3>1. "blocked_budget" \in Outcomes
      BY DEF Outcomes
    <3> QED
      BY <1>1, <2>2, <3>1, <1>b DEF StartTurn, Moved
  <2>3. CASE /\ turn[s] > 0 \/ Blocked(s) = "no"
             /\ step' = [step EXCEPT ![s] = "cli"]
             /\ turn' = [turn EXCEPT ![s] = @ + 1] /\ UNCHANGED outcome
    BY <1>1, <2>3 DEF StartTurn, Moved, TypeOK
  <2> QED
    BY <1>1, <2>1, <2>2, <2>3 DEF StartTurn
<1>2. CASE CliTimeout(s)
  <2>1. "timeout" \in Outcomes
    BY DEF Outcomes
  <2> QED
    BY <1>2, <2>1, <1>b DEF CliTimeout, Moved
<1>3. CASE ResumeFails(s)
  <2>1. "resume_failed" \in Outcomes
    BY DEF Outcomes
  <2> QED
    BY <1>3, <2>1, <1>b DEF ResumeFails, Moved
<1>4. ASSUME NEW c \in Charges, NEW ok \in BOOLEAN, CliReturns(s, c, ok) PROVE Moved(s)
  <2>0. "failed" \in Outcomes
    BY DEF Outcomes
  <2>1. CASE Back(s, "failed")
    BY <1>4, <2>0, <2>1, <1>b DEF CliReturns, Moved
  <2>2. CASE /\ UNCHANGED outcome
             /\ step' = [step EXCEPT ![s] = IF turn[s] < Turns(s) THEN "start" ELSE "worked"]
    BY <1>4, <2>2 DEF CliReturns, Moved, TypeOK
  <2> QED
    BY <1>4, <2>1, <2>2 DEF CliReturns
<1>5. CASE Complete(s)
  <2>1. "completed" \in Outcomes
    BY DEF Outcomes
  <2> QED
    BY <1>5, <2>1, <1>b DEF Complete, Moved
<1> QED
  BY <1>1, <1>2, <1>3, <1>4, <1>5 DEF SeatStep, OwnStep

(* The wave, its admitted seats and their steps keep together.               *)
Where == FlowOK /\ SeatOK /\ AheadIdle

LEMMA WhereInit == Init => Where
  BY RequestAssumption DEF Init, Where, FlowOK, SeatOK, AheadIdle, Crew

LEMMA WhereSeat ==
  ASSUME TypeOK, Where, NEW s \in Seats, SeatStep(s)
  PROVE  Where'
<1> USE DEF request, flow
<1>1. Moved(s)
  BY SeatMoves
<1>2. s \in ran /\ pc = "running" /\ s \in shape[wave] /\ wave \in 1 .. Len(shape) /\ outcome[s] = "none"
  BY <1>1 DEF Moved, Where, SeatOK, FlowOK, TypeOK
<1>3. FlowOK'
  BY <1>1 DEF Moved, Where, FlowOK, report
<1>4. SeatOK'
  <2>1. ASSUME NEW r \in Seats, r # s
        PROVE  /\ step'[r] = step[r] /\ outcome'[r] = outcome[r] /\ turn'[r] = turn[r] /\ ran' = ran
    BY <1>1, <2>1 DEF Moved
  <2>2. turn[s] \in Nat /\ ran' = ran
    BY <1>1 DEF TypeOK, Moved
  <2>3. /\ step'[s] \in {"start", "cli", "worked"} => outcome'[s] = "none"
        /\ step'[s] # "idle" /\ outcome'[s] = "completed" => step'[s] = "back"
        /\ step'[s] \in {"cli", "worked"} => turn'[s] > 0
    BY <1>1, <1>2, <2>2 DEF Moved, Where, SeatOK
  <2> QED
    BY <1>2, <1>1, <2>1, <2>2, <2>3 DEF Where, SeatOK, Moved
<1>5. AheadIdle'
  <2> SUFFICES ASSUME NEW j \in 1 .. Len(shape), NEW r \in shape[j],
                      j > wave \/ (j = wave /\ (pc # "running" \/ r \notin ran))
               PROVE  step'[r] = "idle"
    BY <1>1 DEF AheadIdle, Moved
  <2>1. step[r] = "idle" /\ r \in Seats
    BY WaveFacts DEF Where, AheadIdle
  <2>2. r # s
    BY <1>2, WaveFacts
  <2> QED
    BY <1>1, <2>1, <2>2 DEF Moved
<1> QED
  BY <1>3, <1>4, <1>5 DEF Where

LEMMA WhereStep == TypeOK /\ Where /\ [Next]_vars => Where'
<1> SUFFICES ASSUME TypeOK, Where, [Next]_vars PROVE Where'
  OBVIOUS
<1> USE DEF request, flow, setupVars, gitVars, seatVars, money, report
<1>w. /\ Len(shape) \in Nat /\ \A i \in 1 .. Len(shape) : shape[i] \subseteq Seats
      /\ \A i, j \in 1 .. Len(shape) : i # j => shape[i] \cap shape[j] = {}
      /\ wave \in Nat
  BY WaveFacts, SMTT(30) DEF TypeOK
<1>a. \A s \in Seats : pc # "running" => step[s] \in {"idle", "back"}
  BY DEF Where, FlowOK, SeatOK, TypeOK, Steps
<1>1. CASE Refused
  BY <1>1 DEF Refused, Finish, Where, FlowOK, SeatOK, AheadIdle
<1>2. CASE Setup
  BY <1>2 DEF Setup, Finish, Where, FlowOK, SeatOK, AheadIdle
<1>3. CASE SkipWave
  <2>1. \A s \in Seats : outcome'[s] = "completed" => outcome[s] = "completed"
    BY <1>3, RecordedFacts DEF SkipWave, TypeOK, Outcomes
  <2>2. FlowOK'
    BY <1>3 DEF SkipWave, OpenWave, Where, FlowOK
  <2>3. SeatOK'
    BY <1>3, <1>a, <2>1 DEF SkipWave, OpenWave, Where, SeatOK
  <2>4. AheadIdle'
    BY <1>3, <1>w DEF SkipWave, OpenWave, Where, AheadIdle
  <2> QED
    BY <2>2, <2>3, <2>4 DEF Where
<1>4. CASE BuildFails
  <2>1. \A s \in Seats : outcome'[s] = "completed" => outcome[s] = "completed"
    BY <1>4, RecordedFacts DEF BuildFails, HoldReaders, TypeOK, Outcomes
  <2>2. FlowOK'
    BY <1>4 DEF BuildFails, OpenWave, Where, FlowOK
  <2>3. SeatOK'
    BY <1>4, <1>a, <2>1 DEF BuildFails, OpenWave, Where, SeatOK
  <2>4. AheadIdle'
    BY <1>4, <1>w DEF BuildFails, OpenWave, Where, AheadIdle
  <2> QED
    BY <2>2, <2>3, <2>4 DEF Where
<1>5. CASE BuildSucceeds
  BY <1>5, <1>w DEF BuildSucceeds, OpenWave, Where, FlowOK, SeatOK, AheadIdle
<1>6. CASE NoSnapshotNeeded
  BY <1>6, <1>w DEF NoSnapshotNeeded, OpenWave, Where, FlowOK, SeatOK, AheadIdle
<1>7. CASE Admit
  <2>1. \A s \in Seats : step'[s] = IF s \in Waiting THEN "start" ELSE step[s]
    BY <1>7 DEF Admit, TypeOK
  <2>2. Waiting \subseteq shape[wave] /\ \A s \in Waiting : outcome[s] = "none" /\ s \in Seats
    BY <1>7, <1>w DEF Admit, Waiting, TypeOK
  <2>3. FlowOK'
    BY <1>7, <2>2 DEF Admit, Where, FlowOK
  <2>4. SeatOK'
    <3> SUFFICES ASSUME NEW s \in Seats
                 PROVE  /\ step'[s] \in {"start", "cli", "worked"} => s \in ran' /\ outcome'[s] = "none"
                        /\ s \in ran' => step'[s] # "idle"
                        /\ outcome'[s] = "completed" => step'[s] = "back"
                        /\ step'[s] \in {"cli", "worked"} => turn'[s] > 0
                        /\ step'[s] = "idle" => turn'[s] = 0
      BY DEF SeatOK
    <3>1. ran' = Waiting /\ outcome' = outcome /\ turn' = turn /\ step[s] \in {"idle", "back"}
      BY <1>7, <1>a DEF Admit
    <3> QED
      BY <2>1, <2>2, <3>1 DEF Where, SeatOK
  <2>5. AheadIdle'
    <3> SUFFICES ASSUME NEW j \in 1 .. Len(shape), NEW r \in shape[j],
                        j > wave \/ (j = wave /\ r \notin Waiting)
                 PROVE  step'[r] = "idle"
      BY <1>7 DEF Admit, AheadIdle
    <3>1. r \notin Waiting /\ r \in Seats
      BY <1>7, <1>w, <2>2 DEF Admit, TypeOK
    <3>2. step[r] = "idle"
      BY <1>7 DEF Admit, Where, AheadIdle
    <3> QED
      BY <2>1, <3>1, <3>2
  <2> QED
    BY <2>3, <2>4, <2>5 DEF Where
<1>8. CASE \E s \in Seats : Settle(s)
  BY <1>8 DEF Settle, AllBack, Where, FlowOK, SeatOK, AheadIdle
<1>9. CASE CloseWave
  <2>1. \A s \in Seats : step[s] \notin {"start", "cli", "worked"}
    BY <1>9 DEF CloseWave, AllBack, Where, SeatOK
  <2>2. FlowOK'
    BY <1>9 DEF CloseWave, AllBack, Where, FlowOK, TypeOK
  <2>3. SeatOK'
    BY <1>9, <2>1 DEF CloseWave, Where, SeatOK
  <2>4. AheadIdle'
    BY <1>9, <1>w DEF CloseWave, AllBack, Where, AheadIdle
  <2> QED
    BY <2>2, <2>3, <2>4 DEF Where
<1>10. CASE FinishRun
  BY <1>10, <1>w DEF FinishRun, Finish, Where, FlowOK, SeatOK, AheadIdle
<1>11. CASE \E s \in Seats : SeatStep(s)
  BY <1>11, WhereSeat
<1>12. CASE UNCHANGED vars
  BY <1>12 DEF vars, Where, FlowOK, SeatOK, AheadIdle
<1> QED
  BY <1>1, <1>2, <1>3, <1>4, <1>5, <1>6, <1>7, <1>8, <1>9, <1>10, <1>11, <1>12 DEF Next, Orchestrate

-------------------------------------------------------------------------------
(* What a run spends.                                                        *)

(* Once the ceiling is passed, every charge still to come is of a turn that  *)
(* was in flight.                                                            *)
Headroom ==
  \A top \in Charges, n \in 0 .. Cardinality(Seats) :
    /\ Cap > 0 /\ \A c \in Charges : c <= top
    /\ \A i \in 1 .. Len(shape) : Cardinality(shape[i]) <= n
    => spent < Cap \/ spent < Cap + (n - Cardinality(InFlight)) * top

(* Reservations.  A share times the seats that hold one never exceeds what   *)
(* remains.                                                                  *)
LEMMA ShareFits ==
  ASSUME NEW r \in Nat, NEW n \in Nat, n > 0
  PROVE  (r \div n) \in Nat /\ n * (r \div n) <= r
<1>1. r = n * (r \div n) + (r % n) /\ r % n >= 0 /\ (r \div n) \in Nat
  OBVIOUS
<1> QED
  BY <1>1

LEMMA TimesFacts ==
  ASSUME NEW a \in Nat, NEW b \in Nat
  PROVE  a * b \in Nat /\ a * b = b * a
  OBVIOUS

Books == OverrunIsNamed /\ CommittedIsReported

LEMMA BooksInit == Init => Books
<1> SUFFICES ASSUME Init PROVE Books
  OBVIOUS
<1>1. Budgeted => authority \in Nat
  BY RequestAssumption DEF Init, Budgeted
<1>2. Cardinality(unsettled) = 0
  BY FS_EmptySet DEF Init
<1> QED
  BY <1>1, <1>2 DEF Init, Books, OverrunIsNamed, CommittedIsReported

LEMMA BooksStep == TypeOK /\ Where /\ Books /\ [Next]_vars => Books'
<1> SUFFICES ASSUME TypeOK, Where, Books, [Next]_vars PROVE Books'
  OBVIOUS
<1> USE DEF request, flow, setupVars, gitVars, seatVars, money, report
<1>0. ASSUME UNCHANGED <<authority, reserved, overrun, reported, share, unsettled>> PROVE Books'
  BY <1>0 DEF Books, OverrunIsNamed, CommittedIsReported, Budgeted
<1>n. Budgeted => authority \in Nat
  BY RequestAssumption DEF TypeOK, Budgeted
<1>1. CASE Admit
  <2>1. unsettled = {} /\ Cardinality(unsettled) = 0
    BY <1>1, FS_EmptySet DEF Admit, Where, FlowOK
  <2>2. IsFiniteSet(Waiting) /\ Cardinality(Waiting) \in Nat
    <3>1. Waiting \subseteq Seats
      BY <1>1, WaveFacts DEF Admit, Waiting, TypeOK
    <3> QED
      BY <3>1, RequestAssumption, FS_Subset, FS_CardinalityType
  <2>3. unsettled' = Waiting /\ reported' = reported /\ overrun' = overrun /\ authority' = authority
    BY <1>1 DEF Admit
  <2>4. CASE Budgeted /\ Waiting # {}
    <3> DEFINE n == Cardinality(Waiting)
    <3>1. n \in Nat /\ n > 0
      BY <2>2, <2>4, FS_EmptySet
    <3>2. Remaining \in Nat /\ reserved \in Int /\ reported \in Nat /\ overrun \in Nat /\ authority \in Nat
      BY <2>4, <1>n DEF Remaining, TypeOK
    <3>3. share' = Remaining \div n /\ reserved' = reserved + n * share'
      BY <1>1, <2>4 DEF Admit, ShareOf
    <3>4. share' \in Nat /\ n * share' <= Remaining
      BY <3>1, <3>2, <3>3, ShareFits
    <3>5. reserved = reported
      BY <2>1, <2>4, <3>2 DEF Books, CommittedIsReported, TypeOK
    <3>6. reserved <= authority + overrun
      BY <2>4 DEF Books, OverrunIsNamed
    <3> HIDE DEF n
    <3>7. n * share' \in Nat /\ n * share' = share' * n
      BY <3>1, <3>4, TimesFacts
    <3>8. reserved' <= authority + overrun
      BY <3>2, <3>3, <3>4, <3>6, <3>7 DEF Remaining
    <3>9. reserved' = reported + share' * n
      BY <3>3, <3>5, <3>7
    <3> QED
      BY <2>3, <3>8, <3>9 DEF Books, OverrunIsNamed, CommittedIsReported, Budgeted, n
  <2>5. CASE Waiting = {}
    <3>1. share' = share /\ reserved' = reserved /\ Cardinality(unsettled') = 0
      BY <1>1, <2>3, <2>5, FS_EmptySet DEF Admit
    <3> QED
      BY <2>1, <2>3, <3>1 DEF Books, OverrunIsNamed, CommittedIsReported, Budgeted
  <2>6. CASE ~Budgeted
    BY <2>3, <2>6 DEF Books, OverrunIsNamed, CommittedIsReported, Budgeted
  <2> QED
    BY <2>4, <2>5, <2>6
<1>2. ASSUME NEW s \in Seats, Settle(s) PROVE Books'
  <2>1. /\ reserved \in Int /\ share \in Nat /\ charged[s] \in Nat /\ overrun \in Nat /\ reported \in Nat
        /\ reported' = reported + charged[s] /\ share' = share /\ authority' = authority
    BY <1>2 DEF Settle, TypeOK
  <2>2. IsFiniteSet(unsettled) /\ s \in unsettled /\ unsettled' = unsettled \ {s}
    BY <1>2, RequestAssumption, FS_Subset DEF Settle, TypeOK
  <2>3. Cardinality(unsettled') = Cardinality(unsettled) - 1 /\ Cardinality(unsettled) \in Nat
    BY <2>2, FS_RemoveElement, FS_CardinalityType
  <2>4. CASE Budgeted
    <3>1. reserved' = reserved - share + charged[s] /\ overrun' = overrun + Over(s)
      BY <1>2, <2>4 DEF Settle
    <3>2. reserved' <= authority + overrun'
      BY <1>n, <2>1, <2>4, <3>1 DEF Over, Books, OverrunIsNamed
    <3>3. reserved = reported + share * Cardinality(unsettled)
      BY <2>4 DEF Books, CommittedIsReported
    <3>4. share * (Cardinality(unsettled) - 1) = share * Cardinality(unsettled) - share
      BY <2>1, <2>3
    <3>5. reserved' = reported' + share * Cardinality(unsettled')
      BY <2>1, <2>3, <3>1, <3>3, <3>4
    <3> QED
      BY <2>1, <3>2, <3>5 DEF Books, OverrunIsNamed, CommittedIsReported, Budgeted
  <2>5. CASE ~Budgeted
    BY <2>1, <2>5 DEF Books, OverrunIsNamed, CommittedIsReported, Budgeted
  <2> QED
    BY <2>4, <2>5
<1>3. CASE CloseWave
  <2>1. unsettled = {} /\ unsettled' = {} /\ Cardinality({}) = 0
    BY <1>3, FS_EmptySet DEF CloseWave
  <2>2. share \in Nat /\ share' = 0 /\ UNCHANGED <<authority, reserved, overrun, reported>>
    BY <1>3 DEF CloseWave, TypeOK
  <2> QED
    BY <2>1, <2>2 DEF Books, OverrunIsNamed, CommittedIsReported, Budgeted
<1>4. ASSUME NEW s \in Seats, SeatStep(s) PROVE Books'
  BY <1>0, <1>4, SeatMoves DEF Moved
<1> QED
  BY <1>0, <1>1, <1>2, <1>3, <1>4
  DEF Next, Orchestrate, Refused, Setup, SkipWave, BuildFails, BuildSucceeds, NoSnapshotNeeded,
      FinishRun, vars

(* For every team and budget, concurrent seats are never admitted against    *)
(* the same remainder, and what is committed of the budget beyond its        *)
(* authority is in the overruns of the report.                               *)
THEOREM OverrunsNamed == Spec => []OverrunIsNamed
<1>1. Init => TypeOK /\ Where /\ Books
  BY TypeInit, WhereInit, BooksInit
<1>2. (TypeOK /\ Where /\ Books) /\ [Next]_vars => (TypeOK /\ Where /\ Books)'
  BY TypeStep, WhereStep, BooksStep
<1>3. Books => OverrunIsNamed
  BY DEF Books
<1> QED
  BY <1>1, <1>2, <1>3, PTL DEF Spec

(* No reservation is lost and none is kept: what the gate holds committed is *)
(* what was reported plus the open tickets.                                  *)
THEOREM TicketsAccounted == Spec => []CommittedIsReported
<1>1. Init => TypeOK /\ Where /\ Books
  BY TypeInit, WhereInit, BooksInit
<1>2. (TypeOK /\ Where /\ Books) /\ [Next]_vars => (TypeOK /\ Where /\ Books)'
  BY TypeStep, WhereStep, BooksStep
<1>3. Books => CommittedIsReported
  BY DEF Books
<1> QED
  BY <1>1, <1>2, <1>3, PTL DEF Spec

(* The ledger.  What a charge of a turn in flight adds fits what is left of  *)
(* the excess.                                                               *)
LEMMA ChargeFits ==
  ASSUME NEW m \in Nat, NEW x \in Nat, NEW c \in Nat, NEW top \in Nat, c <= top,
         NEW n \in Nat, NEW k \in Nat, k >= 1, k <= n,
         x < m \/ x < m + (n - k) * top
  PROVE  x + c < m \/ x + c < m + (n - (k - 1)) * top
<1>1. (n - (k - 1)) * top = (n - k) * top + top
  OBVIOUS
<1>2. (n - k) * top >= 0 /\ (n - k) * top \in Int
  OBVIOUS
<1> QED
  BY <1>1, <1>2

LEMMA HeadroomInit == Init => Headroom
<1> SUFFICES ASSUME Init, Cap > 0 PROVE spent < Cap
  BY DEF Headroom
<1> QED
  BY DEF Init

LEMMA InFlightFacts ==
  ASSUME TypeOK, Where, pc = "running"
  PROVE  /\ IsFiniteSet(InFlight) /\ Cardinality(InFlight) \in Nat
         /\ Cardinality(InFlight) <= Cardinality(shape[wave]) /\ Cardinality(shape[wave]) \in Nat
<1>1. InFlight \subseteq shape[wave] /\ shape[wave] \subseteq Seats
  BY WaveFacts DEF InFlight, Where, SeatOK, FlowOK, TypeOK
<1> QED
  BY <1>1, RequestAssumption, FS_Subset, FS_CardinalityType

LEMMA HeadroomSeat ==
  ASSUME TypeOK, Where, Headroom, NEW s \in Seats, SeatStep(s)
  PROVE  Headroom'
<1> USE DEF request, flow, setupVars, gitVars, seatVars, money, report
<1>m. Moved(s)
  BY SeatMoves
<1>r. pc = "running" /\ shape' = shape
  BY <1>m DEF Moved, Where, SeatOK, FlowOK
<1> SUFFICES ASSUME NEW top \in Charges, NEW n \in 0 .. Cardinality(Seats),
                    Cap > 0, \A c \in Charges : c <= top,
                    \A i \in 1 .. Len(shape) : Cardinality(shape[i]) <= n
             PROVE  spent' < Cap \/ spent' < Cap + (n - Cardinality(InFlight')) * top
  BY <1>r DEF Headroom
<1> DEFINE k == Cardinality(InFlight)  l == Cardinality(InFlight')
<1>1. IsFiniteSet(InFlight) /\ k \in Nat /\ k <= n /\ Cap \in Nat /\ top \in Nat /\ spent \in Nat
  BY <1>r, InFlightFacts, RequestAssumption, SMTT(30) DEF TypeOK
<1>2. n \in Nat /\ (spent < Cap \/ spent < Cap + (n - k) * top)
  <2>1. Cardinality(Seats) \in Nat
    BY RequestAssumption, FS_CardinalityType
  <2> QED
    BY <2>1 DEF Headroom
<1>3. CASE step[s] = "cli"
  <2>1. step'[s] # "cli" /\ InFlight' = InFlight \ {s} /\ s \in InFlight
    BY <1>m, <1>3 DEF Moved, InFlight
  <2>2. l = k - 1 /\ k >= 1
    <3>1. Cardinality(InFlight \ {s}) = Cardinality(InFlight) - 1
      BY <1>1, <2>1, FS_RemoveElement
    <3>2. Cardinality(InFlight) # 0
      BY <1>1, <2>1, FS_EmptySet
    <3> QED
      BY <1>1, <2>1, <3>1, <3>2
  <2>3. ASSUME NEW c \in Nat, c <= top, spent' = spent + c
        PROVE  spent' < Cap \/ spent' < Cap + (n - l) * top
    <3> HIDE DEF k, l
    <3> QED
      BY <1>1, <1>2, <2>2, <2>3, ChargeFits
  <2>4. \E c \in Nat : c <= top /\ spent' = spent + c
    <3>1. CASE spent' = spent
      BY <1>1, <3>1
    <3>2. CASE \E c \in Charges, ok \in BOOLEAN : CliReturns(s, c, ok)
      BY <3>2, RequestAssumption DEF CliReturns
    <3> QED
      BY <3>1, <3>2 DEF SeatStep, OwnStep, StartTurn, CliTimeout, ResumeFails, Complete
  <2> QED
    BY <2>3, <2>4
<1>4. CASE step[s] # "cli"
  <2>1. spent' = spent
    BY <1>4 DEF SeatStep, OwnStep, StartTurn, CliTimeout, ResumeFails, Complete, CliReturns
  <2>2. CASE step'[s] = "cli"
    <3>1. ~OverCap
      BY <1>4, <2>2, BackFacts, BlockedIsOutcome
      DEF SeatStep, OwnStep, StartTurn, CliTimeout, ResumeFails, Complete, CliReturns, Back, TypeOK
    <3> QED
      BY <1>1, <2>1, <3>1 DEF OverCap
  <2>3. CASE step'[s] # "cli"
    <3>1. InFlight' = InFlight
      BY <1>m, <1>4, <2>3 DEF Moved, InFlight
    <3> QED
      BY <1>2, <2>1, <3>1
  <2> QED
    BY <2>2, <2>3
<1> QED
  BY <1>3, <1>4

LEMMA HeadroomStep == TypeOK /\ Where /\ Headroom /\ [Next]_vars => Headroom'
<1> SUFFICES ASSUME TypeOK, Where, Headroom, [Next]_vars PROVE Headroom'
  OBVIOUS
<1> USE DEF request, flow, setupVars, gitVars, seatVars, money, report
<1>1. ASSUME NEW s \in Seats, SeatStep(s) PROVE Headroom'
  BY <1>1, HeadroomSeat
<1>2. ASSUME UNCHANGED <<shape, spent>>, InFlight' = InFlight PROVE Headroom'
  BY <1>2 DEF Headroom
<1>3. CASE Admit
  <2>1. InFlight' = InFlight
    BY <1>3 DEF Admit, InFlight, Where, FlowOK, SeatOK, TypeOK, Waiting
  <2> QED
    BY <1>2, <1>3, <2>1 DEF Admit
<1>4. ASSUME UNCHANGED <<shape, spent, step>> PROVE Headroom'
  BY <1>2, <1>4 DEF InFlight
<1> QED
  BY <1>1, <1>3, <1>4
  DEF Next, Orchestrate, Refused, Setup, SkipWave, BuildFails, BuildSucceeds, NoSnapshotNeeded,
      FinishRun, Settle, CloseWave, vars

LEMMA ShrinkFacts ==
  ASSUME NEW n \in Nat, NEW k \in Nat, NEW top \in Nat
  PROVE  (n - k) * top <= n * top
<1>1. (n - k) * top = n * top - k * top /\ k * top >= 0 /\ k * top \in Int /\ n * top \in Int
  OBVIOUS
<1> QED
  BY <1>1

(* Seats that share one ledger pass its ceiling by less than one charge for  *)
(* each seat of the widest wave, whatever the prices.                        *)
THEOREM LedgerBounded == Spec => []OvershootBounded
<1>1. Init => TypeOK /\ Where /\ Headroom
  BY TypeInit, WhereInit, HeadroomInit
<1>2. (TypeOK /\ Where /\ Headroom) /\ [Next]_vars => (TypeOK /\ Where /\ Headroom)'
  BY TypeStep, WhereStep, HeadroomStep
<1>3. TypeOK /\ Headroom => OvershootBounded
  <2> SUFFICES ASSUME TypeOK, Headroom, NEW top \in Charges, NEW n \in 0 .. Cardinality(Seats),
                      Cap > 0, \A c \in Charges : c <= top,
                      \A i \in 1 .. Len(shape) : Cardinality(shape[i]) <= n
               PROVE  spent <= Cap \/ spent < Cap + n * top
    BY DEF OvershootBounded
  <2> DEFINE k == Cardinality(InFlight)
  <2>1. k \in Nat /\ Cardinality(Seats) \in Nat /\ k <= Cardinality(Seats)
    BY RequestAssumption, FS_Subset, FS_CardinalityType DEF InFlight
  <2>2. spent < Cap \/ spent < Cap + (n - k) * top
    BY DEF Headroom
  <2>3. Cap \in Nat /\ top \in Nat /\ spent \in Nat /\ n \in Nat
    BY <2>1, RequestAssumption DEF TypeOK
  <2> HIDE DEF k
  <2>4. (n - k) * top <= n * top
    BY <2>1, <2>3, ShrinkFacts
  <2>5. (n - k) * top \in Int /\ n * top \in Int
    BY <2>1, <2>3
  <2> QED
    BY <2>2, <2>3, <2>4, <2>5
<1> QED
  BY <1>1, <1>2, <1>3, PTL DEF Spec

-------------------------------------------------------------------------------
(* What keeps a run from going on, and what its readers saw.                 *)

EarlierDone ==
  pc \in {"wave", "admit", "running"} /\ ~waveFailed =>
    \A i \in 1 .. wave - 1 : shape[i] \cap Completed # {}

BudgetLeft ==
  /\ pc = "preflight" => reported = 0
  /\ pc \in {"wave", "admit"} /\ Budgeted /\ ~waveFailed => reported < authority
  /\ pc = "running" /\ Budgeted /\ (\E s \in ran : step[s] # "back") => reported < authority

ListedAreCommits ==
  /\ committed \subseteq Completed \cap commits /\ commits \subseteq Writers \cap Crew(shape)
  /\ pc # "done" => CommittedBefore(wave) \subseteq committed

(* A reader of the wave that may still run has every listed branch in view.  *)
InView ==
  /\ pc \in {"admit", "running"} =>
       \A s \in shape[wave] \cap Deferred(shape) :
         outcome[s] = "none" /\ s \notin setupFailed => committed \subseteq seen[s]
  /\ \A s \in ran : turn[s] > 0 => s \notin setupFailed /\ s \in runnable

(* What the report leaves out was never completed, and a run reported        *)
(* completed has only completed records.                                     *)
ReportOK ==
  /\ pc = "preflight" => notRun = {} /\ \A s \in Seats : outcome[s] = "none"
  /\ \A s \in notRun : s \notin runnable \/ (step[s] = "idle" /\ outcome[s] # "none")
  /\ \A s \in Seats : outcome[s] = "completed" => s \in runnable
  /\ \A s \in Seats : sha[s] # 0 => s \in Deferred(shape)
  /\ status = "completed" => \A s \in Crew(shape) : outcome[s] \in {"none", "completed"}

(* The same facts about a seat at work, for the invariants below.            *)
LEMMA AtWork ==
  ASSUME TypeOK, Where, NEW s \in Seats, SeatStep(s)
  PROVE  /\ Moved(s) /\ s \in ran /\ pc = "running" /\ ~waveFailed /\ outcome[s] = "none"
         /\ wave \in 1 .. Len(shape) /\ s \in shape[wave]
         /\ \A j \in 1 .. Len(shape) : s \in shape[j] => j = wave
         /\ Completed \subseteq Completed' /\ Completed' \subseteq Completed \cup {s}
<1>1. Moved(s)
  BY SeatMoves
<1>2. /\ s \in ran /\ pc = "running" /\ ~waveFailed /\ outcome[s] = "none"
      /\ wave \in 1 .. Len(shape) /\ s \in shape[wave]
  BY <1>1 DEF Moved, Where, SeatOK, FlowOK, TypeOK
<1>3. \A j \in 1 .. Len(shape) : s \in shape[j] => j = wave
  BY <1>2, WaveFacts
<1>4. Completed \subseteq Completed' /\ Completed' \subseteq Completed \cup {s}
  BY <1>1, <1>2 DEF Completed, Moved
<1> QED
  BY <1>1, <1>2, <1>3, <1>4

(* No record that was completed is overwritten, and none is made outside     *)
(* the steps of a seat.                                                      *)
LEMMA CompletedKept ==
  ASSUME TypeOK, Where, [Next]_vars, \A s \in Seats : ~SeatStep(s)
  PROVE  Completed' = Completed
<1> USE DEF request, flow, setupVars, gitVars, seatVars, money, report
<1>w. \A i \in 1 .. Len(shape) : shape[i] \subseteq Seats
  BY WaveFacts
<1>1. CASE SkipWave
  <2>1. wave \in 1 .. Len(shape) /\ \A s \in shape[wave] : outcome[s] # "completed"
    BY <1>1, <1>w DEF SkipWave, OpenWave, TypeOK, Where, AheadIdle, SeatOK
  <2>2. \A s \in Seats : outcome'[s] = IF s \in shape[wave] THEN "skipped_wave_failed" ELSE outcome[s]
    BY <1>1, RecordedFacts DEF SkipWave, TypeOK, Outcomes
  <2> QED
    BY <2>1, <2>2 DEF Completed
<1>2. CASE BuildFails
  <2>1. wave \in 1 .. Len(shape) /\ \A s \in shape[wave] : outcome[s] # "completed"
    BY <1>2, <1>w DEF BuildFails, OpenWave, TypeOK, Where, AheadIdle, SeatOK
  <2>2. \A s \in Seats : outcome'[s] = "completed" => outcome[s] = "completed"
    BY <1>2, RecordedFacts DEF BuildFails, HoldReaders, TypeOK, Outcomes
  <2>3. \A s \in Seats : outcome[s] = "completed" => outcome'[s] = "completed"
    BY <1>2, <2>1, RecordedFacts DEF BuildFails, HoldReaders, Readers, TypeOK, Outcomes
  <2> QED
    BY <2>2, <2>3 DEF Completed
<1>3. ASSUME UNCHANGED outcome PROVE Completed' = Completed
  BY <1>3 DEF Completed
<1> QED
  BY <1>1, <1>2, <1>3
  DEF Next, Orchestrate, Refused, Setup, BuildSucceeds, NoSnapshotNeeded, Admit, Settle, CloseWave,
      FinishRun, vars

Progress == EarlierDone /\ BudgetLeft /\ NoWorkAfterFailure

LEMMA ProgressInit == Init => Progress
<1> SUFFICES ASSUME Init PROVE Progress
  OBVIOUS
<1>1. InFlight = {}
  BY DEF Init, InFlight
<1>2. \A j \in 1 .. Len(shape) : \A s \in shape[j] : ~(turn[s] > 0)
  <2>1. \A j \in 1 .. Len(shape) : shape[j] \subseteq Seats
    BY TypeInit, WaveFacts
  <2> QED
    BY <2>1 DEF Init
<1> QED
  BY <1>1, <1>2 DEF Init, Progress, EarlierDone, BudgetLeft, NoWorkAfterFailure

LEMMA ProgressSeat ==
  ASSUME TypeOK, Where, Progress, NEW s \in Seats, SeatStep(s)
  PROVE  Progress'
<1> USE DEF request, flow, setupVars, gitVars, seatVars, money, report
<1>1. /\ Moved(s) /\ s \in ran /\ pc = "running" /\ ~waveFailed /\ wave \in 1 .. Len(shape)
      /\ \A j \in 1 .. Len(shape) : s \in shape[j] => j = wave
      /\ Completed \subseteq Completed'
  BY AtWork
<1>2. UNCHANGED <<shape, authority, pc, wave, ran, waveFailed, reported>>
  BY <1>1 DEF Moved
<1>3. EarlierDone'
  BY <1>1, <1>2 DEF Progress, EarlierDone
<1>4. step[s] # "back" /\ (Budgeted => reported < authority)
  BY <1>1 DEF Moved, Progress, BudgetLeft
<1>5. BudgetLeft'
  BY <1>1, <1>2, <1>4 DEF BudgetLeft, Budgeted
<1>6. NoWorkAfterFailure'
  <2>1. InFlight' # {} /\ Budgeted' => reported' < authority'
    BY <1>2, <1>4 DEF Budgeted
  <2>2. ASSUME NEW j \in 1 .. Len(shape), NEW r \in shape[j], turn'[r] > 0, NEW i \in 1 .. j - 1
        PROVE  shape[i] \cap Completed' # {}
    <3>1. CASE r = s
      <4>1. shape[i] \cap Completed # {}
        BY <1>1, <2>2, <3>1 DEF Progress, EarlierDone
      <4> QED
        BY <1>1, <4>1
    <3>2. CASE r # s
      <4>1. r \in Seats /\ turn[r] > 0
        BY <1>1, <2>2, <3>2, WaveFacts DEF Moved
      <4>2. shape[i] \cap Completed # {}
        BY <2>2, <4>1 DEF Progress, NoWorkAfterFailure
      <4> QED
        BY <1>1, <4>2
    <3> QED
      BY <3>1, <3>2
  <2> QED
    BY <1>2, <2>1, <2>2 DEF NoWorkAfterFailure
<1> QED
  BY <1>3, <1>5, <1>6 DEF Progress

LEMMA ProgressStep == TypeOK /\ Where /\ Progress /\ [Next]_vars => Progress'
<1> SUFFICES ASSUME TypeOK, Where, Progress, [Next]_vars, \A s \in Seats : ~SeatStep(s) PROVE Progress'
  BY ProgressSeat
<1> USE DEF request, flow, setupVars, gitVars, seatVars, money, report
<1>c. Completed' = Completed
  BY CompletedKept
<1>t. /\ wave \in Nat /\ Len(shape) \in Nat /\ reported \in Nat /\ (Budgeted => authority \in Nat)
      /\ \A i \in 1 .. Len(shape) : shape[i] \subseteq Seats
  BY WaveFacts, RequestAssumption DEF TypeOK, Budgeted
<1>1. ASSUME UNCHANGED <<shape, turn>>, (InFlight' # {} /\ Budgeted' => reported' < authority')
      PROVE  NoWorkAfterFailure'
  BY <1>1, <1>c DEF Progress, NoWorkAfterFailure
<1>2. ASSUME UNCHANGED <<shape, wave, waveFailed, reported, authority, step, ran>>, pc' # "running",
             pc' \in {"wave", "admit"} => pc \in {"wave", "admit"}, pc' # "preflight",
             UNCHANGED turn
      PROVE  Progress'
  <2>1. EarlierDone'
    BY <1>2, <1>c DEF Progress, EarlierDone
  <2>2. BudgetLeft'
    BY <1>2 DEF Progress, BudgetLeft, Budgeted
  <2>3. NoWorkAfterFailure'
    BY <1>1, <1>2 DEF Progress, NoWorkAfterFailure, InFlight, Budgeted
  <2> QED
    BY <2>1, <2>2, <2>3 DEF Progress
<1>3. CASE Refused \/ FinishRun
  BY <1>2, <1>3 DEF Refused, FinishRun, Finish
<1>4. CASE Setup
  <2>1. pc' = "done" \/ pc' = "wave"
    BY <1>4 DEF Setup, Finish
  <2>2. UNCHANGED <<shape, authority, wave, waveFailed, reported, step, turn>> /\ wave = 1
        /\ pc = "preflight"
    BY <1>4 DEF Setup, Where, FlowOK
  <2>3. EarlierDone'
    BY <2>2 DEF EarlierDone
  <2>4. Budgeted => reported' < authority
    BY <1>4, <2>2, <1>t DEF Setup, Progress, BudgetLeft
  <2>5. BudgetLeft'
    BY <2>1, <2>2, <2>4 DEF BudgetLeft, Budgeted
  <2>6. NoWorkAfterFailure'
    BY <1>1, <2>2, <2>4 DEF Budgeted
  <2> QED
    BY <2>3, <2>5, <2>6 DEF Progress
<1>5. CASE SkipWave
  <2>1. UNCHANGED <<shape, authority, pc, ran, waveFailed, reported, step, turn>> /\ waveFailed /\ pc = "wave"
    BY <1>5 DEF SkipWave, OpenWave
  <2> QED
    BY <1>1, <1>c, <2>1 DEF Progress, EarlierDone, BudgetLeft, NoWorkAfterFailure, InFlight, Budgeted
<1>6. CASE BuildFails \/ BuildSucceeds \/ NoSnapshotNeeded
  BY <1>2, <1>6 DEF BuildFails, BuildSucceeds, NoSnapshotNeeded, OpenWave
<1>7. CASE Admit
  <2>1. UNCHANGED <<shape, authority, wave, waveFailed, reported, turn>> /\ pc = "admit" /\ pc' = "running"
    BY <1>7 DEF Admit
  <2>2. Budgeted' => reported' < authority'
    BY <2>1 DEF Progress, BudgetLeft, Where, FlowOK, Budgeted
  <2> QED
    BY <1>1, <1>c, <2>1, <2>2 DEF Progress, EarlierDone, BudgetLeft
<1>8. CASE \E s \in Seats : Settle(s)
  <2>1. UNCHANGED <<shape, authority, pc, wave, waveFailed, turn, step, ran>> /\ pc = "running"
        /\ \A s \in ran : step[s] = "back"
    BY <1>8 DEF Settle, AllBack
  <2>2. InFlight' = {}
    BY <2>1 DEF InFlight, Where, SeatOK
  <2> QED
    BY <1>1, <1>c, <2>1, <2>2 DEF Progress, EarlierDone, BudgetLeft
<1>9. CASE CloseWave
  <2>1. /\ UNCHANGED <<shape, authority, turn, step, reported>> /\ pc = "running" /\ pc' = "wave"
        /\ wave' = wave + 1 /\ wave \in 1 .. Len(shape)
        /\ waveFailed' = (waveFailed \/ Exhausted \/ ran \cap Completed = {})
        /\ \A s \in ran : step[s] = "back"
    BY <1>9 DEF CloseWave, AllBack, TypeOK
  <2>2. InFlight' = {}
    BY <2>1 DEF InFlight, Where, SeatOK
  <2>3. EarlierDone'
    <3> SUFFICES ASSUME ~waveFailed', NEW i \in 1 .. wave PROVE shape[i] \cap Completed # {}
      BY <1>c, <1>t, <2>1 DEF EarlierDone
    <3>1. ran \cap Completed # {} /\ ran \subseteq shape[wave] /\ ~waveFailed
      BY <2>1 DEF Where, FlowOK
    <3>2. CASE i = wave
      BY <3>1, <3>2
    <3>3. CASE i # wave
      <4>1. i \in 1 .. wave - 1
        BY <1>t, <3>3
      <4> QED
        BY <2>1, <3>1, <4>1 DEF Progress, EarlierDone
    <3> QED
      BY <3>2, <3>3
  <2>4. BudgetLeft'
    <3>1. ~waveFailed' /\ Budgeted => reported < authority
      <4> SUFFICES ASSUME ~waveFailed', Budgeted PROVE reported < authority
        OBVIOUS
      <4>1. ~Exhausted /\ ~budgetStop
        BY <2>1 DEF Where, FlowOK
      <4> QED
        BY <1>t, <4>1 DEF Exhausted
    <3> QED
      BY <2>1, <3>1 DEF BudgetLeft, Budgeted
  <2> QED
    BY <1>1, <2>1, <2>2, <2>3, <2>4 DEF Progress
<1>10. CASE UNCHANGED vars
  BY <1>10, <1>c, <1>1 DEF vars, Progress, EarlierDone, BudgetLeft, NoWorkAfterFailure, InFlight, Budgeted
<1> QED
  BY <1>3, <1>4, <1>5, <1>6, <1>7, <1>8, <1>9, <1>10 DEF Next, Orchestrate

(* For every plan, no CLI is started after a wave that completed nothing or  *)
(* once the budget authority is used up.                                     *)
THEOREM FailureStopsWork == Spec => []NoWorkAfterFailure
<1>1. Init => TypeOK /\ Where /\ Progress
  BY TypeInit, WhereInit, ProgressInit
<1>2. (TypeOK /\ Where /\ Progress) /\ [Next]_vars => (TypeOK /\ Where /\ Progress)'
  BY TypeStep, WhereStep, ProgressStep
<1>3. Progress => NoWorkAfterFailure
  BY DEF Progress
<1> QED
  BY <1>1, <1>2, <1>3, PTL DEF Spec

Review == ListedAreCommits /\ InView /\ ReviewersSawTheWork /\ ReportOK

LEMMA ReviewInit == Init => Review
<1> SUFFICES ASSUME Init PROVE Review
  OBVIOUS
<1>1. Completed = {} /\ ran = {} /\ notRun = {} /\ pc = "preflight" /\ status = "none"
      /\ committed = {} /\ commits = {} /\ \A s \in Seats : sha[s] = 0 /\ outcome[s] = "none"
  BY DEF Init, Completed
<1>2. ListedAreCommits
  BY <1>1 DEF ListedAreCommits, CommittedBefore
<1>3. InView
  BY <1>1 DEF InView
<1>4. ReviewersSawTheWork
  BY <1>1 DEF ReviewersSawTheWork
<1>5. ReportOK
  BY <1>1 DEF ReportOK
<1> QED
  BY <1>2, <1>3, <1>4, <1>5 DEF Review

LEMMA ReviewSeat ==
  ASSUME TypeOK, Where, Review, NEW s \in Seats, SeatStep(s)
  PROVE  Review'
<1> USE DEF request, flow, setupVars, gitVars, seatVars, money, report
<1>1. /\ Moved(s) /\ s \in ran /\ pc = "running" /\ outcome[s] = "none" /\ wave \in 1 .. Len(shape)
      /\ s \in shape[wave] /\ \A j \in 1 .. Len(shape) : s \in shape[j] => j = wave
      /\ Completed \subseteq Completed' /\ Completed' \subseteq Completed \cup {s}
  BY AtWork
<1>2. /\ UNCHANGED <<shape, pc, wave, ran, notRun, runnable, setupFailed, committed, sha, seen, status>>
      /\ commits \subseteq commits' /\ commits' \subseteq commits \cup ({s} \cap Writers)
  BY <1>1 DEF Moved
<1>3. \A i \in 1 .. Len(shape) : i <= wave => CommittedBefore(i)' = CommittedBefore(i)
  <2> SUFFICES ASSUME NEW i \in 1 .. Len(shape), i <= wave PROVE CommittedBefore(i)' = CommittedBefore(i)
    OBVIOUS
  <2>1. \A j \in 1 .. i - 1 : s \notin shape[j] /\ j \in 1 .. Len(shape)
    BY <1>1
  <2> QED
    BY <1>1, <1>2, <2>1 DEF CommittedBefore
<1>4. (s \in runnable /\ s \notin setupFailed) \/ turn'[s] = 0
  <2>1. turn[s] \in Nat /\ (turn[s] > 0 => s \in runnable /\ s \notin setupFailed)
    BY <1>1 DEF TypeOK, Review, InView
  <2>2. Blocked(s) = "no" => s \in runnable /\ s \notin setupFailed
    BY DEF Blocked
  <2>3. turn'[s] = turn[s] \/ turn[s] > 0 \/ Blocked(s) = "no"
    BY <1>1 DEF Moved
  <2> QED
    BY <2>1, <2>2, <2>3
<1>5. \A r \in Seats : outcome'[r] = "none" => outcome[r] = "none"
  BY <1>1 DEF Moved
<1>6. outcome'[s] = "completed" =>
        turn[s] > 0 /\ s \in runnable /\ s \notin setupFailed
  BY <1>1 DEF Moved, Where, SeatOK, Review, InView
<1>7. ListedAreCommits'
  <2>1. \A i \in 1 .. Len(shape) : i = wave => CommittedBefore(i)' \subseteq committed
    BY <1>1, <1>3 DEF Review, ListedAreCommits
  <2>2. CommittedBefore(wave)' \subseteq committed
    BY <1>1, <1>2, <2>1 DEF CommittedBefore
  <2>3. committed \subseteq Completed' \cap commits'
    BY <1>1, <1>2 DEF Review, ListedAreCommits
  <2>4. s \in Crew(shape)
    BY <1>1 DEF Crew
  <2>5. commits' \subseteq Writers \cap Crew(shape)
    BY <1>2, <2>4 DEF Review, ListedAreCommits
  <2> QED
    BY <1>2, <2>2, <2>3, <2>5 DEF ListedAreCommits
<1>8. InView'
  <2>1. ASSUME NEW r \in shape[wave] \cap Deferred(shape), outcome'[r] = "none", r \notin setupFailed
        PROVE  committed \subseteq seen[r]
    <3>1. r \in Seats
      BY WaveFacts
    <3> QED
      BY <1>1, <1>5, <2>1, <3>1 DEF Review, InView
  <2>2. ASSUME NEW r \in ran, turn'[r] > 0 PROVE r \notin setupFailed /\ r \in runnable
    <3>1. CASE r = s
      BY <1>4, <2>2, <3>1
    <3>2. CASE r # s
      BY <1>1, <2>2, <3>2 DEF Moved, Review, InView, TypeOK
    <3> QED
      BY <3>1, <3>2
  <2> QED
    BY <1>1, <1>2, <2>1, <2>2 DEF InView
<1>9. ReviewersSawTheWork'
  <2> SUFFICES ASSUME NEW i \in 1 .. Len(shape), NEW r \in shape[i] \cap Deferred(shape), r \in Completed'
               PROVE  CommittedBefore(i)' \subseteq seen[r]
    BY <1>2 DEF ReviewersSawTheWork
  <2>1. CASE r = s
    <3>1. i = wave /\ outcome'[s] = "completed"
      BY <1>1, <2>1 DEF Completed
    <3>2. committed \subseteq seen[s]
      BY <1>1, <1>6, <2>1, <3>1 DEF Review, InView
    <3> QED
      BY <1>1, <1>3, <2>1, <3>1, <3>2 DEF Review, ListedAreCommits
  <2>2. CASE r # s
    <3>1. r \in Completed /\ step[r] = "back"
      BY <1>1, <2>2 DEF Completed, Where, SeatOK
    <3>2. i <= wave
      BY <1>1, <3>1 DEF Where, AheadIdle
    <3> QED
      BY <1>3, <3>1, <3>2 DEF Review, ReviewersSawTheWork
  <2> QED
    BY <2>1, <2>2
<1>10. ReportOK'
  <2>1. \A r \in notRun : r \notin runnable \/ (step'[r] = "idle" /\ outcome'[r] # "none")
    BY <1>1 DEF Moved, Review, ReportOK, TypeOK
  <2>2. \A r \in Seats : outcome'[r] = "completed" => r \in runnable
    BY <1>1, <1>6 DEF Moved, Review, ReportOK
  <2>3. status # "completed"
    BY <1>1 DEF Where, FlowOK
  <2> QED
    BY <1>1, <1>2, <2>1, <2>2, <2>3 DEF Review, ReportOK
<1> QED
  BY <1>7, <1>8, <1>9, <1>10 DEF Review

LEMMA ReviewStep == TypeOK /\ Where /\ Review /\ [Next]_vars => Review'
<1> SUFFICES ASSUME TypeOK, Where, Review, [Next]_vars, \A s \in Seats : ~SeatStep(s) PROVE Review'
  BY ReviewSeat
<1> USE DEF request, flow, setupVars, gitVars, seatVars, money, report
<1>c. Completed' = Completed /\ commits' = commits /\ shape' = shape
  BY CompletedKept
  DEF Next, Orchestrate, Refused, Setup, SkipWave, BuildFails, BuildSucceeds, NoSnapshotNeeded, Admit,
      Settle, CloseWave, FinishRun, vars
<1>b. \A i : CommittedBefore(i)' = CommittedBefore(i)
  BY <1>c DEF CommittedBefore
<1>t. /\ wave \in Nat /\ Len(shape) \in Nat
      /\ \A i \in 1 .. Len(shape) : shape[i] \subseteq Seats
      /\ Deferred(shape) \subseteq Seats \ Writers
  BY WaveFacts DEF TypeOK
<1>n. ASSUME NEW j \in 1 .. Len(shape), NEW s \in shape[j], s \in Completed
      PROVE  j <= wave /\ (j = wave => s \in ran /\ pc = "running")
  BY <1>n, <1>t DEF Completed, Where, AheadIdle, SeatOK
<1>0. ASSUME UNCHANGED <<ran, notRun, runnable, setupFailed, committed, sha, seen, outcome, step, turn, wave>>,
             pc' \in {"admit", "running"} => pc \in {"admit", "running"}, pc' # "preflight",
             status' = "completed" => \A s \in Crew(shape) : outcome[s] \in {"none", "completed"},
             pc = "done" => pc' = "done"
      PROVE  Review'
  <2>1. ListedAreCommits'
    BY <1>0, <1>b, <1>c DEF Review, ListedAreCommits
  <2>2. InView'
    BY <1>0, <1>c DEF Review, InView
  <2>3. ReviewersSawTheWork'
    BY <1>0, <1>b, <1>c DEF Review, ReviewersSawTheWork
  <2>4. ReportOK'
    BY <1>0, <1>c DEF Review, ReportOK
  <2> QED
    BY <2>1, <2>2, <2>3, <2>4 DEF Review
<1>s. pc # "done" => status = "none"
  BY DEF Where, FlowOK
<1>1. CASE Refused
  BY <1>0, <1>1 DEF Refused, Finish
<1>2. CASE FinishRun
  <2>1. FinalStatus = "completed" => \A s \in Crew(shape) : outcome[s] \in {"none", "completed"}
    BY DEF FinalStatus
  <2> QED
    BY <1>0, <1>2, <2>1 DEF FinishRun, Finish
<1>3. CASE Setup
  <2>1. /\ UNCHANGED <<ran, committed, sha, seen, outcome, step, turn, wave>> /\ pc' \in {"done", "wave"}
        /\ notRun' = Crew(shape) \ runnable' /\ status' # "completed" /\ pc = "preflight"
    BY <1>3, <1>s DEF Setup, Finish
  <2>2. ran = {} /\ \A s \in Seats : outcome[s] = "none"
    BY <2>1 DEF Where, FlowOK, Review, ReportOK
  <2>3. ListedAreCommits'
    BY <1>b, <1>c, <2>1 DEF Review, ListedAreCommits
  <2>4. InView'
    BY <2>1, <2>2 DEF InView
  <2>5. ReviewersSawTheWork'
    BY <1>b, <1>c, <2>1 DEF Review, ReviewersSawTheWork
  <2>6. ReportOK'
    BY <1>c, <2>1, <2>2 DEF Review, ReportOK
  <2> QED
    BY <2>3, <2>4, <2>5, <2>6 DEF Review
<1>4. CASE SkipWave
  <2>1. /\ UNCHANGED <<pc, ran, runnable, setupFailed, committed, sha, seen, step, turn, status>>
        /\ pc = "wave" /\ wave \in 1 .. Len(shape) /\ wave' = wave + 1 /\ notRun' = notRun \cup shape[wave]
    BY <1>4 DEF SkipWave, OpenWave, TypeOK
  <2>2. \A s \in Seats : outcome'[s] = IF s \in shape[wave] THEN "skipped_wave_failed" ELSE outcome[s]
    BY <1>4, RecordedFacts DEF SkipWave, TypeOK, Outcomes
  <2>3. CommittedBefore(wave + 1) \subseteq committed
    <3> SUFFICES ASSUME NEW b, b \in CommittedBefore(wave + 1) PROVE b \in committed
      OBVIOUS
    <3>1. PICK j \in 1 .. wave : b \in shape[j] /\ b \in Completed \cap commits
      BY <1>t DEF CommittedBefore
    <3>2. j # wave
      BY <1>n, <2>1, <3>1
    <3>3. b \in CommittedBefore(wave)
      BY <1>t, <3>1, <3>2 DEF CommittedBefore
    <3> QED
      BY <2>1, <3>3 DEF Review, ListedAreCommits
  <2>4. ListedAreCommits'
    BY <1>b, <1>c, <2>1, <2>3 DEF Review, ListedAreCommits
  <2>5. InView'
    BY <2>1 DEF Review, InView
  <2>6. ReviewersSawTheWork'
    BY <1>b, <1>c, <2>1 DEF Review, ReviewersSawTheWork
  <2>7. ReportOK'
    <3>1. \A s \in shape[wave] : step[s] = "idle" /\ s \in Seats
      BY <1>t, <2>1 DEF Where, AheadIdle
    <3>2. \A s \in notRun' : s \notin runnable \/ (step[s] = "idle" /\ outcome'[s] # "none")
      BY <2>1, <2>2, <3>1 DEF Review, ReportOK, TypeOK
    <3>3. \A s \in Seats : outcome'[s] = "completed" => s \in runnable
      BY <2>2 DEF Review, ReportOK
    <3> QED
      BY <1>c, <1>s, <2>1, <3>2, <3>3 DEF Review, ReportOK
  <2> QED
    BY <2>4, <2>5, <2>6, <2>7 DEF Review
<1>5. CASE BuildFails
  <2>1. /\ UNCHANGED <<ran, runnable, committed, sha, seen, step, turn, status, wave>>
        /\ pc = "wave" /\ pc' = "admit" /\ wave \in 1 .. Len(shape)
        /\ notRun' = notRun \cup (Readers \cap Deferred(shape)) /\ ran = {}
    BY <1>5 DEF BuildFails, HoldReaders, OpenWave, TypeOK, Where, FlowOK
  <2>2. \A s \in Seats : /\ s \in Readers \cap Deferred(shape) => outcome'[s] \notin {"none", "completed"}
                         /\ s \notin Readers \cap Deferred(shape) => outcome'[s] = outcome[s]
    BY <1>5, RecordedFacts, SMTT(30) DEF BuildFails, HoldReaders, TypeOK, Outcomes
  <2>3. ListedAreCommits'
    BY <1>b, <1>c, <2>1 DEF Review, ListedAreCommits
  <2>4. InView'
    <3>1. \A s \in shape[wave] \cap Deferred(shape) : outcome'[s] # "none"
      BY <1>t, <2>1, <2>2 DEF Readers
    <3> QED
      BY <1>c, <2>1, <3>1 DEF InView
  <2>5. ReviewersSawTheWork'
    BY <1>b, <1>c, <2>1 DEF Review, ReviewersSawTheWork
  <2>6. ReportOK'
    <3>1. \A s \in Readers : step[s] = "idle" /\ s \in Seats
      BY <1>t, <2>1 DEF Where, AheadIdle, Readers
    <3>2. \A s \in notRun' : s \notin runnable \/ (step[s] = "idle" /\ outcome'[s] # "none")
      BY <2>1, <2>2, <3>1 DEF Review, ReportOK, TypeOK
    <3>3. \A s \in Seats : outcome'[s] = "completed" => s \in runnable
      BY <2>2 DEF Review, ReportOK
    <3> QED
      BY <1>c, <1>s, <2>1, <3>2, <3>3 DEF Review, ReportOK
  <2> QED
    BY <2>3, <2>4, <2>5, <2>6 DEF Review
<1>6. CASE BuildSucceeds
  <2>1. /\ UNCHANGED <<ran, notRun, runnable, setupFailed, committed, sha, outcome, step, turn, status, wave>>
        /\ pc = "wave" /\ pc' = "admit" /\ wave \in 1 .. Len(shape)
    BY <1>6 DEF BuildSucceeds, OpenWave, TypeOK
  <2>2. \A s \in Seats : seen'[s] = IF s \in Deferred(shape) \ setupFailed THEN committed ELSE seen[s]
    BY <1>6 DEF BuildSucceeds
  <2>3. ListedAreCommits'
    BY <1>b, <1>c, <2>1 DEF Review, ListedAreCommits
  <2>4. InView'
    <3>1. ran = {}
      BY <2>1 DEF Where, FlowOK
    <3> QED
      BY <1>c, <1>t, <2>1, <2>2, <3>1 DEF InView
  <2>5. ReviewersSawTheWork'
    <3> SUFFICES ASSUME NEW i \in 1 .. Len(shape), NEW r \in shape[i] \cap Deferred(shape), r \in Completed
                 PROVE  CommittedBefore(i) \subseteq seen'[r]
      BY <1>b, <1>c DEF ReviewersSawTheWork
    <3>1. i <= wave /\ r \in Seats
      BY <1>n, <1>t
    <3>2. CommittedBefore(i) \subseteq CommittedBefore(wave)
      BY <1>t, <3>1 DEF CommittedBefore
    <3>3. CommittedBefore(i) \subseteq committed
      BY <2>1, <3>2 DEF Review, ListedAreCommits
    <3>4. CommittedBefore(i) \subseteq seen[r]
      BY DEF Review, ReviewersSawTheWork
    <3> QED
      BY <2>2, <3>1, <3>3, <3>4
  <2>6. ReportOK'
    BY <1>c, <2>1 DEF Review, ReportOK
  <2> QED
    BY <2>3, <2>4, <2>5, <2>6 DEF Review
<1>7. CASE NoSnapshotNeeded
  <2>1. /\ UNCHANGED <<ran, notRun, runnable, setupFailed, committed, sha, seen, outcome, step, turn, status, wave>>
        /\ pc = "wave" /\ pc' = "admit" /\ ~NeedsSnapshot
    BY <1>7 DEF NoSnapshotNeeded, OpenWave
  <2>2. shape[wave] \cap Deferred(shape) = {}
    BY <1>t, <2>1 DEF NeedsSnapshot, Readers
  <2>3. InView'
    BY <1>c, <2>1, <2>2 DEF Review, InView
  <2> QED
    BY <1>b, <1>c, <2>1, <2>3 DEF Review, ListedAreCommits, ReviewersSawTheWork, ReportOK
<1>8. CASE Admit
  <2>1. /\ UNCHANGED <<notRun, runnable, setupFailed, committed, seen, outcome, turn, status, wave>>
        /\ pc = "admit" /\ pc' = "running" /\ ran' = Waiting /\ wave \in 1 .. Len(shape)
    BY <1>8 DEF Admit, TypeOK
  <2>2. \A s \in Waiting : s \in shape[wave] /\ outcome[s] = "none" /\ turn[s] = 0 /\ s \in Seats
    BY <1>t, <2>1 DEF Waiting, Where, AheadIdle, SeatOK
  <2>3. \A s \in Seats : step'[s] = IF s \in Waiting THEN "start" ELSE step[s]
    BY <1>8 DEF Admit
  <2>4. InView'
    BY <1>c, <2>1, <2>2 DEF Review, InView
  <2>5. ReportOK'
    <3>1. \A s \in notRun : s \notin runnable \/ (step'[s] = "idle" /\ outcome[s] # "none")
      BY <2>2, <2>3 DEF Review, ReportOK, TypeOK
    <3>2. \A s \in Seats : sha'[s] # 0 => s \in Deferred(shape)
      BY <1>8 DEF Admit, Review, ReportOK
    <3> QED
      BY <1>c, <2>1, <3>1, <3>2 DEF Review, ReportOK
  <2> QED
    BY <1>b, <1>c, <2>1, <2>4, <2>5 DEF Review, ListedAreCommits, ReviewersSawTheWork
<1>9. CASE \E s \in Seats : Settle(s)
  BY <1>0, <1>9, <1>s DEF Settle, AllBack
<1>10. CASE CloseWave
  <2>1. /\ UNCHANGED <<notRun, runnable, setupFailed, sha, seen, outcome, step, turn, status>>
        /\ pc = "running" /\ pc' = "wave" /\ ran' = {} /\ wave' = wave + 1 /\ wave \in 1 .. Len(shape)
        /\ committed' = committed \cup (ran \cap Completed \cap commits)
    BY <1>10 DEF CloseWave, AllBack, TypeOK
  <2>2. CommittedBefore(wave + 1) \subseteq committed'
    <3> SUFFICES ASSUME NEW b, b \in CommittedBefore(wave + 1) PROVE b \in committed'
      OBVIOUS
    <3>1. PICK j \in 1 .. wave : b \in shape[j] /\ b \in Completed \cap commits
      BY <1>t DEF CommittedBefore
    <3>2. CASE j = wave
      <4>1. b \in ran
        BY <1>n, <2>1, <3>1, <3>2
      <4> QED
        BY <2>1, <3>1, <4>1
    <3>3. CASE j # wave
      <4>1. b \in CommittedBefore(wave)
        BY <1>t, <3>1, <3>3 DEF CommittedBefore
      <4> QED
        BY <2>1, <4>1 DEF Review, ListedAreCommits
    <3> QED
      BY <3>2, <3>3
  <2>3. ListedAreCommits'
    BY <1>b, <1>c, <2>1, <2>2 DEF Review, ListedAreCommits
  <2>4. InView'
    BY <2>1 DEF InView
  <2>5. ReviewersSawTheWork'
    BY <1>b, <1>c, <2>1 DEF Review, ReviewersSawTheWork
  <2>6. ReportOK'
    BY <1>c, <1>s, <2>1 DEF Review, ReportOK
  <2> QED
    BY <2>3, <2>4, <2>5, <2>6 DEF Review
<1>11. CASE UNCHANGED vars
  BY <1>11, <1>b, <1>c DEF vars, Review, ListedAreCommits, InView, ReviewersSawTheWork, ReportOK
<1> QED
  BY <1>1, <1>2, <1>3, <1>4, <1>5, <1>6, <1>7, <1>8, <1>9, <1>10, <1>11 DEF Next, Orchestrate

(* In every run, a reader that completed on the snapshot saw all that was    *)
(* committed in the waves before its own.                                    *)
THEOREM ReviewsAreCurrent == Spec => []ReviewersSawTheWork
<1>1. Init => TypeOK /\ Where /\ Review
  BY TypeInit, WhereInit, ReviewInit
<1>2. (TypeOK /\ Where /\ Review) /\ [Next]_vars => (TypeOK /\ Where /\ Review)'
  BY TypeStep, WhereStep, ReviewStep
<1>3. Review => ReviewersSawTheWork
  BY DEF Review
<1> QED
  BY <1>1, <1>2, <1>3, PTL DEF Spec

(* When writers precede readers, what a passing gate lets into the base has  *)
(* been seen by a verifier of another vendor, for every team and plan.       *)
THEOREM MergesAreReviewed == Spec => []MergeWasReviewed
<1>1. Init => TypeOK /\ Where /\ Review
  BY TypeInit, WhereInit, ReviewInit
<1>2. (TypeOK /\ Where /\ Review) /\ [Next]_vars => (TypeOK /\ Where /\ Review)'
  BY TypeStep, WhereStep, ReviewStep
<1>3. TypeOK /\ Where /\ Review => MergeWasReviewed
  <2> SUFFICES ASSUME TypeOK, Where, Review, status = "completed", GatePasses(status), WritersFirst,
                      NEW b \in committed \cap Coders
               PROVE  \E v \in Verifiers \cap Completed : Harness[v] # Harness[b] /\ b \in seen[v]
    BY DEF MergeWasReviewed
  <2>1. b \in Completed /\ b \in commits /\ b \in Writers /\ b \in Seats /\ outcome[b] = "completed"
    BY DEF Review, ListedAreCommits, Completed
  <2>2. b \in runnable /\ step[b] = "back" /\ b \notin notRun
    BY <2>1 DEF Review, ReportOK, Where, SeatOK
  <2>3. b \in Crew(shape)
    BY <2>1 DEF Review, ListedAreCommits
  <2>4. b \in Graded
    BY <2>1, <2>2, <2>3 DEF Graded
  <2>5. PICK v \in Counting : Harness[v] # Harness[b]
    BY <2>4 DEF GatePasses, CrossVerified
  <2>6. v \in Verifiers /\ v \in Crew(shape) /\ outcome[v] # "none" /\ sha[v] # 0 /\ v \in Seats
    BY RequestAssumption DEF Counting, RanVerifiers, SnapshotKnown
  <2>7. v \in Completed /\ v \in Deferred(shape)
    BY <2>6 DEF Review, ReportOK, Completed
  <2>8. PICK i \in 1 .. Len(shape) : b \in shape[i]
    BY <2>3 DEF Crew
  <2>9. PICK j \in 1 .. Len(shape) : v \in shape[j]
    BY <2>6 DEF Crew
  <2>10. i < j
    <3>1. ~(j <= i)
      BY <2>1, <2>6, <2>8, <2>9, RequestAssumption DEF WritersFirst
    <3> QED
      BY <3>1
  <2>11. b \in CommittedBefore(j)
    BY <2>1, <2>8, <2>10 DEF CommittedBefore
  <2>12. b \in seen[v]
    BY <2>7, <2>9, <2>11 DEF Review, ReviewersSawTheWork
  <2> QED
    BY <2>5, <2>6, <2>7, <2>12
<1> QED
  BY <1>1, <1>2, <1>3, PTL DEF Spec

-------------------------------------------------------------------------------
(* A run gets nearer to its end with every step.                             *)

(* What is ahead of a run: its waves; in a wave, its phases; while it runs,  *)
(* the steps of each admitted seat and the tickets to settle.                *)
PhaseOf == [preflight |-> 4, wave |-> 3, admit |-> 2, running |-> 1, done |-> 0]
Phase == PhaseOf[pc]
AfterStep == [start |-> 2, cli |-> 3, worked |-> 1]
SeatAhead(s) ==
  IF step[s] \in {"idle", "back"} THEN 0 ELSE 2 * (Turns(s) - turn[s]) + AfterStep[step[s]]

(* A seat is asked no more often than its assignment has turns.              *)
TurnsOK ==
  \A s \in Seats : turn[s] <= Turns(s) /\ (step[s] = "start" => turn[s] < Turns(s))

Measured ==
  /\ wave \in 1 .. Len(shape) + 1 /\ Phase \in 0 .. 4
  /\ Cardinality(unsettled) \in 0 .. Cardinality(Seats)
  /\ \A s \in Seats : SeatAhead(s) \in 0 .. 2 * Turns(s) + 3

SeatFalls(s) ==
  /\ SeatAhead(s)' < SeatAhead(s)
  /\ \A r \in Seats \ {s} : SeatAhead(r)' = SeatAhead(r)
  /\ unsettled' = unsettled

TicketFalls ==
  /\ Cardinality(unsettled') < Cardinality(unsettled)
  /\ \A r \in Seats : SeatAhead(r)' = SeatAhead(r)

(* A wave passes, or a phase of it, or a step of one seat, or a ticket.      *)
Descends ==
  \/ wave' > wave
  \/ wave' = wave /\ Phase' < Phase
  \/ wave' = wave /\ Phase' = Phase /\ (TicketFalls \/ \E s \in Seats : SeatFalls(s))

LEMMA TurnsFact == \A s : Turns(s) \in {1, 2}
  BY DEF Turns

LEMMA TurnsSeat ==
  ASSUME TypeOK, TurnsOK, NEW s \in Seats, SeatStep(s)
  PROVE  TurnsOK' /\ Descends
<1> USE DEF flow
<1>1. Moved(s) /\ step[s] \in {"start", "cli", "worked"} /\ turn[s] \in Nat /\ turn[s] <= Turns(s)
  BY SeatMoves DEF Moved, TypeOK, TurnsOK
<1>2. step[s] = "start" => turn[s] < Turns(s)
  BY DEF TurnsOK
<1>3. turn'[s] <= Turns(s) /\ (step'[s] = "start" => turn'[s] < Turns(s))
  BY <1>1, <1>2, TurnsFact DEF Moved
<1>4. TurnsOK'
  BY <1>1, <1>3 DEF Moved, TurnsOK
<1>5. \A r \in Seats \ {s} : SeatAhead(r)' = SeatAhead(r)
  BY <1>1 DEF Moved, SeatAhead
<1>6. SeatAhead(s)' < SeatAhead(s)
  <2>1. CASE step'[s] = "back"
    BY <1>1, <2>1, TurnsFact DEF SeatAhead, AfterStep
  <2>2. CASE step[s] = "start" /\ step'[s] = "cli" /\ turn'[s] = turn[s] + 1
    BY <1>1, <2>2, TurnsFact DEF SeatAhead, AfterStep
  <2>3. CASE step[s] = "cli" /\ step'[s] \in {"start", "worked"} /\ turn'[s] = turn[s]
    BY <1>1, <2>3, TurnsFact DEF SeatAhead, AfterStep
  <2> QED
    BY <1>1, <2>1, <2>2, <2>3 DEF Moved
<1>7. wave' = wave /\ Phase' = Phase /\ unsettled' = unsettled
  BY <1>1 DEF Moved, Phase
<1> QED
  BY <1>4, <1>5, <1>6, <1>7 DEF SeatFalls, Descends

LEMMA TurnsInit == Init => TurnsOK
  BY TurnsFact DEF Init, TurnsOK

LEMMA OrchestrateTurns ==
  ASSUME TypeOK, Where, TurnsOK, Orchestrate
  PROVE  TurnsOK'
<1> USE DEF seatVars
<1>1. CASE Admit
  <2>1. \A s \in Seats : step'[s] = IF s \in Waiting THEN "start" ELSE step[s]
    BY <1>1 DEF Admit
  <2>2. \A s \in Waiting : turn[s] = 0
    BY <1>1, WaveFacts DEF Admit, Waiting, Where, AheadIdle, SeatOK, TypeOK
  <2>3. turn' = turn
    BY <1>1 DEF Admit
  <2> QED
    BY <2>1, <2>2, <2>3, TurnsFact DEF TurnsOK
<1>2. CASE ~Admit
  <2>1. UNCHANGED <<step, turn>>
    BY <1>2 DEF Orchestrate, Refused, Setup, SkipWave, BuildFails, BuildSucceeds, NoSnapshotNeeded,
                Settle, CloseWave, FinishRun
  <2> QED
    BY <2>1 DEF TurnsOK
<1> QED
  BY <1>1, <1>2

LEMMA OrchestrateDescends ==
  ASSUME TypeOK, Orchestrate
  PROVE  Descends
<1> USE DEF seatVars
<1>w. wave \in Nat
  BY WaveFacts DEF TypeOK
<1>p. ASSUME wave' = wave, pc \in DOMAIN PhaseOf, pc' \in DOMAIN PhaseOf, PhaseOf[pc'] < PhaseOf[pc]
      PROVE  Descends
  BY <1>p DEF Phase, Descends
<1>1. CASE Refused \/ Setup
  <2>1. pc = "preflight" /\ pc' \in {"wave", "done"} /\ wave' = wave
    BY <1>1 DEF Refused, Setup, Finish
  <2> QED
    BY <1>p, <2>1 DEF PhaseOf
<1>2. CASE SkipWave \/ CloseWave
  <2>1. wave' = wave + 1
    BY <1>2 DEF SkipWave, CloseWave
  <2> QED
    BY <1>w, <2>1 DEF Descends
<1>3. CASE BuildFails \/ BuildSucceeds \/ NoSnapshotNeeded
  <2>1. pc = "wave" /\ pc' = "admit" /\ wave' = wave
    BY <1>3 DEF BuildFails, BuildSucceeds, NoSnapshotNeeded, OpenWave
  <2> QED
    BY <1>p, <2>1 DEF PhaseOf
<1>4. CASE Admit
  <2>1. pc = "admit" /\ pc' = "running" /\ wave' = wave
    BY <1>4 DEF Admit
  <2> QED
    BY <1>p, <2>1 DEF PhaseOf
<1>5. CASE \E s \in Seats : Settle(s)
  <2> PICK s \in Seats : Settle(s)
    BY <1>5
  <2>1. /\ unsettled' = unsettled \ {s} /\ s \in unsettled
        /\ UNCHANGED <<pc, wave, step, turn>>
    BY DEF Settle
  <2>2. IsFiniteSet(unsettled)
    BY RequestAssumption, FS_Subset DEF TypeOK
  <2>3. Cardinality(unsettled') < Cardinality(unsettled)
    <3>1. Cardinality(unsettled \ {s}) = Cardinality(unsettled) - 1 /\ Cardinality(unsettled) \in Nat
      BY <2>1, <2>2, FS_RemoveElement, FS_CardinalityType
    <3> QED
      BY <2>1, <3>1
  <2>4. \A r \in Seats : SeatAhead(r)' = SeatAhead(r)
    BY <2>1 DEF SeatAhead
  <2>5. Phase' = Phase
    BY <2>1 DEF Phase
  <2> QED
    BY <2>1, <2>3, <2>4, <2>5 DEF TicketFalls, Descends
<1>6. CASE FinishRun
  <2>1. pc = "wave" /\ pc' = "done" /\ wave' = wave
    BY <1>6 DEF FinishRun, Finish
  <2> QED
    BY <1>p, <2>1 DEF PhaseOf
<1> QED
  BY <1>1, <1>2, <1>3, <1>4, <1>5, <1>6 DEF Orchestrate

LEMMA MeasuredAlways == ASSUME TypeOK, TurnsOK PROVE Measured
<1>1. Cardinality(unsettled) \in 0 .. Cardinality(Seats)
  <2>1. unsettled \subseteq Seats
    BY DEF TypeOK
  <2>2. IsFiniteSet(unsettled) /\ Cardinality(unsettled) <= Cardinality(Seats)
    BY <2>1, RequestAssumption, FS_Subset
  <2> QED
    BY <2>2, RequestAssumption, FS_CardinalityType
<1>2. ASSUME NEW s \in Seats PROVE SeatAhead(s) \in 0 .. 2 * Turns(s) + 3
  <2>1. turn[s] \in Nat /\ turn[s] <= Turns(s) /\ step[s] \in Steps
    BY DEF TypeOK, TurnsOK
  <2>2. /\ step[s] = "start" => turn[s] < Turns(s)
        /\ step[s] = "cli" => SeatAhead(s) = 2 * (Turns(s) - turn[s]) + 3
    BY DEF SeatAhead, AfterStep, TurnsOK
  <2> QED
    BY <2>1, <2>2, TurnsFact DEF SeatAhead, AfterStep, Steps
<1>3. Phase \in 0 .. 4
  BY DEF TypeOK, Phase, PhaseOf
<1> QED
  BY <1>1, <1>2, <1>3 DEF TypeOK, Measured

LEMMA TurnsAlways == Spec => [](TypeOK /\ TurnsOK)
<1>1. Init => TypeOK /\ Where /\ TurnsOK
  BY TypeInit, WhereInit, TurnsInit
<1>2. (TypeOK /\ Where /\ TurnsOK) /\ [Next]_vars => (TypeOK /\ Where /\ TurnsOK)'
  <2> SUFFICES ASSUME TypeOK, Where, TurnsOK, [Next]_vars PROVE TurnsOK'
    BY TypeStep, WhereStep
  <2>1. CASE UNCHANGED vars
    BY <2>1 DEF vars, seatVars, TurnsOK
  <2> QED
    BY <2>1, TurnsSeat, OrchestrateTurns DEF Next
<1> QED
  BY <1>1, <1>2, PTL DEF Spec

(* The safety half of RunEnds, for every team and plan: what is ahead of a   *)
(* run is bounded, and every step, of the executor or of a seat, makes it    *)
(* less.  No run goes on for ever, whatever git and the CLIs answer.         *)
THEOREM RunsDescend == Spec => []Measured /\ [][shape' = shape /\ Descends]_vars
<1>1. TypeOK /\ TurnsOK => Measured
  BY MeasuredAlways
<1>2. TypeOK /\ TurnsOK /\ [Next]_vars => [shape' = shape /\ Descends]_vars
  <2> SUFFICES ASSUME TypeOK, TurnsOK, Next PROVE shape' = shape /\ Descends
    OBVIOUS
  <2>1. CASE Orchestrate
    <3>1. shape' = shape
      BY <2>1 DEF Orchestrate, Refused, Setup, SkipWave, BuildFails, BuildSucceeds, NoSnapshotNeeded,
                  Admit, Settle, CloseWave, FinishRun, request
    <3> QED
      BY <2>1, <3>1, OrchestrateDescends
  <2>2. ASSUME NEW s \in Seats, SeatStep(s) PROVE shape' = shape /\ Descends
    BY <2>2, SeatMoves, TurnsSeat DEF Moved, request
  <2> QED
    BY <2>1, <2>2 DEF Next
<1> QED
  BY <1>1, <1>2, TurnsAlways, PTL DEF Spec
===============================================================================
