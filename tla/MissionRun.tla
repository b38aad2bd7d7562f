------------------------------ MODULE MissionRun ------------------------------
(***************************************************************************)
(* One run of a mission: MissionRuntime.run of                             *)
(* src/mission/missionRuntime.ts, with the task table (organization.ts),   *)
(* the supervisor's advice (supervisor.ts, failureDetection.ts), the       *)
(* approval gate (approvals.ts) and the lifecycle table (types.ts).        *)
(*                                                                         *)
(* The run is one asynchronous function.  Between two awaits nothing else  *)
(* runs: a person pauses, resumes, cancels or decides only while the run   *)
(* sleeps, waits for an approval or waits for a harness (Waiting).  What a *)
(* harness delivers and what the evaluation says of it is a choice, as is  *)
(* whether a budget ceiling is found passed, whether the supervisor finds  *)
(* the mission stalled, and in which order the tasks of a wave are taken.  *)
(*                                                                         *)
(* Of the repair ladder a task reaches two rungs (TwoRungs), RETRY and     *)
(* ENRICH_CONTEXT, and both put the task back and run it again; the rungs  *)
(* after them are not modelled.                                            *)
(***************************************************************************)
EXTENDS Integers, FiniteSets

CONSTANTS
  Plan,        \* the tasks of the plan
  Extra,       \* the tasks a reorganization may add
  Deps,        \* dependsOn
  Gated,       \* the tasks whose gate asks a person
  Retries,     \* the values maxRetriesPerTask may have
  MaxTurns     \* iterations of the loop: 200

ASSUME MissionAssumption ==
  /\ IsFiniteSet(Plan) /\ Plan # {} /\ IsFiniteSet(Extra) /\ Plan \cap Extra = {}
  /\ Deps \in [Plan \cup Extra -> SUBSET (Plan \cup Extra)]
  /\ Gated \subseteq Plan \cup Extra
  /\ Retries \subseteq Nat \ {0} /\ MaxTurns \in Nat

Tasks == Plan \cup Extra

VARIABLES
  policy,               \* the mission: maxRetriesPerTask, allowHarnessSwitch, allowReorganization
  status,               \* mission.status
  paused, cancelled,    \* the flags a person sets
  pc, turn,             \* where run is, and its iteration
  queue, advice, stall, \* the rest of the wave; switches to execute; the pause advised for a stall
  advised,              \* tasks a harness switch was recommended for: one per condition
  cur, nested, from,    \* the task in hand, whether its repair is in flight, where to go on
  live, state, attempts,\* the task table
  count, exhausted,     \* repairCount, repairExhausted
  grade, doubt,         \* what the task's last delivery was judged; an artifact or run not verified
  runs, granted,        \* invocations of a harness for a task; approvals given for it
  everPaused, capped    \* PAUSED was entered; a budget ceiling ended the loop

env == <<policy, paused, cancelled>>
plan == <<queue, advice, stall, advised>>
place == <<cur, nested, from>>
table == <<live, state, attempts>>
ladder == <<count, exhausted>>
result == <<grade, doubt>>
history == <<runs, granted, everPaused, capped>>
vars == <<env, status, pc, turn, plan, place, table, ladder, result, history>>

-------------------------------------------------------------------------------
(* Lifecycle and task table.                                                 *)

Legal_BlockedIsFinal ==
  [RUNNING |-> {"PAUSED", "BLOCKED", "REPAIRING", "VERIFYING", "COMPLETED"},
   PAUSED |-> {"RUNNING", "BLOCKED"},
   BLOCKED |-> {"RUNNING", "PAUSED"},
   COMPLETED |-> {}]

(* MISSION_TRANSITIONS, as far as a run that has started uses it.            *)
Legal ==
  [RUNNING |-> {"PAUSED", "BLOCKED", "REPAIRING", "VERIFYING", "COMPLETED"},
   PAUSED |-> {"RUNNING", "BLOCKED"},
   BLOCKED |-> {"REPAIRING", "RUNNING", "PAUSED"},
   COMPLETED |-> {}]

CanTransition(to) == status = to \/ to \in Legal[status]

Over == {t \in live : state[t] = "DONE"}
IsDone == Over = live
Wave == {t \in live : state[t] = "PENDING" /\ Deps[t] \subseteq Over}
HasUnrecoverable == \E t \in live : state[t] = "FAILED" /\ attempts[t] >= policy.max

Mark(t, s) == state' = [state EXCEPT ![t] = s]

Init ==
  /\ policy \in [max : Retries, switch : BOOLEAN, reorganize : BOOLEAN]
  /\ status = "RUNNING" /\ paused = FALSE /\ cancelled = FALSE
  /\ pc = "loop" /\ turn = 0
  /\ queue = {} /\ advice = {} /\ stall = "none" /\ advised = {}
  /\ cur = (CHOOSE t \in Plan : TRUE) /\ nested = FALSE /\ from = "wave"
  /\ live = Plan /\ state = [t \in Tasks |-> "PENDING"] /\ attempts = [t \in Tasks |-> 0]
  /\ count = [t \in Tasks |-> 0] /\ exhausted = {}
  /\ grade = [t \in Tasks |-> "none"] /\ doubt = FALSE
  /\ runs = [t \in Tasks |-> 0] /\ granted = [t \in Tasks |-> 0]
  /\ everPaused = FALSE /\ capped = FALSE

-------------------------------------------------------------------------------
(* The loop.                                                                 *)

LoopHead_NoGuard ==
  /\ pc = "loop"
  /\ IF cancelled
     THEN pc' = "finish" /\ UNCHANGED turn
     ELSE pc' = "turn" /\ turn' = turn + 1
  /\ UNCHANGED <<env, status, plan, place, table, ladder, result, history>>

LoopHead ==
  /\ pc = "loop"
  /\ IF cancelled \/ turn = MaxTurns
     THEN pc' = "finish" /\ UNCHANGED turn
     ELSE pc' = "turn" /\ turn' = turn + 1
  /\ UNCHANGED <<env, status, plan, place, table, ladder, result, history>>

(* The sleep of a paused mission ends with a resume or a cancel.             *)
Awake == pc = "turn" /\ (~paused \/ cancelled)

OverBudget ==
  /\ Awake
  /\ status' = "BLOCKED" /\ capped' = TRUE /\ pc' = "finish"
  /\ UNCHANGED <<env, turn, plan, place, table, ladder, result, runs, granted, everPaused>>

(* Detection: a task that failed twice gets a harness switch recommended, a  *)
(* mission in which nothing moved for three minutes a pause, each once.      *)
Repeated == {t \in live \ advised : state[t] \in {"FAILED", "BLOCKED"} /\ attempts[t] >= 2}
MayStall == turn > 1 /\ stall = "none" /\ \E t \in live : state[t] = "PENDING"

Detect ==
  /\ Awake
  /\ advice' = (IF policy.switch THEN Repeated ELSE {})
  /\ advised' = advised \cup advice'
  /\ stall' \in {stall} \cup (IF MayStall THEN {"raised"} ELSE {})
  /\ pc' = "advice"
  /\ UNCHANGED <<env, status, turn, queue, place, table, ladder, result, history>>

(* SWITCH_HARNESS is executed as one more repair of the task.                *)
SwitchHarness(t) ==
  /\ pc = "advice" /\ t \in advice
  /\ advice' = advice \ {t}
  /\ IF t \in exhausted
     THEN UNCHANGED <<pc, place>>
     ELSE cur' = t /\ from' = "advice" /\ pc' = "repair" /\ UNCHANGED nested
  /\ UNCHANGED <<env, status, turn, queue, stall, advised, table, ladder, result, history>>

(* PAUSE_MISSION sets the status and not the flag the loop sleeps on.        *)
PauseMission ==
  /\ pc = "advice" /\ advice = {} /\ stall = "raised"
  /\ status' = "PAUSED" /\ everPaused' = TRUE /\ stall' = "executed"
  /\ UNCHANGED <<env, pc, turn, queue, advice, advised, place, table, ladder, result,
                 runs, granted, capped>>

Advised == pc = "advice" /\ advice = {} /\ stall # "raised"

OpenWave ==
  /\ Advised /\ Wave # {}
  /\ queue' = Wave /\ pc' = "wave"
  /\ UNCHANGED <<env, status, turn, advice, stall, advised, place, table, ladder, result, history>>

AllDone ==
  /\ Advised /\ IsDone
  /\ pc' = "finish"
  /\ UNCHANGED <<env, status, turn, plan, place, table, ladder, result, history>>

Stuck == Advised /\ ~IsDone /\ Wave = {}

(* A failed task makes the diagnosis ask for a reorganization.  It passes    *)
(* the gates of proposeMutation or is refused; either way the loop goes on.  *)
(* The roles the plan lacks are added behind its last step, once.            *)
Reorganize_Restart ==
  /\ Stuck /\ HasUnrecoverable /\ policy.reorganize
  /\ \/ status' = "BLOCKED" /\ UNCHANGED live
     \/ live' = live \cup Extra /\ UNCHANGED status
  /\ pc' = "loop" /\ turn' = 0
  /\ UNCHANGED <<env, plan, place, state, attempts, ladder, result, history>>

Reorganize ==
  /\ Stuck /\ HasUnrecoverable /\ policy.reorganize
  /\ \/ status' = "BLOCKED" /\ UNCHANGED live
     \/ live' = live \cup Extra /\ UNCHANGED status
  /\ pc' = "loop"
  /\ UNCHANGED <<env, turn, plan, place, state, attempts, ladder, result, history>>

(* No strategy is left for a failed task, or nothing is left to dispatch.    *)
(* (No approval is pending here: a gate is awaited inside its task, and left *)
(* open only by a cancel.)                                                   *)
GiveUp ==
  /\ Stuck /\ ~(HasUnrecoverable /\ policy.reorganize)
  /\ status' = IF HasUnrecoverable \/ \E t \in live : state[t] = "PENDING"
               THEN "BLOCKED" ELSE status
  /\ pc' = "finish"
  /\ UNCHANGED <<env, turn, plan, place, table, ladder, result, history>>

-------------------------------------------------------------------------------
(* executeTask.                                                              *)

(* A gate opened for a task is awaited before the task is dispatched, on a   *)
(* repair as on the first attempt.                                           *)
AskFirst_Once(t) == t \in Gated /\ runs[t] = 0

AskFirst(t) == t \in Gated

Enter(t) == cur' = t /\ pc' = IF AskFirst(t) THEN "gate" ELSE "dispatch"

NextOfWave ==
  /\ pc = "wave"
  /\ IF queue = {} \/ cancelled
     THEN pc' = "loop" /\ UNCHANGED <<queue, place>>
     ELSE \E t \in queue :
            /\ queue' = queue \ {t} /\ from' = "wave" /\ Enter(t) /\ UNCHANGED nested
  /\ UNCHANGED <<env, status, turn, advice, stall, advised, table, ladder, result, history>>

Return == pc' = from /\ nested' = FALSE /\ UNCHANGED <<cur, from>>

Approve ==
  /\ pc = "gate"
  /\ granted' = [granted EXCEPT ![cur] = @ + 1]
  /\ pc' = "dispatch"
  /\ UNCHANGED <<env, status, turn, plan, place, table, ladder, result, runs, everPaused, capped>>

(* Rejected, timed out, or given up because the mission was cancelled:       *)
(* silence is never consent.                                                 *)
Denied ==
  /\ pc = "gate"
  /\ Mark(cur, "BLOCKED") /\ Return
  /\ UNCHANGED <<env, status, turn, plan, live, attempts, ladder, result, history>>

Invoke ==
  /\ pc = "dispatch"
  /\ Mark(cur, "RUNNING")
  /\ runs' = [runs EXCEPT ![cur] = @ + 1]
  /\ pc' = "harness"
  /\ UNCHANGED <<env, status, turn, plan, place, live, attempts, ladder, result,
                 granted, everPaused, capped>>

(* A failure is repaired, unless its own repair is what just ran the task.   *)
Failed_AlwaysRepair ==
  /\ Mark(cur, "FAILED")
  /\ attempts' = [attempts EXCEPT ![cur] = @ + 1]
  /\ IF cur \in exhausted THEN Return ELSE pc' = "repair" /\ UNCHANGED place

Failed ==
  /\ Mark(cur, "FAILED")
  /\ attempts' = [attempts EXCEPT ![cur] = @ + 1]
  /\ IF nested \/ cur \in exhausted THEN Return ELSE pc' = "repair" /\ UNCHANGED place

NoHarness ==
  /\ pc = "dispatch"
  /\ Failed
  /\ UNCHANGED <<env, status, turn, plan, live, ladder, result, history>>

(* The delivery is verified, or delivered with checks that could not be      *)
(* measured, or made by the labelled simulation.                             *)
Deliver_Forget(what) ==
  /\ pc = "harness"
  /\ Mark(cur, "DONE")
  /\ grade' = [grade EXCEPT ![cur] = what]
  /\ doubt' = (what # "verified")
  /\ Return
  /\ UNCHANGED <<env, status, turn, plan, live, attempts, ladder, history>>

Deliver(what) ==
  /\ pc = "harness"
  /\ Mark(cur, "DONE")
  /\ grade' = [grade EXCEPT ![cur] = what]
  /\ doubt' = (doubt \/ what # "verified")
  /\ Return
  /\ UNCHANGED <<env, status, turn, plan, live, attempts, ladder, history>>

(* The harness failed or a check that was measured did: what it left is an   *)
(* artifact too.                                                             *)
WorkFails ==
  /\ pc = "harness"
  /\ Failed
  /\ doubt' = TRUE
  /\ UNCHANGED <<env, status, turn, plan, live, ladder, grade, history>>

-------------------------------------------------------------------------------
(* repair, repairInner.                                                      *)

(* The bound on all repairs, max times the number of tasks, is never the     *)
(* one that decides: each task stays within its own.                         *)
OutOfRepairs(t) == count[t] + 1 > policy.max

RepairExhausted ==
  /\ pc = "repair" /\ OutOfRepairs(cur)
  /\ count' = [count EXCEPT ![cur] = @ + 1]
  /\ exhausted' = exhausted \cup {cur}
  /\ status' = "BLOCKED"
  /\ Return
  /\ UNCHANGED <<env, turn, plan, table, result, history>>

(* To REPAIRING and back to RUNNING before anyone can look; the task is put  *)
(* back and executed again, with its repair still in flight.                 *)
RepairRung ==
  /\ pc = "repair" /\ ~OutOfRepairs(cur) /\ CanTransition("REPAIRING")
  /\ count' = [count EXCEPT ![cur] = @ + 1]
  /\ status' = "RUNNING"
  /\ Mark(cur, "PENDING") /\ nested' = TRUE
  /\ Enter(cur) /\ UNCHANGED from
  /\ UNCHANGED <<env, turn, plan, live, attempts, exhausted, result, history>>

(* A paused mission cannot go to REPAIRING: transition throws out of run.    *)
RepairThrows ==
  /\ pc = "repair" /\ ~OutOfRepairs(cur) /\ ~CanTransition("REPAIRING")
  /\ count' = [count EXCEPT ![cur] = @ + 1]
  /\ pc' = "threw"
  /\ UNCHANGED <<env, status, turn, plan, place, table, exhausted, result, history>>

-------------------------------------------------------------------------------
(* finish.                                                                   *)

Verified == ~doubt

Finish ==
  /\ pc = "finish"
  /\ IF ~IsDone
     THEN /\ status' = IF status \in {"BLOCKED", "PAUSED"} THEN status ELSE "BLOCKED"
          /\ pc' = "ended"
     ELSE IF ~CanTransition("VERIFYING") THEN pc' = "threw" /\ UNCHANGED status
     ELSE /\ status' = IF Verified THEN "COMPLETED" ELSE "BLOCKED"
          /\ pc' = "ended"
  /\ UNCHANGED <<env, turn, plan, place, table, ladder, result, history>>

-------------------------------------------------------------------------------
(* People.                                                                   *)

Waiting == pc \in {"gate", "harness"} \/ (pc = "turn" /\ paused /\ ~cancelled)

Pause ==
  /\ Waiting /\ ~paused
  /\ paused' = TRUE
  /\ status' = IF CanTransition("PAUSED") THEN "PAUSED" ELSE status
  /\ everPaused' = TRUE
  /\ UNCHANGED <<policy, cancelled, pc, turn, plan, place, table, ladder, result,
                 runs, granted, capped>>

Resume ==
  /\ Waiting /\ (paused \/ status = "PAUSED")
  /\ paused' = FALSE
  /\ status' = IF CanTransition("RUNNING") THEN "RUNNING" ELSE status
  /\ UNCHANGED <<policy, cancelled, pc, turn, plan, place, table, ladder, result, history>>

Cancel ==
  /\ Waiting /\ ~cancelled
  /\ cancelled' = TRUE
  /\ UNCHANGED <<policy, paused, status, pc, turn, plan, place, table, ladder, result, history>>

-------------------------------------------------------------------------------
Step ==
  \/ LoopHead \/ OverBudget \/ Detect \/ (\E t \in Tasks : SwitchHarness(t)) \/ PauseMission
  \/ OpenWave \/ AllDone \/ Reorganize \/ GiveUp \/ NextOfWave \/ Denied \/ Invoke \/ NoHarness
  \/ (\E what \in {"verified", "unmeasured", "simulated"} : Deliver(what)) \/ WorkFails
  \/ RepairExhausted \/ RepairRung \/ RepairThrows \/ Finish

Person == Approve \/ Pause \/ Resume \/ Cancel

Next == Step \/ Person

Spec == Init /\ [][Next]_vars

(* The event loop takes the steps of the run; an approval times out after    *)
(* approvalTimeoutMs, and a harness after the timeout of its contract.       *)
FairSpec == Spec /\ WF_vars(Step)

-------------------------------------------------------------------------------
TaskStates == {"PENDING", "RUNNING", "FAILED", "BLOCKED", "DONE"}
Places == {"loop", "turn", "advice", "wave", "gate", "dispatch", "harness", "repair", "finish",
           "ended", "threw"}

(* The type invariant.                                                       *)
TypeOK ==
  /\ policy \in [max : Retries, switch : BOOLEAN, reorganize : BOOLEAN]
  /\ status \in DOMAIN Legal /\ paused \in BOOLEAN /\ cancelled \in BOOLEAN
  /\ pc \in Places /\ turn \in 0 .. MaxTurns
  /\ queue \subseteq live /\ advice \subseteq live /\ advised \subseteq live
  /\ stall \in {"none", "raised", "executed"}
  /\ cur \in live /\ nested \in BOOLEAN /\ from \in {"wave", "advice"}
  /\ live \in {Plan, Tasks}
  /\ state \in [Tasks -> TaskStates] /\ attempts \in [Tasks -> Nat]
  /\ count \in [Tasks -> Nat] /\ exhausted \subseteq live
  /\ grade \in [Tasks -> {"none", "verified", "unmeasured", "simulated"}] /\ doubt \in BOOLEAN
  /\ runs \in [Tasks -> Nat] /\ granted \in [Tasks -> Nat]
  /\ everPaused \in BOOLEAN /\ capped \in BOOLEAN

-------------------------------------------------------------------------------
(* What a run promises.                                                      *)

(* A completed mission is one whose every task was delivered and verified,   *)
(* at its first attempt that left anything: "No fake success" (finish).      *)
NoFakeSuccess ==
  status = "COMPLETED" => \A t \in live : state[t] = "DONE" /\ grade[t] = "verified"

(* Each invocation of a harness for a gated task spends an approval given    *)
(* for it: a repair or a late resume does not run on an old one, and silence *)
(* never counts as one (requestApproval, waitFor).                           *)
EachRunApproved == \A t \in Gated : runs[t] <= granted[t]

(* A task is run at most three times and reaches two rungs of the ladder,    *)
(* however large the retry budget: once in its wave, once by the repair of   *)
(* that failure, once by the supervisor's switch (repair, recommend).        *)
TwoRungs == \A t \in Tasks : runs[t] <= 3 /\ count[t] <= 2

(* run rejects, leaving the mission without an end, only if the mission was  *)
(* paused or a budget ceiling was passed (transition, finish).               *)
RejectsOnlyIfStopped == pc = "threw" => everPaused \/ capped

(* A run ends, unless it is paused again and again or for good: refused      *)
(* reorganizations, failing tasks and unanswered approvals do not keep it.   *)
RunEnds == <>(pc \in {"ended", "threw"}) \/ []<>paused
===============================================================================
