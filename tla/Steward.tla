------------------------------- MODULE Steward --------------------------------
(***************************************************************************)
(* The desktop steward: typed runs and heartbeat runs over one human gate. *)
(* src/ui/store.ts (send, decideGate, wakeNow, makeGate), the initiative   *)
(* engine of src/vh19/initiative.ts and what a run of askVH19 may do       *)
(* (src/vh19/generalist.ts, initiativeBridge.ts).                          *)
(*                                                                         *)
(* A run is a chain of awaits: routing, the owner's decision, the work.    *)
(* Nothing keeps runs from overlapping except that one typed run is made   *)
(* at a time.  All of them show their ask in the one gate slot of the UI   *)
(* store.  What a model, a provider or a person answers is a choice.       *)
(*                                                                         *)
(* Time is counted in ticks.  A subject is the text, goal or fact it began *)
(* with and how often "re-check: " was put in front of it; its cut at 90   *)
(* characters is left out.                                                 *)
(***************************************************************************)
EXTENDS Integers, Sequences, FiniteSets

CONSTANTS
  Typed,             \* the run of a typed message
  Beats,             \* the heartbeat runs in flight at once
  None,              \* nothing on display at the gate
  Levels,            \* the autonomy levels the owner sets
  MaxActsPerHour,    \* LIMITS
  MaxActsPerDay,
  MaxFollowUpDepth,
  BreakerFailures,
  Hour, Day,         \* the two windows of the caps
  Window,            \* idempotencyWindowMs, and the heartbeat's interval
  Cooldown,          \* breakerCooldownMs
  BriefGap,          \* six hours between briefings
  MaxTime,           \* bound on the clock
  MaxLost            \* bound on the writes to storage that are lost

Runs == Beats \cup {Typed}

ASSUME StewardAssumption ==
  /\ IsFiniteSet(Beats)
  /\ Typed \notin Beats
  /\ None \notin Runs
  /\ Levels \subseteq 0..3
  /\ MaxActsPerHour \in Nat \ {0} /\ MaxActsPerDay \in Nat \ {0}
  /\ MaxFollowUpDepth \in Nat /\ BreakerFailures \in Nat \ {0}
  /\ Hour \in Nat /\ Day \in Nat /\ Hour < Day
  /\ Window \in Nat \ {0} /\ Cooldown \in Nat /\ BriefGap \in Nat
  /\ MaxTime \in Nat /\ MaxLost \in Nat

VARIABLES
  now,
  level,         \* state.level
  followUps,     \* state.followUps
  windowActs,    \* state.windowActs
  failures,      \* state.recentFailures
  breakerUntil,  \* state.breakerUntil; 0 for null
  lastBrief,     \* state.lastBrieftAt; -BriefGap - 1 for null
  stored,        \* the copy of the state in local storage
  lost,          \* writes to local storage that failed so far
  run,           \* each run: where it is, and the acts it has left
  gate           \* the run whose ask the store's gate slot holds

state == <<level, followUps, windowActs, failures, breakerUntil, lastBrief>>
initiative == <<state, stored, lost>>
vars == <<now, initiative, run, gate>>

Bases == {"text", "goal", "facts", "vault"}
Act == [kind : {"verify", "resume", "brief", "proposal"}, base : Bases,
        checks : Nat, at : Nat]
FollowUp == [base : Bases, checks : Nat, dueAt : Nat, depth : Nat]
Keys == {"verify", "resume", "brief", "proposal"} \X Bases \X Nat \X Nat
Stored == [level : 0..3, followUps : SUBSET FollowUp,
           windowActs : SUBSET [at : Nat, key : Keys],
           failures : 0..(BreakerFailures - 1), breakerUntil : Nat, lastBrief : Int]
Phases == {"idle", "start", "asking", "working", "denied", "ending"}
Run == [at : Phases, acts : Seq(Act)]

Idle == [at |-> "idle", acts |-> <<>>]

Key(kind, base, checks, at) == <<kind, base, checks, at \div Window>>

(* actKey, of an act decided on at the time it carries *)
ActKey(a) == Key(a.kind, a.base, a.checks, a.at)

-------------------------------------------------------------------------------
(* InitiativeState, without what is only shown. *)
Snapshot ==
  [level |-> level, followUps |-> followUps, windowActs |-> windowActs,
   failures |-> failures, breakerUntil |-> breakerUntil, lastBrief |-> lastBrief]

(* persist: the whole state is written; a write that fails is swallowed. *)
Persist ==
  \/ stored' = Snapshot' /\ UNCHANGED lost
  \/ lost < MaxLost /\ lost' = lost + 1 /\ UNCHANGED stored

Unwritten == UNCHANGED <<stored, lost>>

(* Variant: the count is not reset when the breaker trips. *)
ReportFailure_KeepsCount ==
  /\ failures' = failures + 1
  /\ breakerUntil' = IF failures + 1 >= BreakerFailures THEN now + Cooldown
                     ELSE breakerUntil

(* reportFailure *)
ReportFailure ==
  IF failures + 1 >= BreakerFailures
  THEN failures' = 0 /\ breakerUntil' = now + Cooldown
  ELSE failures' = failures + 1 /\ UNCHANGED breakerUntil

(* The key a follow-up is told apart by. *)
FollowUpKey(f) == Key("verify", f.base, f.checks, f.dueAt)

(* scheduleFollowUp *)
ScheduleFollowUp(f) ==
  IF /\ f.depth <= MaxFollowUpDepth
     /\ level >= 2
     /\ \A g \in followUps : FollowUpKey(g) # FollowUpKey(f)
  THEN followUps' = followUps \cup {f}
  ELSE UNCHANGED followUps

ReCheck(base, checks) ==
  [base |-> base, checks |-> checks + 1, dueAt |-> now + Window, depth |-> 1]

(* The recorded acts of the last hour and of the last day. *)
InHour == {w \in windowActs : w.at >= now - Hour}
InDay == {w \in windowActs : w.at >= now - Day}

(* Variant: one act too many before the caps bite. *)
CapsExhausted_OffByOne ==
  Cardinality(InHour) > MaxActsPerHour \/ Cardinality(InDay) > MaxActsPerDay

CapsExhausted ==
  Cardinality(InHour) >= MaxActsPerHour \/ Cardinality(InDay) >= MaxActsPerDay

(* breakerTripped *)
Parked == now < breakerUntil

(* The due follow-ups that may come first. *)
FirstDue ==
  {f \in followUps : /\ f.dueAt <= now
                     /\ \A g \in followUps : f.dueAt <= g.dueAt}

BriefAllowed == now - lastBrief > BriefGap

NewAct(kind, base, checks) ==
  [kind |-> kind, base |-> base, checks |-> checks, at |-> now]

(* The acts of evaluateWake that will be executed: due is empty or holds    *)
(* the follow-up that comes first; goal says that the stored goal has a     *)
(* pending step and a provider is set; drift, that memory holds new facts.  *)
WorkOf(due, goal, drift) ==
  IF Parked \/ level = 0 \/ CapsExhausted THEN <<>>
  ELSE (IF level >= 2 /\ due # {}
        THEN LET f == CHOOSE f \in due : TRUE
             IN  <<NewAct("verify", f.base, f.checks)>>
        ELSE <<>>)
       \o (IF goal THEN <<NewAct("resume", "goal", 0)>> ELSE <<>>)
       \o (IF drift /\ BriefAllowed THEN <<NewAct("brief", "facts", 0)>> ELSE <<>>)

(* Its proposal, which waits for the owner and is never executed. *)
ProposalOf(unsealed) ==
  IF Parked \/ level = 0 \/ CapsExhausted \/ ~(unsealed /\ BriefAllowed) THEN <<>>
  ELSE <<NewAct("proposal", "vault", 0)>>

(* Variant: the wake is recorded when nothing in it was recorded before. *)
ApplyWake_AllOrNothing(acts) ==
  LET made == {acts[i] : i \in 1..Len(acts)}
      fresh == {a \in made : \A w \in windowActs, c \in made : w.key # ActKey(c)}
      all == windowActs \cup {[at |-> now, key |-> ActKey(a)] : a \in fresh}
  IN /\ windowActs' = {w \in all : now - w.at < Day}
     /\ lastBrief' = IF \E a \in made : a.kind \in {"brief", "proposal"}
                     THEN now ELSE lastBrief
     /\ followUps' = {f \in followUps : f.dueAt > now}

(* applyWake: acts already recorded in this window are not recorded again.  *)
(* Every due follow-up is dropped, whether it was acted on or not.  No act  *)
(* has failed yet, so the breaker cannot trip here.                         *)
ApplyWake(acts) ==
  LET made == {acts[i] : i \in 1..Len(acts)}
      fresh == {a \in made : \A w \in windowActs : w.key # ActKey(a)}
      all == windowActs \cup {[at |-> now, key |-> ActKey(a)] : a \in fresh}
  IN /\ windowActs' = {w \in all : now - w.at < Day}
     /\ lastBrief' = IF \E a \in made : a.kind \in {"brief", "proposal"}
                     THEN now ELSE lastBrief
     /\ followUps' = {f \in followUps : f.dueAt > now}

-------------------------------------------------------------------------------
Init ==
  /\ now = 0
  /\ level = 1
  /\ followUps = {}
  /\ windowActs = {}
  /\ failures = 0
  /\ breakerUntil = 0
  /\ lastBrief = -BriefGap - 1
  /\ stored = Snapshot
  /\ lost = 0
  /\ run = [r \in Runs |-> Idle]
  /\ gate = None

Tick ==
  /\ now < MaxTime
  /\ now' = now + 1
  /\ UNCHANGED <<initiative, run, gate>>

(* setAutonomy *)
SetLevel(l) ==
  /\ level' = l
  /\ UNCHANGED <<now, followUps, windowActs, failures, breakerUntil, lastBrief,
                 run, gate>>
  /\ Persist

(* send *)
Send ==
  /\ run[Typed].at = "idle"
  /\ run' = [run EXCEPT ![Typed].at = "start"]
  /\ UNCHANGED <<now, initiative, gate>>

(* Where a heartbeat run goes with the acts it has left. *)
Onward(acts) ==
  [at |-> IF acts = <<>> THEN "ending" ELSE "start", acts |-> acts]

(* wakeNow, by the heartbeat or the owner's button: decide, record and      *)
(* start on the acts, all before the first await.  Acts marked as skipped   *)
(* duplicates are among them.  At level 0 a wake decides on nothing, and    *)
(* drops the due follow-ups all the same.                                   *)
Wake(b, goal, drift, unsealed) ==
  \E due \in IF FirstDue = {} THEN {{}} ELSE {{f} : f \in FirstDue} :
    LET work == WorkOf(due, goal, drift)
        proposal == ProposalOf(unsealed)
    IN /\ run[b].at = "idle"
       /\ ApplyWake(work \o proposal)
       /\ run' = IF work \o proposal = <<>> THEN run
                 ELSE [run EXCEPT ![b] = Onward(work)]
       /\ UNCHANGED <<now, level, failures, breakerUntil, gate>>
       /\ Persist

(* Routing found risky work: the ask takes the gate slot, whatever is in it.*)
Ask(r) ==
  /\ run[r].at = "start"
  /\ run' = [run EXCEPT ![r].at = "asking"]
  /\ gate' = r
  /\ UNCHANGED <<now, initiative>>

(* Routing found safe work, or risky work the crew has earned. *)
Proceed(r) ==
  /\ run[r].at = "start"
  /\ run' = [run EXCEPT ![r].at = "working"]
  /\ UNCHANGED <<now, initiative, gate>>

(* Variant: the slot keeps the ask that was decided. *)
Decide_KeepsSlot(approved) ==
  /\ gate # None
  /\ run' = [run EXCEPT ![gate].at = IF approved THEN "working" ELSE "denied"]
  /\ UNCHANGED <<now, initiative, gate>>

(* decideGate: the slot is cleared and its promise resolves. *)
Decide(approved) ==
  /\ gate # None
  /\ gate' = None
  /\ run' = [run EXCEPT ![gate].at = IF approved THEN "working" ELSE "denied"]
  /\ UNCHANGED <<now, initiative>>

(* How a run can end from where it is: refused, planned or failed while it  *)
(* is routed, declined at the gate (and the answer that says so may fail),  *)
(* or with an outcome of its work.                                          *)
MayEnd(r, verdict) ==
  CASE run[r].at = "start" -> verdict \in {"failed", "partial"}
    [] run[r].at = "denied" -> verdict \in {"blocked", "failed"}
    [] run[r].at = "working" -> verdict \in {"done", "partial", "failed"}
    [] OTHER -> FALSE

Verdicts == {"done", "partial", "failed", "blocked"}

(* Variant: a typed run that was declined leaves the busy flag set. *)
SendEnds_Stuck(verdict, threw) ==
  /\ MayEnd(Typed, verdict)
  /\ run[Typed].at # "denied"
  /\ run' = [run EXCEPT ![Typed] = Idle]
  /\ gate' = None
  /\ threw => verdict = "failed"
  /\ UNCHANGED <<now, level, followUps, windowActs, lastBrief>>
  /\ IF threw THEN ReportFailure /\ Persist
     ELSE UNCHANGED <<failures, breakerUntil>> /\ Unwritten

(* send after its await: a declined run is re-checked later, one that threw *)
(* counts for the breaker; finally, the gate slot is cleared.               *)
SendEnds(verdict, threw) ==
  /\ MayEnd(Typed, verdict)
  /\ threw => verdict = "failed"
  /\ run[Typed].at = "denied" /\ verdict = "failed" => threw
  /\ run' = [run EXCEPT ![Typed] = Idle]
  /\ gate' = None
  /\ IF verdict = "blocked" THEN ScheduleFollowUp(ReCheck("text", 0))
     ELSE UNCHANGED followUps
  /\ IF threw THEN ReportFailure ELSE UNCHANGED <<failures, breakerUntil>>
  /\ UNCHANGED <<now, level, windowActs, lastBrief>>
  /\ IF threw \/ followUps' # followUps THEN Persist ELSE Unwritten

(* reportSuccess has written before scheduleFollowUp writes, or fails to.   *)
PersistTwice ==
  \/ Persist
  \/ /\ followUps' # followUps
     /\ lost < MaxLost /\ lost' = lost + 1
     /\ stored' = [Snapshot' EXCEPT !.followUps = followUps]

(* executeWakeActs after the await of one act: the verdict is reported and  *)
(* the next act begins.                                                     *)
ActEnds(b, verdict) ==
  LET act == Head(run[b].acts)
  IN /\ MayEnd(b, verdict)
     /\ run' = [run EXCEPT ![b] = Onward(Tail(run[b].acts))]
     /\ CASE verdict = "failed" -> ReportFailure
          [] verdict = "blocked" -> UNCHANGED <<failures, breakerUntil>>
          [] OTHER -> failures' = 0 /\ UNCHANGED breakerUntil
     /\ IF verdict = "partial" THEN ScheduleFollowUp(ReCheck(act.base, act.checks))
        ELSE UNCHANGED followUps
     /\ UNCHANGED <<now, level, windowActs, lastBrief, gate>>
     /\ CASE verdict = "blocked" -> Unwritten
          [] verdict = "partial" -> PersistTwice
          [] OTHER -> Persist

(* wakeNow after its acts: the state is written once more, what they did is *)
(* shown, the gate slot cleared.                                            *)
BeatEnds(b) ==
  /\ run[b].at = "ending"
  /\ run' = [run EXCEPT ![b] = Idle]
  /\ gate' = None
  /\ UNCHANGED <<now, state>>
  /\ Persist

(* loadInitiative, after the app was closed and opened: the state is what   *)
(* was stored last; runs and the gate slot were memory.                     *)
Restart ==
  /\ run' = [r \in Runs |-> Idle]
  /\ gate' = None
  /\ level' = stored.level
  /\ followUps' = stored.followUps
  /\ windowActs' = stored.windowActs
  /\ failures' = stored.failures
  /\ breakerUntil' = stored.breakerUntil
  /\ lastBrief' = stored.lastBrief
  /\ UNCHANGED <<now, stored, lost>>

Next ==
  \/ Tick
  \/ \E l \in Levels : SetLevel(l)
  \/ Send
  \/ \E b \in Beats, goal, drift, unsealed \in BOOLEAN : Wake(b, goal, drift, unsealed)
  \/ \E r \in Runs : Ask(r) \/ Proceed(r)
  \/ \E approved \in BOOLEAN : Decide(approved)
  \/ \E verdict \in Verdicts, threw \in BOOLEAN : SendEnds(verdict, threw)
  \/ \E b \in Beats, verdict \in Verdicts : ActEnds(b, verdict)
  \/ \E b \in Beats : BeatEnds(b)
  \/ Restart

Spec == Init /\ [][Next]_vars

(* What is asked of a provider is answered in the end (its calls time out), *)
(* and the owner decides what is on display.                                *)
Fairness ==
  /\ \A r \in Runs : WF_vars(Ask(r) \/ Proceed(r))
  /\ WF_vars(\E verdict \in Verdicts, threw \in BOOLEAN : SendEnds(verdict, threw))
  /\ \A b \in Beats : WF_vars(\E verdict \in Verdicts : ActEnds(b, verdict))
  /\ \A b \in Beats : WF_vars(BeatEnds(b))
  /\ WF_vars(\E approved \in BOOLEAN : Decide(approved))

FairSpec == Spec /\ Fairness

-------------------------------------------------------------------------------
(* The types of the state. *)
TypeOK ==
  /\ now \in Nat
  /\ level \in 0..3
  /\ followUps \in SUBSET FollowUp
  /\ windowActs \in SUBSET [at : Nat, key : Keys]
  /\ failures \in 0..(BreakerFailures - 1)
  /\ breakerUntil \in Nat
  /\ lastBrief \in Int
  /\ stored \in Stored
  /\ lost \in 0..MaxLost
  /\ run \in [Runs -> Run]
  /\ gate \in Runs \cup {None}

(* initiative.ts: "inside hard caps".  The caps are compared with the       *)
(* record before a wake adds up to four acts to it: whatever wakes and      *)
(* restarts come together, no hour of the record holds more than the cap    *)
(* and three.  (An act recorded before is executed again without a record,  *)
(* ActsFireOnce.)                                                           *)
HourBounded == Cardinality(InHour) <= MaxActsPerHour + 3

(* initiative.ts: "idempotency keys so the same act cannot fire twice in    *)
(* its window".  No wake hands over to the executor what is on record under *)
(* the same key.                                                            *)
ActsFireOnce ==
  [][\A b \in Beats : run[b].at = "idle" =>
       \A i \in DOMAIN run'[b].acts : \A w \in windowActs :
         w.key # ActKey(run'[b].acts[i])]_vars

(* What is on display is a question somebody still waits for: no run ends,  *)
(* or goes on, with its ask on display.                                     *)
DisplayedAskIsOpen == gate # None => run[gate].at = "asking"

(* No key is on record twice, and what is in hand is on record under its    *)
(* key, in memory and, unless a write was lost, in storage: an app that is  *)
(* closed half way through a wake finds its acts recorded when it is opened *)
(* again, and the caps count them.  (A record may go with the day.)         *)
RecordedAhead ==
  /\ \A v, w \in windowActs : v.key = w.key => v = w
  /\ \A b \in Beats : \A i \in DOMAIN run[b].acts :
       LET a == run[b].acts[i]
       IN  now - a.at <= Day - Window =>
             /\ \E w \in windowActs : w.key = ActKey(a)
             /\ lost = 0 => \E w \in stored.windowActs : w.key = ActKey(a)

(* A typed run that has not asked yet, or whose ask is on display, ends,    *)
(* unless a heartbeat run comes between: the owner has an answer to wait    *)
(* for, or a question to answer.                                            *)
SendEndsUndisturbed ==
  (run[Typed].at # "idle" /\ (run[Typed].at = "asking" => gate = Typed))
    ~> (run[Typed].at = "idle" \/ \E b \in Beats : run[b].at # "idle")

(* store.ts: "one promise per ask"; FEATURES: "Actions above the safe tier  *)
(* pause here [...] Approve once, or refuse with a reason."  A typed run    *)
(* ends whatever runs beside it: its ask does not get lost.                 *)
EverySendEnds == run[Typed].at # "idle" ~> run[Typed].at = "idle"
===============================================================================
