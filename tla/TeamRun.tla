------------------------------- MODULE TeamRun --------------------------------
(***************************************************************************)
(* One run of a team of CLI agents: executeTeam and runSeat of             *)
(* src/mission/teamExecutor.ts, with the spend ledger (caps.ts), the       *)
(* reservation gate (custody.ts), the review snapshot (collaboration.ts)   *)
(* and the merge gate (verifyGate.ts).                                     *)
(*                                                                         *)
(* Waves run in order; the seats of a wave run concurrently and share the  *)
(* ledger.  A writer works and commits on a branch of its own; a reader of *)
(* a team with writers works in a worktree put on the review snapshot, the *)
(* base with every branch committed so far merged in.                      *)
(*                                                                         *)
(* What git, a CLI or the repository's check answers is a choice.  A       *)
(* branch is named by its writer, the sha of a snapshot by the number of   *)
(* its build.  Money is counted in a unit that the shares of a wave are    *)
(* whole numbers of.                                                       *)
(***************************************************************************)
EXTENDS Integers, FiniteSets, Sequences

CONSTANTS
  Seats,
  Writers,      \* the seats with mayWrite
  Coders,       \* GATE_WRITER_ROLES: the seats with role coder or debugger
  Verifiers,    \* GATE_VERIFIER_ROLES: reviewer, security, tester
  FollowUp,     \* the seats whose assignment has a second turn
  Harness,      \* the vendor each seat runs on
  Shapes,       \* the wave plans: sequences of sets of seats
  MinSeats,     \* minimumRunnableSeats
  Cap,          \* maxCostUsd of the ledger; 0 means no ceiling
  Authorities,  \* the root envelopes a run may have: budgetUsd, or NoBudget
  NoBudget,
  Charges       \* what one CLI turn may report to have cost; 0 stands for no price

ASSUME RequestAssumption ==
  /\ IsFiniteSet(Seats) /\ Writers \subseteq Seats /\ Coders \subseteq Writers
  /\ Verifiers \subseteq Seats \ Writers
  /\ Shapes \subseteq Seq(SUBSET Seats)
  /\ \A sh \in Shapes : \A i, j \in 1 .. Len(sh) : i # j => sh[i] \cap sh[j] = {}
  /\ MinSeats \in Nat /\ Cap \in Nat /\ Charges \subseteq Nat
  /\ Authorities \subseteq Nat \cup {NoBudget} /\ NoBudget \notin Nat

VARIABLES
  shape, authority,         \* the request: its waves, the budget of its envelope
  pc, wave, ran, unsettled, \* where executeTeam is; the seats admitted to the wave, not yet settled
  waveFailed, budgetStop,
  runnable, notRun,         \* seats whose binary was found; seats the report lists as not run
  setupFailed, trees,       \* no worktree could be made; review worktrees that exist
  snap, committed,          \* ReviewSnapshotRecord; committedBranches
  checkout,                 \* the branch the base checkout is on; a merge left in conflict there
  step, turn, outcome,      \* per seat: where runSeat is, turns dispatched, the record
  charged, commits,         \* per seat: chargedUsd; branches that hold a commit
  sha, seen,                \* per seat: reviewedSha; the branches its worktree showed it
  spent,                    \* CapLedger.state.spentUsd
  reserved, share, overrun, reported, \* BudgetGate.committed, a ticket, its overruns; charges settled
  status, merge             \* the report: its status, and whether the branches may merge

request == <<shape, authority>>
flow == <<pc, wave, ran, unsettled, waveFailed, budgetStop>>
setupVars == <<runnable, setupFailed>>
gitVars == <<trees, snap, committed, checkout>>
seatVars == <<step, turn, outcome, charged, commits, sha, seen>>
money == <<spent, reserved, share, overrun, reported>>
report == <<status, merge>>
vars == <<request, flow, setupVars, notRun, gitVars, seatVars, money, report>>

-------------------------------------------------------------------------------
(* The request, and what follows from it.                                    *)

Crew(sh) == UNION {sh[i] : i \in 1 .. Len(sh)}
HasWriter(sh) == Crew(sh) \cap Writers # {}

(* planWorktrees with deferReview: a reader waits for the snapshot if there  *)
(* is a writer, and otherwise shares the base checkout.                      *)
Deferred(sh) == IF HasWriter(sh) THEN Crew(sh) \ Writers ELSE {}

EmptySnapshot == [built |-> FALSE, sha |-> 0, no |-> 0, branches |-> {}]

Readers == shape[wave] \ Writers
Budgeted == authority # NoBudget
Remaining == IF reserved < authority THEN authority - reserved ELSE 0

Completed == {s \in Seats : outcome[s] = "completed"}
Waiting == {s \in shape[wave] : outcome[s] = "none"}

Init ==
  /\ shape \in Shapes /\ authority \in Authorities
  /\ pc = "preflight" /\ wave = 1 /\ ran = {} /\ unsettled = {}
  /\ waveFailed = FALSE /\ budgetStop = FALSE
  /\ runnable = {} /\ notRun = {} /\ setupFailed = {} /\ trees = {}
  /\ snap = EmptySnapshot /\ committed = {} /\ checkout = "base"
  /\ step = [s \in Seats |-> "idle"] /\ turn = [s \in Seats |-> 0]
  /\ outcome = [s \in Seats |-> "none"] /\ charged = [s \in Seats |-> 0]
  /\ commits = {} /\ sha = [s \in Seats |-> 0] /\ seen = [s \in Seats |-> {}]
  /\ spent = 0 /\ reserved = 0 /\ share = 0 /\ overrun = 0 /\ reported = 0
  /\ status = "none" /\ merge = FALSE

-------------------------------------------------------------------------------
(* Admission and set-up.                                                     *)

(* The gate's verdict and its consequence on the seats recorded, which       *)
(* executeTeam computes once, whatever way it ends.  A seat listed in notRun *)
(* does not count; a verifier counts if the sha it reviewed is the           *)
(* snapshot's.                                                               *)
RanVerifiers == {v \in Verifiers \cap Crew(shape) : outcome[v] # "none"} \ notRun
Rejected == {v \in RanVerifiers : outcome[v] \in {"failed", "timeout", "blocked_budget"}}
Graded == {w \in Coders \cap Crew(shape) : outcome[w] # "none"} \ notRun
SnapshotKnown == snap.built /\ snap.sha # 0
Counting == {v \in RanVerifiers : SnapshotKnown /\ sha[v] = snap.sha}

CrossVerified_AnyVendor ==
  RanVerifiers # {} /\ (Graded = {} \/ (SnapshotKnown /\ Counting # {}))

CrossVerified ==
  /\ RanVerifiers # {}
  /\ \/ Graded = {}
     \/ /\ SnapshotKnown
        /\ \A w \in Graded : \E v \in Counting : Harness[v] # Harness[w]

GatePasses(st) == st = "completed" /\ Rejected = {} /\ CrossVerified

Finish(st) ==
  /\ pc' = "done" /\ status' = st
  /\ \E policy \in {"STRICT", "ADVISORY"} :
       merge' = (GatePasses(st) \/ policy = "ADVISORY")

(* An envelope that is void or spent, an action packet that does not verify  *)
(* or a refusing arena ends the run before anything is set up.               *)
Refused ==
  /\ pc = "preflight"
  /\ Finish("aborted")
  /\ UNCHANGED <<request, wave, ran, unsettled, waveFailed, budgetStop, setupVars, notRun,
                 gitVars, seatVars, money>>

(* The writers' worktrees are made and the binaries looked up.               *)
Setup ==
  /\ pc = "preflight"
  /\ Budgeted => authority > 0
  /\ runnable' \in SUBSET Crew(shape)
  /\ setupFailed' \in SUBSET (Crew(shape) \cap Writers)
  /\ notRun' = Crew(shape) \ runnable'
  /\ \/ /\ Cardinality(runnable') < MinSeats
        /\ Finish("aborted")
     \/ /\ Cardinality(runnable') >= MinSeats
        /\ pc' = "wave" /\ UNCHANGED report
  /\ UNCHANGED <<request, wave, ran, unsettled, waveFailed, budgetStop, gitVars, seatVars, money>>

-------------------------------------------------------------------------------
(* The next wave: skipped, or its readers given a snapshot, then admitted.   *)

OpenWave == pc = "wave" /\ wave <= Len(shape)

Recorded(who, what) == [s \in Seats |-> IF s \in who THEN what ELSE outcome[s]]

SkipWave ==
  /\ OpenWave /\ waveFailed
  /\ outcome' = Recorded(shape[wave], "skipped_wave_failed")
  /\ notRun' = notRun \cup shape[wave]
  /\ wave' = wave + 1
  /\ UNCHANGED <<request, pc, ran, unsettled, waveFailed, budgetStop, setupVars, gitVars,
                 step, turn, charged, commits, sha, seen, money, report>>

NeedsSnapshot_Once == Readers # {} /\ Deferred(shape) # {} /\ ~snap.built

NeedsSnapshot == Readers # {} /\ Deferred(shape) # {}

(* The readers of a wave without a snapshot are recorded and left out.       *)
HoldReaders ==
  /\ outcome' = Recorded(Readers \cap Deferred(shape),
                         IF committed = {} THEN "skipped_nothing_to_review"
                                           ELSE "review_snapshot_failed")
  /\ notRun' = notRun \cup (Readers \cap Deferred(shape))
  /\ snap' = [snap EXCEPT !.built = FALSE, !.sha = 0, !.branches = committed]

(* buildReviewSnapshot.  Checking out the snapshot branch or merging into it *)
(* may fail, and then the base checkout stays on it; after a conflict a      *)
(* later build fails at once, after another failure it starts afresh.  A     *)
(* review worktree is made only where none is yet.  Going back to the base   *)
(* branch and reading the sha of the result may fail, and are no failure.    *)
Unconflicted == committed # {} /\ checkout # "conflict"
BackToBase == checkout' \in {"base", "snapshot"}

BuildFails ==
  /\ OpenWave /\ ~waveFailed /\ NeedsSnapshot
  /\ \/ committed = {} /\ UNCHANGED <<trees, checkout, setupFailed>>
     \/ committed # {} /\ checkout = "conflict" /\ UNCHANGED <<trees, checkout, setupFailed>>
     \/ /\ Unconflicted /\ checkout' \in {checkout, "snapshot", "conflict"}
        /\ UNCHANGED <<trees, setupFailed>>
     \/ /\ Unconflicted /\ BackToBase
        /\ \E bad \in Deferred(shape) \ setupFailed :
             /\ setupFailed' = setupFailed \cup {bad}
             /\ trees' \in {trees \cup made :
                              made \in SUBSET ((Deferred(shape) \ setupFailed) \ {bad})}
  /\ HoldReaders
  /\ pc' = "admit"
  /\ UNCHANGED <<request, wave, ran, unsettled, waveFailed, budgetStop, runnable, committed,
                 step, turn, charged, commits, sha, seen, money, report>>

BuildSucceeds ==
  /\ OpenWave /\ ~waveFailed /\ NeedsSnapshot
  /\ Unconflicted /\ BackToBase
  /\ (Deferred(shape) \ setupFailed) \cap trees = {}
  /\ trees' = trees \cup (Deferred(shape) \ setupFailed)
  /\ \E known \in BOOLEAN :
       snap' = [built |-> TRUE, no |-> snap.no + 1, branches |-> committed,
                sha |-> IF known THEN snap.no + 1 ELSE 0]
  /\ seen' = [s \in Seats |-> IF s \in Deferred(shape) \ setupFailed THEN committed ELSE seen[s]]
  /\ pc' = "admit"
  /\ UNCHANGED <<request, wave, ran, unsettled, waveFailed, budgetStop, setupVars, notRun,
                 committed, step, turn, outcome, charged, commits, sha, money, report>>

NoSnapshotNeeded ==
  /\ OpenWave /\ ~waveFailed /\ ~NeedsSnapshot
  /\ pc' = "admit"
  /\ UNCHANGED <<request, wave, ran, unsettled, waveFailed, budgetStop, setupVars, notRun,
                 gitVars, seatVars, money, report>>

(* Reservation: each seat reserves an equal share of what remains, in one    *)
(* step.  That nothing remains is seen when the wave before is closed        *)
(* (CommittedIsReported), so the refusal at this place is never reached.     *)
ShareOf_Remainder(n) == Remaining

ShareOf(n) == Remaining \div n

Admit ==
  /\ pc = "admit"
  /\ ran' = Waiting /\ unsettled' = Waiting
  /\ step' = [s \in Seats |-> IF s \in Waiting THEN "start" ELSE step[s]]
  /\ sha' = [s \in Seats |-> IF s \in Waiting \cap Deferred(shape) THEN snap.sha ELSE sha[s]]
  /\ IF Budgeted /\ Waiting # {}
     THEN /\ share' = ShareOf(Cardinality(Waiting))
          /\ reserved' = reserved + Cardinality(Waiting) * share'
     ELSE UNCHANGED <<share, reserved>>
  /\ pc' = "running"
  /\ UNCHANGED <<request, wave, waveFailed, budgetStop, setupVars, notRun, gitVars,
                 turn, outcome, charged, commits, seen, spent, overrun, reported, report>>

-------------------------------------------------------------------------------
(* One seat: runSeat.  Every seat of the wave takes these steps on its own.  *)

Back(s, what) ==
  /\ step' = [step EXCEPT ![s] = "back"]
  /\ outcome' = [outcome EXCEPT ![s] = what]

Blocked(s) ==
  IF s \notin runnable THEN "blocked_missing_binary"
  ELSE IF s \in setupFailed /\ s \in Deferred(shape) THEN "review_snapshot_failed"
  ELSE IF s \in setupFailed THEN "failed"
  ELSE IF s \in Deferred(shape) /\ ~snap.built THEN "skipped_nothing_to_review"
  ELSE "no"

(* admissionError: asked before every turn, on what was charged so far.  The *)
(* ceilings on turns, invocations and wall clock may refuse at any turn.     *)
OverCap_Settled == Cap > 0 /\ reported >= Cap

OverCap == Cap > 0 /\ spent >= Cap

StartTurn(s) ==
  /\ step[s] = "start"
  /\ \/ turn[s] = 0 /\ Blocked(s) # "no" /\ Back(s, Blocked(s)) /\ UNCHANGED turn
     \/ (turn[s] > 0 \/ Blocked(s) = "no") /\ Back(s, "blocked_budget") /\ UNCHANGED turn
     \/ /\ (turn[s] > 0 \/ Blocked(s) = "no") /\ ~OverCap
        /\ step' = [step EXCEPT ![s] = "cli"]
        /\ turn' = [turn EXCEPT ![s] = @ + 1]
        /\ UNCHANGED outcome
  /\ UNCHANGED <<request, flow, setupVars, notRun, gitVars, charged, commits, sha, seen, money, report>>

(* withDeadline: the seat is recorded, nothing of the turn is charged, and   *)
(* the child may go on.                                                      *)
CliTimeout_Never(s) == FALSE /\ UNCHANGED vars

CliTimeout(s) ==
  /\ step[s] = "cli"
  /\ Back(s, "timeout")
  /\ UNCHANGED <<request, flow, setupVars, notRun, gitVars, turn, charged, commits, sha, seen,
                 money, report>>

(* A second turn that did not resume the session is not charged.             *)
ResumeFails(s) ==
  /\ step[s] = "cli" /\ turn[s] > 1
  /\ Back(s, "resume_failed")
  /\ UNCHANGED <<request, flow, setupVars, notRun, gitVars, turn, charged, commits, sha, seen,
                 money, report>>

Turns(s) == IF s \in FollowUp THEN 2 ELSE 1

(* The reported cost is charged to the ledger and to the seat, also when the *)
(* turn failed.                                                              *)
CliReturns(s, cost, ok) ==
  /\ step[s] = "cli"
  /\ spent' = spent + cost
  /\ charged' = [charged EXCEPT ![s] = @ + cost]
  /\ \/ ~ok /\ Back(s, "failed")
     \/ /\ ok /\ UNCHANGED outcome
        /\ step' = [step EXCEPT ![s] = IF turn[s] < Turns(s) THEN "start" ELSE "worked"]
  /\ UNCHANGED <<request, flow, setupVars, notRun, gitVars, turn, commits, sha, seen,
                 reserved, share, overrun, reported, report>>

(* The repository's check, the evidence, and a writer's commit, which may    *)
(* find nothing to commit or fail: the seat is completed all the same.       *)
Complete(s) ==
  /\ step[s] = "worked"
  /\ Back(s, "completed")
  /\ commits' \in {commits} \cup (IF s \in Writers THEN {commits \cup {s}} ELSE {})
  /\ UNCHANGED <<request, flow, setupVars, notRun, gitVars, turn, charged, sha, seen, money, report>>

-------------------------------------------------------------------------------
(* Every seat of the wave is back: tickets are settled against what was      *)
(* charged, the spend is compared with the authority, and the branches that  *)
(* were committed are listed.                                                *)

AllBack == pc = "running" /\ \A s \in ran : step[s] = "back"

Over_Signed(s) == charged[s] - share

Over(s) == IF charged[s] > share THEN charged[s] - share ELSE 0

Settle_KeepTicket(s) ==
  /\ AllBack /\ s \in unsettled
  /\ unsettled' = unsettled \ {s}
  /\ reported' = reported + charged[s]
  /\ IF Budgeted
     THEN /\ reserved' = reserved + charged[s]
          /\ overrun' = overrun + Over(s)
     ELSE UNCHANGED <<reserved, overrun>>
  /\ UNCHANGED <<request, pc, wave, ran, waveFailed, budgetStop, setupVars, notRun, gitVars,
                 seatVars, spent, share, report>>

Settle(s) ==
  /\ AllBack /\ s \in unsettled
  /\ unsettled' = unsettled \ {s}
  /\ reported' = reported + charged[s]
  /\ IF Budgeted
     THEN /\ reserved' = reserved - share + charged[s]
          /\ overrun' = overrun + Over(s)
     ELSE UNCHANGED <<reserved, overrun>>
  /\ UNCHANGED <<request, pc, wave, ran, waveFailed, budgetStop, setupVars, notRun, gitVars,
                 seatVars, spent, share, report>>

Exhausted == Budgeted /\ ~budgetStop /\ reported >= authority

CloseWave_GoOn ==
  /\ AllBack /\ unsettled = {}
  /\ budgetStop' = (budgetStop \/ Exhausted)
  /\ waveFailed' = (waveFailed \/ Exhausted)
  /\ committed' = committed \cup (ran \cap Completed \cap commits)
  /\ wave' = wave + 1 /\ pc' = "wave" /\ ran' = {} /\ share' = 0
  /\ UNCHANGED <<request, unsettled, setupVars, notRun, trees, snap, checkout, seatVars,
                 spent, reserved, overrun, reported, report>>

CloseWave ==
  /\ AllBack /\ unsettled = {}
  /\ budgetStop' = (budgetStop \/ Exhausted)
  /\ waveFailed' = (waveFailed \/ Exhausted \/ ran \cap Completed = {})
  /\ committed' = committed \cup (ran \cap Completed \cap commits)
  /\ wave' = wave + 1 /\ pc' = "wave" /\ ran' = {} /\ share' = 0
  /\ UNCHANGED <<request, unsettled, setupVars, notRun, trees, snap, checkout, seatVars,
                 spent, reserved, overrun, reported, report>>

FinalStatus ==
  IF Completed = {} THEN "blocked"
  ELSE IF \A s \in Crew(shape) : outcome[s] \in {"none", "completed"} THEN "completed"
  ELSE "partial"

FinishRun ==
  /\ pc = "wave" /\ wave > Len(shape)
  /\ Finish(FinalStatus)
  /\ UNCHANGED <<request, wave, ran, unsettled, waveFailed, budgetStop, setupVars, notRun,
                 gitVars, seatVars, money>>

-------------------------------------------------------------------------------
OwnStep(s) == StartTurn(s) \/ CliTimeout(s) \/ Complete(s)
SeatStep(s) == OwnStep(s) \/ ResumeFails(s) \/ \E c \in Charges, ok \in BOOLEAN : CliReturns(s, c, ok)

Orchestrate ==
  \/ Refused \/ Setup \/ SkipWave \/ BuildFails \/ BuildSucceeds \/ NoSnapshotNeeded
  \/ Admit \/ (\E s \in Seats : Settle(s)) \/ CloseWave \/ FinishRun

Next == Orchestrate \/ \E s \in Seats : SeatStep(s)

Spec == Init /\ [][Next]_vars

(* The steps of the executor are run by one event loop, and the deadline of  *)
(* a CLI by a timer.  That a CLI answers is not assumed.                     *)
FairSpec == Spec /\ WF_vars(Orchestrate) /\ \A s \in Seats : WF_vars(OwnStep(s))

-------------------------------------------------------------------------------
(* Types.                                                                    *)

Outcomes == {"none", "completed", "failed", "timeout", "resume_failed", "blocked_budget",
             "blocked_missing_binary", "review_snapshot_failed", "skipped_nothing_to_review",
             "skipped_wave_failed"}
Steps == {"idle", "start", "cli", "worked", "back"}

(* The type invariant.                                                       *)
TypeOK ==
  /\ shape \in Shapes /\ authority \in Authorities
  /\ pc \in {"preflight", "wave", "admit", "running", "done"}
  /\ wave \in 1 .. Len(shape) + 1 /\ (pc \in {"admit", "running"} => wave <= Len(shape))
  /\ ran \subseteq Seats /\ unsettled \subseteq ran
  /\ waveFailed \in BOOLEAN /\ budgetStop \in BOOLEAN
  /\ runnable \subseteq Seats /\ notRun \subseteq Seats /\ setupFailed \subseteq Seats
  /\ trees \subseteq Seats /\ committed \subseteq Seats /\ commits \subseteq Seats
  /\ snap \in [built : BOOLEAN, sha : Nat, no : Nat, branches : SUBSET Seats]
  /\ checkout \in {"base", "snapshot", "conflict"}
  /\ step \in [Seats -> Steps] /\ turn \in [Seats -> Nat]
  /\ outcome \in [Seats -> Outcomes] /\ charged \in [Seats -> Nat]
  /\ sha \in [Seats -> Nat] /\ seen \in [Seats -> SUBSET Seats]
  /\ spent \in Nat /\ reserved \in Int /\ share \in Nat /\ overrun \in Nat /\ reported \in Nat
  /\ status \in {"none", "aborted", "blocked", "partial", "completed"}
  /\ merge \in BOOLEAN

-------------------------------------------------------------------------------
(* What a run promises.                                                      *)

InFlight == {s \in Seats : step[s] = "cli"}
CommittedBefore(i) == {b \in Completed \cap commits : \E j \in 1 .. i - 1 : b \in shape[j]}

(* The ceiling of the ledger is asked for before a turn and charged after    *)
(* it, so seats in flight together can pass it; but each of them only once:  *)
(* the excess stays below one charge for every seat of the widest wave       *)
(* (admissionError, charge).                                                 *)
OvershootBounded ==
  \A top \in Charges, n \in 0 .. Cardinality(Seats) :
    /\ Cap > 0 /\ \A c \in Charges : c <= top
    /\ \A i \in 1 .. Len(shape) : Cardinality(shape[i]) <= n
    => spent <= Cap \/ spent < Cap + n * top

(* What is committed of a budget authority exceeds it by no more than the    *)
(* overruns the report names: concurrent seats cannot be admitted against    *)
(* the same remainder (BudgetGate.reserve, settle).                          *)
OverrunIsNamed == Budgeted => reserved <= authority + overrun

(* What the gate holds committed is what was reported plus the open tickets: *)
(* no reservation is lost and none is kept (settle).                         *)
CommittedIsReported == Budgeted => reserved = reported + share * Cardinality(unsettled)

(* A reader that completed on the review snapshot saw every branch that was  *)
(* committed in the waves before its own (buildReviewSnapshot, runSeat).     *)
ReviewersSawTheWork ==
  \A i \in 1 .. Len(shape) : \A s \in shape[i] \cap Deferred(shape) \cap Completed :
    CommittedBefore(i) \subseteq seen[s]

(* Every writer of the plan comes before every reader.                       *)
WritersFirst ==
  \A i, j \in 1 .. Len(shape) : i <= j =>
    ~(shape[i] \ Writers # {} /\ shape[j] \cap Writers # {})

(* If the writers come first and the merge is let through because the gate   *)
(* passed, each branch a coder committed was seen by a verifier of another   *)
(* vendor that completed (gateForTeamReport, evaluateVerifyGate).            *)
MergeWasReviewed ==
  status = "completed" /\ GatePasses(status) /\ WritersFirst =>
    \A b \in committed \cap Coders : \E v \in Verifiers \cap Completed :
      Harness[v] # Harness[b] /\ b \in seen[v]

(* No CLI is started in a wave if an earlier wave completed nothing, and     *)
(* none once the charges reached the budget authority (waveFailed,           *)
(* budgetStop).                                                              *)
NoWorkAfterFailure ==
  /\ \A j \in 1 .. Len(shape) : (\E s \in shape[j] : turn[s] > 0) =>
       \A i \in 1 .. j - 1 : shape[i] \cap Completed # {}
  /\ InFlight # {} /\ Budgeted => reported < authority

(* A run ends and is reported, also when a CLI never answers                 *)
(* (withDeadline).                                                           *)
RunEnds == <>(pc = "done")

(* A seat skipped because an earlier wave did not complete comes after a     *)
(* seat that was asked to work: "An earlier wave did not complete, so this   *)
(* seat was skipped rather than asked to review work that does not exist."   *)
SkippedAfterWork ==
  \A j \in 1 .. Len(shape) : \A s \in shape[j] :
    outcome[s] = "skipped_wave_failed" =>
      budgetStop \/ \E i \in 1 .. j - 1 : \E r \in shape[i] :
        outcome[r] \notin {"skipped_nothing_to_review", "skipped_wave_failed"}
===============================================================================
