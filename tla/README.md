# Vouch Harbor in TLA+

TLA+ models of the parts of Vouch Harbor (the *Velvet Hand* desktop steward and
the *harbour*, its vouch server) that are hard to test: what overlaps at an
`await`, what a crash or a lost write leaves behind, what is judged by a state
that has moved on, what a budget still holds when several spend it at once. The models
are translated from the source in `src/`; TLC checks them on small instances,
TLAPS proves the most important results for every instance.

Paths below are relative to `src/` unless they end in `.tla` or `.cfg`.

## 1. The system

### Inventory

| Part | Source | State | Operations | What is hard, and what makes it correct |
|---|---|---|---|---|
| Ledger | `protocol/src/server/ledger.js` | `seq`, the window `links`, `_queue`, `ledger.jsonl` | `init`, `append`, `verifyWindow`, `tail` | Appends overlap at two awaits; a crash or a failed write at any point. The file opens again, acks are durable, memory mirrors the file; a walk of the live window answers for it. |
| Checkpoints | `protocol/src/server/checkpoints.js`, `signCheckpoint`, `close` in `harbor.js` | `linksSinceCheckpoint`, `checkpoints.jsonl` | every tenth link, at shutdown | Signed while further appends commit, two at once. What is attested is true of the file. |
| Sessions | `protocol/src/server/harbor.js`, replay guard in `core/vh-crypto.js`, `core/vh-binding.js` | `members`, `pendingChallenges`, `socket.data.user`, nonces | connect, `user:join`, `vouch:submit`, `key:rotate`, `rtc:signal`, disconnect | Handlers of one socket overlap each other and its disconnect. Identities are unique, the record is a history of presence, and it explains a signature that does not verify. |
| Trust gates | `protocol/src/core/vh-trust.js`, `core/vh-policy.js` | none: functions of the ledger's window | grant, revocation and action gates, `findAuthorization` | Judged now, recorded later; the window forgets. Authority has a source; only authorities withdraw authorities. |
| SDK roster | `protocol/src/client/vh-sdk.js` | `peers` | `join`, listeners | Broadcasts out of order with the append they follow. |
| Admission | `protocol/src/server/ratelimit.js`, `io.use` | `conns`, `violations`, `buckets` | connect, disconnect, ban, sweep | Counts that are taken and not given back. |
| Steward | `src/ui/store.ts`, `src/vh19/generalist.ts` | `busy`, `gate`, `msgs` | `send`, `decideGate`, `wakeNow` | A typed run and heartbeat runs share one approval slot. |
| Initiative | `src/vh19/initiative.ts`, `initiativeBridge.ts`, `goals.ts` | `followUps`, `windowActs`, `recentFailures`, `breakerUntil` | `evaluateWake`, `applyWake`, `executeWakeActs`, `scheduleFollowUp` | Caps, idempotency and a breaker over runs that overlap. |
| Team executor | `src/mission/teamExecutor.ts`, `caps.ts`, `custody.ts`, `collaboration.ts`, `verifyGate.ts` | the wave, seat records, branches, review snapshot, `CapLedger`, `BudgetGate` | `executeTeam`, `runSeat`, `reserve`, `settle`, `buildReviewSnapshot`, `gateForTeamReport` | Seats of a wave run at once on one ledger; a CLI may never answer. Spending stays near its ceilings, reviews are of the current work, a merge was reviewed. |
| Mission runtime | `src/mission/missionRuntime.ts`, `organization.ts`, `approvals.ts`, `supervisor.ts` | lifecycle status, task table, repair counts, approvals | `run`, `executeTask`, `repair`, `reorganize`, `finish`, `pause`, `resume`, `cancel`, `decide` | A person acts at every wait; repair and execution call each other. No false completion, one approval per run, an end. |
| Mission loop, records, bridges | `src/mission/missionLoop.ts`, `durable.ts`, `receipts.ts`, `mergeExecutor.ts`, `a2a*.ts` | mission records, receipts | compose a team, run it, merge, sign, serve other agents | Around the executor; sequential. |
| Graph scheduler | `src/engine/`, `src/graph/` | node states of a run | topological execution, retry, skip, approve | Not used by the application. |
| Federation, reach | `src/vh19/federation`, `src/vh19/reach` | five keys of local storage: grant, usage, revocations, two ledgers | issue, revoke, `runLiveCrossing` | Keys are written one by one and a write may be lost. Budget, rate and earned tier hold. |
| Memory, vault, specialists, vouch pages, desktop shell, UI | `src/vh19`, `src/specialists`, `src/vouch`, `src-tauri`, `src/ui` | records in local storage | per-record rules, I/O, rendering | Local and sequential. |

How they meet: a desktop joins the harbour over a socket (`vh-sdk.js`). The
session handlers pass what they accept to the ledger's queue and answer when
it is written. The trust gates read the ledger's window, synchronously, before
the append is queued. Checkpoints are made by whoever recorded the tenth link.
On the desktop, `send` (typed) and `wakeNow` (heartbeat) both run
`askVH19`, which asks the owner through the one `gate` slot of the UI store. A
mission is run by the mission loop, which composes a team and hands it to
`executeTeam`; `MissionRuntime` is the older engine with its own task table. The
federation console runs crossings between the two harbours of one machine under
a grant that both owners signed once.

`PROJECT.json` lists every component with its status, and under `hazards` every
place known to be hard to test, with the properties aimed at it.

### Plan

1. `Ledger`, `AppendLog`, `LedgerVerify`, `LedgerProofs`, `LedgerVerifyProofs` (done)
2. `HarborSessions`, `HarborSessionsProofs` (done)
3. `HarborTrust`, `HarborTrustProofs` (done)
4. `Steward`, `StewardProofs`: typed runs, heartbeat runs, the initiative limits
   and the gate slot (done)
5. `TeamRun`, `TeamRunProofs`: the team executor with its budgets, snapshots and
   merge gate (done)
6. `MissionRun`, `MissionRunProofs`: the mission runtime with the person at its
   approval gates (done; it takes in what was planned as `Approvals`)
7. `LiveCrossing`, `LiveCrossingProofs`: federation crossings under a grant (done)
8. `HarborAdmission`: connection counts, violations, bans and the sweep of
   `ratelimit.js` with the two `io.use` middlewares of `harbor.js` (not done)
9. Durable missions: `durable.ts`, `persist` and `restore` of the mission runtime
   through a crash, as an extension of `MissionRun` (not done)
10. Restart and eviction of the replay guard in `HarborSessions`; the store's
    own reload of checkpoints in `Ledger`; goals in `Steward` (not done)

`engine/scheduler.ts` was taken off the plan: nothing imports it.

Composition: `Ledger` implements `AppendLog`; `HarborSessions` and `HarborTrust` use
a log with the behaviour `AppendLog` describes (entries in the order they were
handed over); `TeamRun` composes the seats, the spend ledger and the reservation
gate they share.

## 2. The modules

### Ledger.tla, AppendLog.tla

`Ledger` follows `_appendOne` step by step. `Submit` is the call of `append`,
which joins the promise queue; `Stage` is the synchronous block up to the first
await (the sequence number and the previous hash are read there and nowhere
else); `Commit` is the rest: sequence number, window, file write, and the code of
`record` that runs when the append resolves, the checkpoint counter included.
`SignFails` and `WriteFails` are its two error paths. `CheckpointSigned` is the
continuation of `signCheckpoint`. `Start` is `init`; `Accepts` is its four checks:
the file parses, it is a chain, every payload signature verifies under the key
recorded beside it (`SignaturesHold`), and no metaSig is missing. `Close` is `close`: it
starts the last checkpoint, and until the process ends the disconnecting clients
may still append their "leave". `Crash` stops the process between two blocks,
`WriteFails` inside a write; `Cuts` names what a failed write may leave:
nothing, part of a line, a whole line without its newline, a whole line.

`Missigned` are the entries that come to `append` with a signature that the key
beside them does not verify. The harbour makes such entries itself, by the rotation
that `HarborSessions` follows (`MissignedAfterRotation`); here they are a constant,
and what the next start makes of them is `FileOpensIfSigned`.

Abstractions: SHA-256 is ideal (a hash *is* the history it covers), so tampering
with the file is not modelled, only what the program itself writes; a signature
made by the harbour (metaSigs, checkpoints) verifies. `Caught` names the rejections a caller of `append`
survives: no harbour handler catches one, and an unhandled rejection ends the
process; the self-test catches a failed signature.

`AppendLog` is what users of the harbour rely on: a log that only grows, entries
promised to their submitters, prefixes attested. `Ledger` implements it under
the mapping `log <- payloads of the file`, `promised <- acked`,
`attested <- heads of the stored checkpoints`.

### LedgerVerify.tla

`chain:verify` beside the ledger: `VerifyStart` fixes `linkTotal`, each
`VerifyStep` is the code between two awaits of the loop over the links, `VerifyEnd`
is the answer, and `LedgerStep` is any step of `Ledger`, which may grow or shift the
window under the walk; the walk counts both (`grown`, `moved`), which the code does not.
The answer has every conjunct of the code's: the links found intact are as many as
there were, the payload signatures verify, no metaSig is missing. The harbour's own
metaSigs verify, which is the fourth. The signatures are those of the links in the
window as the loop is left, taken in one step: links do not change.

### HarborSessions.tla

Each handler is split at its awaits: `JoinStart`/`JoinFinish`,
`VouchStart`/`VouchFinish`, `RotateStart`/`RotateProved`/`RotateTold`.
`Disconnect` may come between any two. Profiles are objects that handlers hold on to
(`user`), so a handler that resumes after a rotation sees the new key. A profile has
a fingerprint (`fp`) and a key (`jwk`): a rotation copies both from its bundle, and nothing
compares them (`NewBundles` has one that does not fit). An envelope has the key that
signed it (`KeyOf`) and the author its payload names (`AuthorOf`): the signature is checked
under the key the profile has before the await, the author against the fingerprint it
has afterwards (`SignerBound`). `log`
lists what was handed to `ledger.append` in call order: `Ledger` shows that
this is the order of the file. `inbox` and `roster` are the SDK's side: events
in transport order and the `peers` map its listeners keep. The listeners are attached
when the SDK resumes after its join, so an event that arrives in one turn with the
answer is lost (`DeliverTogether`, `missed`).

Left out: rate guards and sizes (they refuse before any state changes),
`rtc:signal` (relays, keeps nothing), the time window of the replay guard and
its eviction. `passes` and `valid` stand for checks on the data
of a message.

### HarborTrust.tla

The gates of `vouch:submit` under `grantPolicy: "strict"`, as functions of the window:
designation through rotations, revocation (RULE 6), attestation, delegable
tokens (RULE 5), grants and delegated grants (RULES 3, 4), `findAuthorization`.
`Submit` is the gate and the call of `record` in one synchronous block; `Record`
is the commit, which other links may precede. `Expire` is the clock.
`DesignatedIn` is the least set closed under rotation, where the code iterates
to a fixed point. Reputation and risk levels decide nothing and are left out,
as are the policies `compat` and `off`.

### Steward.tla

One typed run and any number of heartbeat runs. A run is routed (`start`), asks
the owner (`Ask`, which takes the gate slot as `makeGate` does) or proceeds, works,
and ends. `Wake` is `wakeNow` up to its first await: `WorkOf` and `ProposalOf` are
`evaluateWake`, `ApplyWake` records. `ActEnds` is one turn of the loop of
`executeWakeActs`, with its report to the breaker and the follow-up it schedules;
`SendEnds` and `BeatEnds` are the code after the awaits of `send` and `wakeNow`,
both of which clear the slot. Every change of the initiative record is followed by
`Persist`, which copies it to storage (`stored`) or, as `persist` swallows the error,
does not (`lost`). `Restart` forgets what is in memory and loads the copy. At level 0 a
wake does nothing, but drops the re-checks that are due. A run that was declined may still
throw where it writes its answer, which `MayEnd` has among its outcomes.

What a provider answers, which acts are possible (a pending goal, new facts, an
unsealed memory) and what the owner decides are choices. The application itself
creates no goal; one may be in storage. Time is counted in ticks; a subject is what
it began with and how often it was put in front of a re-check.

### TeamRun.tla

`executeTeam` is the sequence `Setup`, then for each wave `SkipWave` or one of
`BuildFails`, `BuildSucceeds`, `NoSnapshotNeeded`, then `Admit`, the seats, `Settle` of each
ticket, `CloseWave`, and at last `FinishRun`. Each seat of the wave is a process of its own
(`StartTurn`, `CliReturns`, `CliTimeout`, `ResumeFails`, `Complete`), as the `Promise.all` over
`runSeat` makes it; they meet in `spent`, the `CapLedger` asked before a turn and charged
after it. `reserved`, `share`, `overrun` are the `BudgetGate`; all shares of a wave are
equal, so one number stands for its tickets. `snap`, `seen`, `sha` follow the review
snapshot: which branches it merged, which of them a reader's worktree showed, which
sha its record names. `checkout` is where the base checkout is: on its branch, on the
snapshot, or in the middle of a merge; a merge or a checkout that fails may leave it on
any of them, and the next snapshot begins there. `CrossVerified`, `GatePasses` are the merge gate over the seats recorded.

What git, a CLI and the repository's check answer are choices. Web search, briefings
and the texts of prompts and reports are left out. The ceilings on the wall clock, turns
and invocations may refuse any turn, as a choice: no property is about them. The
refusal of a wave with nothing left to reserve (`skipped_budget`) is left out because it is
unreachable: `CommittedIsReported` says why. Shares of an authority are whole numbers.

### MissionRun.tla

One call of `MissionRuntime.run`. The loop's head, budget check, detection, the
supervisor's advice, the wave, `executeTask` (gate, dispatch, harness), `repair` and
`finish` are steps of one process; between two awaits nobody else runs, so `Pause`,
`Resume`, `Cancel` and `Approve` are possible only where the run waits (`Waiting`).
`executeTask` and `repair` call each other: `nested` says that the task in hand is run by
its own repair, and `from` where the outermost call returns to. What was delivered, and
how the evaluation judges it, is a choice of four (verified, not measured,
simulated, failed); so is whether a budget ceiling is found passed, whether the
mission is found stalled, and whether a reorganization passes its gates. `Invoke` has no
throwing path outside the adapters' own `try`: neither `cli_providers_detect`
(`src-tauri/src/commands.rs:1116`) nor `acpTauri.stop` rejects.

The roster is taken to have an agent for every task, and error texts not to imitate
the two phrases that detectors look for. Under these, of all detectors only
`repeatedFailure` and `stall` lead to an executed recommendation. Rungs of the ladder beyond
the second are not modelled because none is reached (`TwoRungs`). Persistence,
rollback, negotiation, memory and planning are left out.

### LiveCrossing.tla

`runLiveCrossing` waits for the owners' keys before it reads anything it decides by, and
then decides and writes as if in one turn: a call is one action, `Refuse` or `Ride`, because
the only caller in the application, the console in Settings, disables its buttons while
one runs (`groups.ts` has a caller that only a probe uses); so is `Issue`, with the time at
which it is written. The five keys
it and `issueLiveGrant`, `revokeLiveGrant` write are written one by one, and `write` swallows
the error of each: `Stored` chooses which of a handler's writes reach the storage, with
`MaxFaults` losses in all. `lost` counts the crossings that no stored counter counts any
more, which is what the properties allow for. The clock does not run backwards.

## 3. What TLC checks

| Run | Question | Outcome |
|---|---|---|
| `Ledger` | Does the ledger keep its promises through overlapping appends, checkpoints, failed signatures, crashes, restarts and cut writes, and does `chain:verify` answer for it? | holds, unless an entry with a signature of another key is handed to it; the answer is off by the appends that overlap it |
| `LedgerTornTail` | Is an acknowledged entry durable when a write is cut just before its newline? | no: the next line is glued to it, and neither parses |
| `HarborSessions` | Are identities unique, presence consistent, recorded signatures verifiable, rosters right, whatever overlaps? | holds; a signature that does not verify follows a recorded rotation, a roster may miss what came with the ack |
| `HarborTrust` | Does every recorded grant have a source, who may withdraw whom, and how far does a withdrawal reach? | holds, although the window forgets: a withdrawal misses what was queued before it and what is granted after it is forgotten |
| `Steward` | Is what is displayed still asked, are acts recorded before they run, does the record keep the hourly cap, does an undisturbed typed run end? | holds; the hourly cap up to one wake's acts |
| `StewardHang` | Does every typed run end? | no: a heartbeat run takes its ask away |
| `StewardTwice` | Is an act that is on record executed a second time in its window? | yes: a second wake skips it as a duplicate and hands it to the executor |
| `TeamRun` | Do seats that overlap keep the budgets, do reviewers see the work, was what may merge reviewed, does no work follow a failed wave, does the run end? | holds; a ceiling up to what was in flight |
| `TeamRunPlanner` | Does a seat skipped "because an earlier wave did not complete" follow a wave that was asked to work? | no: a planner's wave is held back and counts as failed |
| `MissionRun` | Is a completed mission verified, does each run of a gated task have an approval, are repairs bounded, when does `run` reject, does it end? | holds |
| `LiveCrossing` | Are budget, rate and earned tier kept while grants are issued, replaced, spent and revoked and a write is lost? | holds, up to what the lost write forgot |
| `CrossingSpends` | Does a refused crossing leave the budget alone? | no: a human-first refusal stores the spent counters |

A run whose outcome is a counterexample states what a document or a comment of
the repository says; `PROJECT.json` quotes the line under `findings`.

The properties that matter most:

* `FileOpensIfSigned`, `AckedIsDurable`, `WindowIsFileEnd`, `CheckpointsTrue` and
  the refinement `RefinesAppendLog` (`Ledger.tla`). `EverySubmitSettles` is the
  liveness property: no race of checkpoints strands a submitter. `VerdictOffByOverlaps`
  (`LedgerVerify.tla`) says by how much `chain:verify` may be wrong, and on whose account.
* `OneMemberPerFp`, `JoinsAlternate`, `MissignedAfterRotation`, `RosterIsMembers`
  (`HarborSessions.tla`).
* `GrantsHaveSource`, `AuthorityWithdrawnByAuthority`, `WithdrawalReaches`
  (`HarborTrust.tla`).
* `DisplayedAskIsOpen`, `RecordedAhead`, `HourBounded`, and the liveness
  property `SendEndsUndisturbed` (`Steward.tla`). `HourBounded` is about the record: what
  is executed without being recorded again is the subject of `StewardTwice`.
* `OvershootBounded`, `OverrunIsNamed`, `CommittedIsReported` (money), `ReviewersSawTheWork`,
  `MergeWasReviewed`, `NoWorkAfterFailure`, and the liveness property `RunEnds`
  (`TeamRun.tla`). `MergeWasReviewed` is about plans in which the writers come first; in
  others a writer may follow the last reviewer (section 6).
* `NoFakeSuccess`, `EachRunApproved`, `TwoRungs`, `RejectsOnlyIfStopped`, and the liveness
  property `RunEnds` (`MissionRun.tla`).
* `BudgetKept`, `TwoWindows`, `EarnedFirst` (`LiveCrossing.tla`).

### Bounds

| Constant | Value | Why it is enough |
|---|---|---|
| `Entries` | 4, one legacy, one in `Missigned` | three appends overlap: one staged, one queued, one just committed; the window shifts once; a file with an entry that does not verify, and one without |
| `ChainMemory`, `CheckpointEvery` | 3, 2 | the code's thousands and 10 scaled down so that the window is full and two checkpoints are signed at once |
| `MaxRestarts`, `MaxVerifies` | 2, 1 | a crash after a recovery from a crash |
| `Sockets`, `Keys` | 2, 2 | the checks compare two identities; each socket is used once, so a client that comes back is the second socket |
| `Envelopes`, `NewBundles` | 2, 2 | one envelope names its signer and one the other identity; one bundle fits its key and one does not |
| `JoinsPerSocket` | 1 | the SDK joins once per connection (see the hazard on the challenge that is deleted late) |
| `MaxCopies` | 1 | a duplicate changes nothing in what the properties say (see section 6 on replays); the theorems hold for any number |
| `rotateUsed` | one rotation per socket | the code's own limit of one rotation per minute |
| `MaxLinks`, `MaxPending` | 5, 2 | a claim, a grant, a delegated grant, a revocation and one more, two of them in flight |
| `ChainMemory` (trust) | 3, of 5 links | a withdrawal is forgotten and its member granted again, a designation is forgotten, within the record |
| `MaxDepth`, `Facts` | 2, 22 | a delegated grant on top of a grant; claims, endorsements, grants, rotations, revocations and actions of two authorities' tokens and two members |
| `Beats` | 1 (2 in `StewardTwice`) | a typed run and a heartbeat run overlap, which the gate slot needs; a run that has ended is free for the next wake; the theorems hold for any number |
| `MaxActsPerHour`, `MaxActsPerDay`, `BreakerFailures` | 2, 2, 1 (2, 3, 2 in the two runs that fail) | reached by two wakes; a wake may add four acts to one that is recorded, and a failure trips the breaker |
| `Window`, `Hour`, `Day`, `Cooldown`, `BriefGap` | 1, 1, 2, 2, 2 ticks | the order of the code's 15 minutes, one hour, 24 hours, one hour and six hours where it matters: records leave the hour before they leave the day, and two wakes may share a window |
| `MaxLost` | 1 (0 in the two runs that fail) | any single write of the initiative record is lost, before a restart or not |
| `MaxTime` | 2 (1 in the two runs that fail) | a re-check is scheduled, falls due and is scheduled again; the first records leave the hour |
| `Levels` | 2 (0, 2 in the two runs that fail) | what the slider may be set to from 1, where it starts; 3 is treated as 2 by the code; at 0 nothing wakes |
| `Seats`, `Shapes` | 5, 8 | two coders of different vendors, two verifiers, a planner, in the wave plans of `composeAssignments`, the A2A bridge and `serialExec`, in one where a writer comes last, one with two waves of readers, and one of readers only |
| `Cap`, `Authorities`, `Charges` | 4; 4 or none; 0, 4 | one charge reaches the ceiling or the whole authority, two pass them; 0 is a turn without a price |
| `FollowUp` | one seat | a turn that resumes a session, which may fail |
| `Plan`, `Extra`, `Gated` | 2, 1, 1 | a task that fails beside one that asks; a role added behind the gated one |
| `Retries` | 1, 3 | `maxRetriesPerTask` below and above the two rungs a task reaches |
| `MaxTurns` | 7 (200 in the code) | each task can be run, repaired and repaired again by advice, and a reorganization be refused, before the guard ends the loop |
| `Requests`, `Pairs`, `Caps` | 3, 2, 3 | a capability of each tier for a pair without a record; the second pair's grant may lie in the way |
| `Terms` | 4 | a wide grant, one that lapses early, one of the other pair, one whose rate never binds |
| `Vouched`, `Proven` | 2, 3 (3, 10 in the code) | the second and the third rung are climbed within the log |
| `MaxTime`, `MaxLog`, `MaxGrants`, `MaxFaults` | 2, 3, 2, 1 (0 in `CrossingSpends`) | a rate window ends and a second one fills; a grant replaces another; any single write is lost. The theorems hold without these bounds |

Deadlock checking is off in every configuration: a harbour whose file is torn
does not start again, the bounds on links and sockets run out, a quiet
harbour does nothing, a team run and a mission end, and the clock, the log and the
book of grants of `LiveCrossing` are bounded.

### Fairness

`Ledger` assumes weak fairness of `Stage`, of `Commit` and of each entry's
`CheckpointSigned`: node's event loop runs ready continuations and the crypto
thread pool answers. Nothing is assumed of submitters, of crashes or of `Start`.

`Steward` assumes weak fairness of routing, of the end of work (provider calls
carry time-outs), of the code after each await, and of the owner's decision on
what is displayed. Nothing is assumed of the heartbeat, the clock or `Restart`.
`StewardHang` fails under all of it: the run it strands waits for a promise that
nothing can resolve.

`TeamRun` assumes weak fairness of the executor's own steps and of each seat's
`StartTurn`, `CliTimeout` and `Complete`: one event loop runs them, and `withDeadline` gives
every CLI a timer (git commands have one of 60 s, the repository's check one of 120 s in
`hostDeps.ts`). That a CLI ever answers is not assumed.

`MissionRun` assumes weak fairness of the run's own steps as a whole: an approval is
given up after `approvalTimeoutMs` and a harness call returns by the time-out of its contract.
Nothing is assumed of the person, so `RunEnds` excludes a mission paused for good or
again and again.

## 4. What TLAPS proves

`LedgerProofs.tla` (assuming `WholeWrites`: a failed write leaves nothing, part of
a line, or all of it, and a caller does not survive one): `TypeCorrect` (without the
assumption), `FileOpens` (`FileOpensIfSigned`), `AcksDurable`, `WindowFaithful`, `CheckpointsHold` and
`Refinement`, for any entries, window size and checkpoint period. The inductive
invariant `IInv` ties memory to the file: the file is a hash chain numbered from
1; the window is its end; the staged append continues its last link; at most
one append is staged; a link with a metaSig is followed only by such; every
statement being signed and every stored one names a link of the file.
`FileOpensIfSigned` alone is not inductive: that `Commit` writes the next number
follows only from what `running` holds. `LedgerTornTail` shows that the
assumption is needed. `AnswersTrue` says that what a submitter was told is true
of the file; its invariant `PlacesInv` gives each entry one place (not called,
queued, staged, in the file, refused). `NoneStranded`, again without the
assumption, is the safety half of `EverySubmitSettles`: while the process
goes on, every step keeps each entry at its place in the queue, moves it one
forward, starts its append or answers it.

`LedgerVerifyProofs.tla`: `WalkMisjudgesOverlapsOnly` (`VerdictOffByOverlaps`), under
`WholeWrites`, for every walk, overlapped or not. On top of `IInv`, `WalkInv` counts: after
n hashes the links found intact are between n less the moves so far and n (`Counted`), and
less than n once the window has moved, because hashes grow with the history they cover, so the
hash of an earlier link, which is what the walk then awaits, equals no later one.

`HarborSessionsProofs.tla`: `SessionsTyped`, `FingerprintsUnique`,
`MissignedExplained` (`MissignedAfterRotation`) for any sockets, keys, bundles, envelopes
and join calls, and `RecordAlternates` and `RosterFollows` (`RosterIsMembers`) under
`JoinsPerSocket = 1`, which is what the SDK does. `MissignedExplained` rests on `SignInv`:
a signature that is being checked was begun under the key of the identity it will be
recorded under, or a rotation to that identity is on record by then. `RecordAlternates`
rests on
`RecordInv`: whoever has joined and not departed in the record is held by a
member. `RosterFollows` rests on `ViewInv`: for a listening client that lost no event and any other
socket, either the events on their way to it end with the truth about that
socket, or they do not mention it and what the client knows is already true, in
both cases up to a rotation whose append is awaited.

`HarborTrustProofs.tla`: `TrustTyped`, and `AuthorityHasSource`
(`GrantsHaveSource`) for every window size, queue length and set of facts. Its
invariant `SourceInv` says of a queued grant what the property says of a
recorded one, and uses that the designated of the window are among the
designated of the whole log. From it, by following sources back through the
record, `GrantsReachBack` and `ActionsReachBack`: who grants, and who acts, was
reached from an authority; the property that TLC checks looks one step back.
`WithdrawalHolds` (`WithdrawalReaches`) and `AuthorityKeepsItsTokens`
(`AuthorityWithdrawnByAuthority`) are for every window and queue as well. `WithdrawInv`
says of each queued link, at the place it will take in the record, what the property says
of a recorded one (`QueueReaches`, `RecordReaches`): a withdrawal it passed by was recorded
while it was queued, or had been forgotten when its gate looked and was followed by a
grant. `AuthorityKeepsItsTokens` says of each step what a token may leave with: its
expiry, an authority's revocation, or the link it came from, forgotten.

`StewardProofs.tla`, for any number of heartbeat runs and any limits:
`StewardTyped`, `GateShowsOpenAsk`, `ActsRecordedAhead` and `HourlyBound`. The first two rest on `WellTyped`: a type
invariant alone does not say that a heartbeat run which is routed or works has an
act left. `Recorded` says of the record in memory and of the stored one, which a restart
puts in its place, that each is finite, has no key twice, keeps the bound and has keys
that name the window they were made in (`GoodRecord`), and that the two are equal while no
write was lost. From it `RecordStays` concludes that no act younger than a day less a
window has lost its record; `HourlyBound` counts at most four
new records (`WakeActs`, `FourAtMost`) on top of fewer than the cap.
`SendsGoOn` is the safety half of `SendEndsUndisturbed`: a typed run never goes
back, its ask is on screen when it is made, and only a heartbeat in flight
(`Disturbed`) takes it off unanswered.

`TeamRunProofs.tla`, for any seats, wave plans, prices and budgets: `TypeCorrect`,
`LedgerBounded`, `OverrunsNamed`, `TicketsAccounted`, `FailureStopsWork`, `ReviewsAreCurrent`,
`MergesAreReviewed`. `Where` says where the run is: two seats in flight belong to the same
wave (`SeatOK`) and a seat of a later wave is idle (`AheadIdle`). On top of it, `Headroom`
is what makes the bound on the ledger inductive: with k seats of a wave of n in flight,
what was spent is below the ceiling, or below the ceiling plus n - k charges. `Books`
pairs the budget gate's account of open tickets with `OverrunIsNamed`, which `Settle`
preserves only because of it. `Progress` says that the waves before the current one are
recorded. `Review` says that a reader that may still run has every branch its snapshot
lists in view (`InView`): a worktree is made once, so a reader completes only on the
snapshot of its own wave. `RunsDescend` is the safety half of `RunEnds`: every step ends a
wave, a phase of it or a ticket, or takes one seat further and leaves the others alone, and
all of these are bounded (`Measured`); a seat's steps are because it is asked no more often
than its assignment has turns (`TurnsOK`).

`MissionRunProofs.tla`, for any plan, gates and retry budget: `TypeCorrect`, `Honest`,
`ApprovalsSpent`, `TwoRungsOnly`, `Rejections`. `GateInv`: an approval is spent by the
dispatch that follows it. `RungInv`, behind `TwoRungs`, is an account of where each run
comes from (its wave, the repair of its failure, the supervisor's one switch), which follows
the mutual recursion of `executeTask` and `repair` through `nested` and `from`. `DoubtInv`
ties the artifacts that are not verified to the grades of the tasks; `BlockInv` gives every
blocked run its cause: a ceiling, a pause, or a task that failed or waits. `RunsDescend` is
the safety half of `RunEnds`: turn, phase, work left in the phase and stage of the task in
hand, compared in that order, fall with every step of the run and every approval, are bounded
(`Measured`), and are left alone by a pause, a resume and a cancel, so that however the person
acts the run makes finitely many steps. It uses that a plan has finitely many tasks
(`MissionAssumption`).

`LiveCrossingProofs.tla`, for any pairs, capabilities, grants, ladder and number of lost writes:
`TypeCorrect`, `BudgetIsKept`, `RateIsBounded`, `Earned`. `RateInv` ties the stored counters
to the log: `CountInv` what a grant spent to its counter and the increments that were lost,
`WindowInv` what was spent since the current window began to its count, and, for a stretch
that begins before that window, at most one window's worth from before it; `StretchInv`
concludes for every stretch. It counts outcomes as cardinalities of finite sets of
places in the log.

Only model-checked: liveness, that is `EverySubmitSettles`, `SendEndsUndisturbed` and the two
`RunEnds`, since fairness and `ENABLED` are beyond the prover. What is proved of them is
their safety half, that every step goes forward; what is left to TLC is that a next step
is always possible and, under the stated fairness, taken. Every other property of a passing run
is a theorem.

## 5. What is not modelled

* Cryptography: signatures, hashes and encryption are ideal.
* The `compat` and `off` grant policies, reputation signals, risk levels.
* HTTP endpoints, metrics, logging, configuration parsing.
* Client reconnection, vault transfer, request helpers of the SDK.
* Data-level engines (routing, prompts, memory graph, specialists, document
  handling, the batch processors of federation and reach), the desktop shell and the
  user interface: sequential rules over records, or I/O, which make up most of the lines
  of the repository and have no interleavings to explore.
* Of the mission runtime: planning, `persist` and `restore`, negotiation, memory, rollback,
  and the repair strategies `run` never reaches. Of the team executor: web search and
  briefings. Of federation: approvals per crossing, which the console never attaches, and
  the replay guard, which tells calls apart by the words of the task.
* `engine/scheduler.ts`, which nothing imports; admission and rate limits of the harbour;
  goals, which the application only loads; the parts the plan lists as not done.

## 6. Known disagreements that no run keeps

TLC was seen to reach these with properties since removed, in favour of the ones
above:

* README's "root-key checkpoints every 10 links": links that commit while a
  checkpoint is signed are not counted, and the count starts at 0 with the process.
* "delegation depth capped": each delegated grant declares its own depth and root.
* `THREAT-MODEL.md:214-215`, a withdrawal "is deliberately sticky": it is forgotten with
  the window, a grant recorded after it then revives the member, and what was queued
  before it is recorded after it. `WithdrawalReaches` is what holds.
* A vouch whose signature is checked under the old key while a `key:rotate` is answered is
  recorded beside the new key if its payload names the new fingerprint (`vh-binding.js:15-62`,
  `harbor.js:305,358`), and every later start refuses the file (`ledger.js:94-97`).
  `MissignedAfterRotation` and `FileOpensIfSigned` are what holds of the two halves.
* The fingerprint a rotation brings is not compared with its key (`harbor.js:386`,
  `vh-crypto.js:374-387`).
* Events that arrive in one turn with the answer to a join find no listener
  (`vh-sdk.js:99-115`): the client does not learn of them.
* A caller that survived a failed *write* would append after a gap in the file.
* `initiative.ts:22`, "hard caps: acts/hour": the caps are compared before a wake
  adds its acts, and count what is recorded: `HourBounded` is the bound on the record, and
  no bound holds on what is executed, since a duplicate is executed unrecorded
  (`StewardTwice`).
* `initiative.ts:23`, "follow-up depth ≤ 2": a re-check of a partial verdict is
  scheduled at depth 1, whatever it re-checks.
* Level 0, "acts only on your command", and a tripped breaker do not stop the acts a
  wake still has to execute.
* Chain verification walks the live window by index across its awaits
  (`ledger.js:190-192`): an append that grows or shifts the window meanwhile makes an
  untouched chain look broken (`VerdictOffByOverlaps` bounds by how much), and the two
  together can hide each other.
* A card on screen may be one render older than the gate slot when it is clicked; that
  view is not modelled, so nothing is said of which ask the owner meant.
* A `user:join` that finishes after its own disconnect leaves a member nobody is
  connected as (`harbor.js:262`); `THREAT-MODEL.md:189-190`: "the duplicate-fingerprint
  check only covers identities currently connected".
* A `key:rotate` whose proof is checked after its own disconnect is recorded after the
  "leave" (`harbor.js:386-387`): the record then shows the old key, which another socket
  may have joined with meanwhile, as rotated away, and the new one as present.
* `openSecure` remembers the nonce after the await (`vh-crypto.js:316`): two copies of an
  envelope in flight are both recorded; `protocol/README.md:63`, "replayed grants are
  refused". The guard is in memory and forgets its oldest tenth at 20,000 nonces.
* `*` can be handed on by naming another root (`vh-trust.js:558`;
  `THREAT-MODEL.md:99-101`), and `findAuthorization` looks one hop up
  (`vh-trust.js:141`; `THREAT-MODEL.md:229`, "one revocation kills the subtree").
  A revoked designated key may still rotate, as `THREAT-MODEL.md:144-147` says.
* A connection refused for its version is counted and never given back
  (`harbor.js:137`); violation counts never expire (`ratelimit.js:33`).
* Due follow-ups are dropped at every wake, also at one that does nothing
  (`initiative.ts:263`).

Team executor:

* A second wave of readers always fails: `worktree add` names a path that exists.
* A merge conflict leaves the base checkout on the snapshot branch, against the comment
  above the merge.
* Under `serialExec` a writer after the last reviewer is merged unreviewed:
  `MergeWasReviewed` supposes writers first.
* A follow-up turn is asked before its wave is settled (`teamExecutor.ts:811-812`): it starts
  also when the charges so far have passed the authority. `NoWorkAfterFailure` speaks of the
  waves after it.
* The cost of a `resume_failed` turn is not charged; a timed-out child keeps running;
  `maxTurns` and `maxInvocations` are compared with counters nothing advances; the
  outcome `skipped_budget` cannot be reached.

Mission runtime:

* A run stops with "A task exhausted its repair budget and no further automated strategy
  applies" after two repairs of three: only `RETRY` and `ENRICH_CONTEXT` are ever chosen,
  and the rungs above them (`supervisor.ts:337-338`, "The order is deliberate") are not.
* The supervisor's `PAUSE_MISSION` sets the status and not the flag (`supervisor.ts:158`),
  and a pause is looked at only at the head of the loop: it does not stop the wave.
* `run` throws where the status machine has no such transition: a pause while an
  invocation fails, a pause with everything done, a ceiling met by the last task, a stall.
* The artifact of a failed attempt keeps a mission from `COMPLETED` after a repair that
  succeeded; a run that is `BLOCKED` for a human goes back to `RUNNING`.
* A durable restart makes new task ids, so the record of work done never matches.

Crossings:

* The windows are tumbling: "at most `windowMax` crossings in any `windowMs` window" is
  twice that at the edge of two (`TwoWindows` is the bound that holds).
* A live grant replaces the standing a pair earned, also when that was higher
  (`live.ts:141-142`, "A grant never overrides earned standing").
* `revokeLiveGrant` reports success when its write was lost; there is one slot for a
  grant, and Settings offers no other while it is taken.

* The console keeps its busy flag as the state of a page: closed and opened again, it lets a
  second crossing begin, which would read the same counter (`live.ts:280-294`). Such an
  overlap is not modelled.

Scheduler (`engine/scheduler.ts`, not modelled): its skip set has no effect, and a rejected
approval fails the node while what is downstream of it still runs (`frameworks.ts:55`).

## 7. Running

    tlc -config Ledger.cfg MCLedger
    tlapm LedgerProofs.tla

and likewise for the other configurations and proof modules listed in
`PROJECT.json`.
