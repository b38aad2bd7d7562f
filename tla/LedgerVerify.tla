----------------------------- MODULE LedgerVerify -----------------------------
(***************************************************************************)
(* chain:verify: Ledger.verifyWindow walks the live window, awaiting one   *)
(* hash per link, while appends go on pushing to it and shifting it.       *)
(* Positions are counted from 0 as in the code, so links[i] there is       *)
(* links[i + 1] here.                                                      *)
(***************************************************************************)
EXTENDS Ledger

CONSTANT MaxVerifies  \* bound on calls of chain:verify

ASSUME VerifyAssumption == MaxVerifies \in Nat

VARIABLES
  walk,     \* the call in progress: where it is and what it counted
  verdict,  \* the answer of the last call, "none" before the first
  calls

verifyVars == <<walk, verdict, calls>>
allVars == <<vars, walk, verdict, calls>>

NoWalk == [at |-> "off", i |-> 0, total |-> 0, intact |-> 0,
           recomputed |-> GENESIS, signed |-> TRUE, grown |-> 0, moved |-> 0]

(* Variant: every link of the window is counted, the oldest included. *)
LinkTotal_AllLinks == Len(links)

(* linkTotal: the oldest link of the window has no neighbour to check. *)
LinkTotal == IF Len(links) = 0 THEN 0 ELSE Len(links) - 1

(* sha256Hex(links[i].prev | links[i].payloadStr), its input read now. *)
Recompute(i) == Append(links[i + 1].prev, links[i + 1].payload)

(* What the loop does at position i: await a hash, or leave.  The links     *)
(* whose signatures are then checked, one await each, are those in the      *)
(* window as the loop is left, and links do not change.                     *)
Continue(w, i) ==
  walk' = IF i < Len(links)
          THEN [w EXCEPT !.at = "links", !.i = i, !.recomputed = Recompute(i)]
          ELSE [w EXCEPT !.at = "signatures", !.signed = SignaturesHold(links)]

VerifyStart ==
  /\ up
  /\ walk.at = "off"
  /\ calls < MaxVerifies
  /\ calls' = calls + 1
  /\ Continue([NoWalk EXCEPT !.total = LinkTotal], 1)
  /\ UNCHANGED <<vars, verdict>>

(* The hash arrives; it is compared with the window as it is now.          *)
VerifyStep ==
  LET i == walk.i
      intact == /\ links[i + 1].prev = links[i].hash
                /\ walk.recomputed = links[i + 1].hash
  IN /\ walk.at = "links"
     /\ Continue(IF intact THEN [walk EXCEPT !.intact = @ + 1] ELSE walk, i + 1)
     /\ UNCHANGED <<vars, verdict, calls>>

(* missingMetaSig: links since the first one with a metaSig that have none. *)
MissingMetaSig ==
  IF firstMeta # 0 /\ RequireMetaSig
  THEN {n \in 1..Len(links) : links[n].seq >= firstMeta /\ ~links[n].metaSig}
  ELSE {}

(* The signatures are checked; those of the harbour, the metaSigs, verify.  *)
(* The window as it is now is searched for a missing one, and ok is said.   *)
VerifyEnd ==
  /\ walk.at = "signatures"
  /\ verdict' = [ok |-> /\ walk.intact = walk.total
                        /\ walk.signed
                        /\ MissingMetaSig = {},
                 total |-> walk.total, intact |-> walk.intact,
                 grown |-> walk.grown, moved |-> walk.moved]
  /\ walk' = NoWalk
  /\ UNCHANGED <<vars, calls>>

(* A step of the ledger; the end of the process ends the walk.  An append   *)
(* the loop over the links overlaps makes the window grow or, when it is    *)
(* full, move.                                                              *)
LedgerStep ==
  /\ Next
  /\ walk' = CASE ~up' -> NoWalk
               [] up' /\ walk.at = "links" /\ Len(links') > Len(links) ->
                    [walk EXCEPT !.grown = @ + 1]
               [] up' /\ walk.at = "links" /\ Len(links') <= Len(links)
                      /\ links' # links ->
                    [walk EXCEPT !.moved = @ + 1]
               [] OTHER -> walk
  /\ UNCHANGED <<verdict, calls>>

VerifyInit ==
  /\ Init
  /\ walk = NoWalk
  /\ verdict = [ok |-> TRUE, total |-> 0, intact |-> 0, grown |-> 0, moved |-> 0]
  /\ calls = 0

VerifyNext == LedgerStep \/ VerifyStart \/ VerifyStep \/ VerifyEnd

VerifySpec == VerifyInit /\ [][VerifyNext]_allVars

VerifyFairSpec == VerifySpec /\ Fairness

-------------------------------------------------------------------------------
(* What chain:verify says is off by the appends it overlapped and by        *)
(* nothing else: each that made the window grow adds one link to those      *)
(* found intact; those that moved it cost one link at least, and one each   *)
(* at most, whatever the position the loop had reached; and where the       *)
(* counts agree, only a link in the file whose own signature does not       *)
(* verify makes the answer no.                                              *)
VerdictOffByOverlaps ==
  LET seen == verdict.total + verdict.grown
  IN /\ verdict.intact \in (seen - verdict.moved)..seen
     /\ verdict.moved > 0 => verdict.intact < seen
     /\ verdict.intact = verdict.total /\ ~verdict.ok => ~SignaturesHold(disk)
===============================================================================
